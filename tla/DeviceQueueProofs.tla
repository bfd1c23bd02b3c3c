------------------------- MODULE DeviceQueueProofs -------------------------
(***************************************************************************)
(* Proofs about DeviceQueue, for every set of requests and worker tasks,   *)
(* every capacity and every number of panics.                              *)
(***************************************************************************)
EXTENDS DeviceQueue, FiniteSetTheorems, WellFoundedInduction, TLAPS

(* What a worker holds at each position. *)
WorkerShape(w) ==
    /\ worker[w].pc \notin {"closing", "waiting", "next"}
    /\ worker[w].pc \notin {"adopt", "exec", "settle"} =>
          worker[w].entry = None /\ worker[w].todo = <<>>
    /\ worker[w].pc = "adopt" => worker[w].entry = None
    /\ worker[w].pc \in {"exec", "settle"} => worker[w].entry \in Entries
    /\ worker[w].pc = "exec" => worker[w].kept = "running" /\ worker[w].todo = <<>>
    /\ worker[w].pc = "settle" =>
          /\ worker[w].res # Unset /\ worker[w].kept \in {"running", "draining"}
          /\ worker[w].kept = "running" => worker[w].todo = <<>>

(* What join holds, and when it runs. *)
JoinShape ==
    /\ join.pc \in {"none", "closing", "waiting", "next", "settle", "returned"}
    /\ join.pc \in {"none", "closing", "returned"} => join.entry = None
    /\ join.pc = "waiting" => join.entry \in Workers
    /\ join.pc = "next" => join.entry \in Entries \cup {None}
    /\ join.pc = "settle" => join.entry \in Entries /\ join.res # Unset
    /\ join.pc # "none" => flag

ShapeInv == (\A w \in Workers : WorkerShape(w)) /\ JoinShape /\ (closed => flag)

(* A worker that has not ended is the one the queue has the handle of, or the
   one join waits for; the first never executes once join has the second.    *)
OwnerInv ==
    /\ \A w \in Workers : ~Finished(w) => w = handle \/ (join.pc = "waiting" /\ w = join.entry)
    /\ join.pc \notin {"none", "closing"} /\ handle # None => worker[handle].pc # "exec" /\ late

(* What waits, and what is not in the queue, is nowhere else and has neither
   been started nor answered.                                                *)
Untouched(e) ==
    /\ ~IsSet(e) /\ e \notin started
    /\ running # e /\ ~InSeq(e, draining)
    /\ \A w \in Workers : worker[w].entry # e /\ ~InSeq(e, worker[w].todo)
    /\ join.pc \in {"next", "settle"} => join.entry # e /\ ~InSeq(e, join.todo)
TouchInv ==
    /\ \A p \in Prios : \A i, j \in DOMAIN waiting[p] : waiting[p][i] = waiting[p][j] => i = j
    /\ \A e \in Entries : e \in Queued => call[e] # "idle"
    /\ \A e \in Entries : e \in Queued \/ call[e] = "idle" => Untouched(e)

(* What a worker finds in the shared queue at each position. *)
Quiet == Len(draining) <= 1 /\ (running = None \/ draining = <<>>)
HandOK(w) ==
    /\ worker[w].pc = "spawned" => Quiet
    /\ worker[w].pc = "adopt" => running = None /\ draining = <<>> /\ Len(worker[w].todo) <= 1
    /\ worker[w].pc \in {"loop", "parked"} => running = None /\ (flag \/ draining = <<>>)
    /\ worker[w].pc = "exec" => running = worker[w].entry /\ draining = <<>>
    /\ worker[w].pc = "settle" /\ worker[w].kept = "running" =>
          running = worker[w].entry /\ draining = <<>>
    /\ worker[w].pc = "settle" /\ worker[w].kept = "draining" =>
          running = None /\ worker[w].todo = <<>> /\ (flag \/ draining = <<worker[w].entry>>)
HandInv == ~late => (\A w \in Workers : HandOK(w)) /\ (flag \/ Quiet)

(* An entry without reply is where the next task will find it. *)
Kept(e) ==
    \/ e \in Queued \/ running = e \/ InSeq(e, draining)
    \/ \E w \in Workers : worker[w].pc = "adopt" /\ InSeq(e, worker[w].todo)
    \/ join.pc \in {"next", "settle"} /\ (join.entry = e \/ InSeq(e, join.todo))
KeptInv == ~late => \A e \in Entries : Open(e) => Kept(e)

(* What was started is running, handed to join or answered truly, as long as
   no worker has died or was spawned late.                                   *)
CalmWorker(w) ==
    /\ worker[w].pc # "dead"
    /\ worker[w].pc = "spawned" => running = None
    /\ worker[w].pc = "exec" => ~IsSet(worker[w].entry)
    /\ worker[w].pc = "settle" /\ worker[w].entry \in started =>
          worker[w].res \in {"Done", "Indeterminate"}
CalmEntry(e) ==
    /\ reply[e] \notin {"Cancelled", "Timeout"} /\ ~InSeq(e, draining)
    /\ \A w \in Workers : ~InSeq(e, worker[w].todo)
    /\ join.pc \in {"next", "settle"} => ~InSeq(e, join.todo)
    /\ join.pc = "settle" /\ join.entry = e => join.res = "Indeterminate"
CalmInv ==
    panics = 0 /\ ~late =>
        /\ \A w \in Workers : CalmWorker(w)
        /\ \A e \in started : CalmEntry(e)
        /\ flag \/ running = None \/ \E w \in Workers : ~Finished(w)

TypeInv ==
    /\ TypeOK /\ boost \in [Entries -> 0 .. 3] /\ panics \in Nat /\ late \in BOOLEAN
    /\ IsFiniteSet(Queued)

IInv == /\ TypeInv /\ ShapeInv /\ OwnerInv /\ TouchInv /\ HandInv /\ KeptInv /\ CalmInv

-----------------------------------------------------------------------------
(* Sequences of entries *)

(* What Append adds. *)
LEMMA InAppend ==
  ASSUME NEW q \in Seq(Entries), NEW e \in Entries, NEW x
  PROVE  /\ Append(q, e) \in Seq(Entries) /\ Append(q, e) # <<>>
         /\ InSeq(x, Append(q, e)) <=> InSeq(x, q) \/ x = e
<1>1. ASSUME InSeq(x, q) PROVE InSeq(x, Append(q, e))
  <2>1. PICK i \in DOMAIN q : q[i] = x
    BY <1>1 DEF InSeq
  <2>2. i \in DOMAIN Append(q, e) /\ Append(q, e)[i] = x
    BY <2>1
  <2> QED
    BY <2>2 DEF InSeq
<1>2. InSeq(e, Append(q, e))
  <2>1. Len(q) + 1 \in DOMAIN Append(q, e) /\ Append(q, e)[Len(q) + 1] = e
    OBVIOUS
  <2> QED
    BY <2>1 DEF InSeq
<1>3. ASSUME InSeq(x, Append(q, e)), x # e PROVE InSeq(x, q)
  <2>1. PICK i \in DOMAIN Append(q, e) : Append(q, e)[i] = x
    BY <1>3 DEF InSeq
  <2>2. i \in DOMAIN q /\ q[i] = x
    BY <1>3, <2>1
  <2> QED
    BY <2>2 DEF InSeq
<1>4. Append(q, e) \in Seq(Entries) /\ Append(q, e) # <<>>
  <2>1. Len(Append(q, e)) = Len(q) + 1 /\ Len(q) \in Nat /\ Len(<<>>) = 0
    OBVIOUS
  <2> QED
    BY <2>1
<1> QED
  BY <1>1, <1>2, <1>3, <1>4

(* A nonempty sequence is its head and its tail. *)
LEMMA InTail ==
  ASSUME NEW q \in Seq(Entries), q # <<>>, NEW x
  PROVE  /\ Head(q) \in Entries /\ Tail(q) \in Seq(Entries) /\ InSeq(Head(q), q)
         /\ InSeq(x, q) <=> x = Head(q) \/ InSeq(x, Tail(q))
         /\ Len(Tail(q)) = Len(q) - 1
<1>0. /\ Len(q) \in Nat /\ Len(q) >= 1 /\ DOMAIN q = 1 .. Len(q) /\ Head(q) = q[1]
      /\ Tail(q) \in Seq(Entries) /\ Len(Tail(q)) = Len(q) - 1
      /\ \A i \in 1 .. (Len(q) - 1) : Tail(q)[i] = q[i + 1]
      /\ DOMAIN Tail(q) = 1 .. (Len(q) - 1)
  OBVIOUS
<1>1. InSeq(Head(q), q) /\ Head(q) \in Entries
  <2>1. 1 \in DOMAIN q
    BY <1>0
  <2> QED
    BY <1>0, <2>1 DEF InSeq
<1>2. ASSUME InSeq(x, Tail(q)) PROVE InSeq(x, q)
  <2>1. PICK i \in 1 .. (Len(q) - 1) : q[i + 1] = x
    BY <1>0, <1>2 DEF InSeq
  <2>2. i + 1 \in DOMAIN q
    BY <1>0, <2>1
  <2> QED
    BY <2>1, <2>2 DEF InSeq
<1>3. ASSUME InSeq(x, q), x # Head(q) PROVE InSeq(x, Tail(q))
  <2>1. PICK i \in 1 .. Len(q) : q[i] = x
    BY <1>0, <1>3 DEF InSeq
  <2>2. i - 1 \in DOMAIN Tail(q) /\ Tail(q)[i - 1] = x
    BY <1>0, <1>3, <2>1
  <2> QED
    BY <2>2 DEF InSeq
<1> QED
  BY <1>0, <1>1, <1>2, <1>3

(* What is in a concatenation. *)
LEMMA InConcat ==
  ASSUME NEW q \in Seq(Entries), NEW r \in Seq(Entries)
  PROVE  /\ q \o r \in Seq(Entries)
         /\ \A x : InSeq(x, q \o r) <=> InSeq(x, q) \/ InSeq(x, r)
<1>0. /\ q \o r \in Seq(Entries) /\ DOMAIN (q \o r) = 1 .. (Len(q) + Len(r))
      /\ Len(q) \in Nat /\ Len(r) \in Nat /\ DOMAIN q = 1 .. Len(q) /\ DOMAIN r = 1 .. Len(r)
      /\ \A i \in 1 .. (Len(q) + Len(r)) :
            (q \o r)[i] = IF i <= Len(q) THEN q[i] ELSE r[i - Len(q)]
  OBVIOUS
<1>1. ASSUME NEW x, InSeq(x, q) PROVE InSeq(x, q \o r)
  <2>1. PICK i \in 1 .. Len(q) : q[i] = x
    BY <1>0, <1>1 DEF InSeq
  <2>2. i \in DOMAIN (q \o r) /\ (q \o r)[i] = x
    BY <1>0, <2>1
  <2> QED
    BY <2>2 DEF InSeq
<1>2. ASSUME NEW x, InSeq(x, r) PROVE InSeq(x, q \o r)
  <2>1. PICK i \in 1 .. Len(r) : r[i] = x
    BY <1>0, <1>2 DEF InSeq
  <2>2. i + Len(q) \in DOMAIN (q \o r) /\ (q \o r)[i + Len(q)] = x
    BY <1>0, <2>1
  <2> QED
    BY <2>2 DEF InSeq
<1>3. ASSUME NEW x, InSeq(x, q \o r) PROVE InSeq(x, q) \/ InSeq(x, r)
  <2>1. PICK i \in 1 .. (Len(q) + Len(r)) : (q \o r)[i] = x
    BY <1>0, <1>3 DEF InSeq
  <2>2. CASE i <= Len(q)
    <3>1. i \in DOMAIN q /\ q[i] = x
      BY <1>0, <2>1, <2>2
    <3> QED
      BY <3>1 DEF InSeq
  <2>3. CASE i > Len(q)
    <3>1. i - Len(q) \in DOMAIN r /\ r[i - Len(q)] = x
      BY <1>0, <2>1, <2>3
    <3> QED
      BY <3>1 DEF InSeq
  <2> QED
    BY <1>0, <2>2, <2>3
<1> QED
  BY <1>0, <1>1, <1>2, <1>3

(* A sequence in which every entry occurs once stays one. *)
LEMMA OnceEach ==
  ASSUME NEW q \in Seq(Entries), \A i, j \in DOMAIN q : q[i] = q[j] => i = j
  PROVE  /\ \A e \in Entries : ~InSeq(e, q) =>
               \A i, j \in DOMAIN Append(q, e) : Append(q, e)[i] = Append(q, e)[j] => i = j
         /\ q # <<>> => \A i, j \in DOMAIN Tail(q) : Tail(q)[i] = Tail(q)[j] => i = j
         /\ q # <<>> => ~InSeq(Head(q), Tail(q))
<1>1. ASSUME NEW e \in Entries, ~InSeq(e, q), NEW s, s = Append(q, e),
             NEW i \in DOMAIN s, NEW j \in DOMAIN s, s[i] = s[j]
      PROVE  i = j
  <2>1. Len(q) \in Nat /\ DOMAIN q = 1 .. Len(q) /\ DOMAIN s = 1 .. (Len(q) + 1)
    BY <1>1
  <2>a. ASSUME NEW k \in DOMAIN s
        PROVE  (k \in DOMAIN q /\ s[k] = q[k]) \/ (k = Len(q) + 1 /\ s[k] = e)
    BY <1>1, <2>1, <2>a
  <2>2. /\ (i \in DOMAIN q /\ s[i] = q[i]) \/ (i = Len(q) + 1 /\ s[i] = e)
        /\ (j \in DOMAIN q /\ s[j] = q[j]) \/ (j = Len(q) + 1 /\ s[j] = e)
    BY <2>a
  <2>3. \A k \in DOMAIN q : q[k] # e
    BY <1>1 DEF InSeq
  <2> QED
    BY <1>1, <2>2, <2>3
<1>2. ASSUME q # <<>>, NEW s, s = Tail(q), NEW i \in DOMAIN s
      PROVE  i + 1 \in DOMAIN q /\ s[i] = q[i + 1] /\ i \in Nat /\ 1 \in DOMAIN q /\ i + 1 # 1
  <2>1. Len(q) \in Nat /\ Len(q) > 0 /\ DOMAIN q = 1 .. Len(q) /\ DOMAIN s = 1 .. (Len(q) - 1)
    BY <1>2
  <2> QED
    BY <1>2, <2>1
<1>3. ASSUME q # <<>>, NEW s, s = Tail(q), NEW i \in DOMAIN s, NEW j \in DOMAIN s, s[i] = s[j]
      PROVE  i = j
  <2>1. i + 1 \in DOMAIN q /\ s[i] = q[i + 1] /\ j + 1 \in DOMAIN q /\ s[j] = q[j + 1]
        /\ i \in Nat /\ j \in Nat
    BY <1>2, <1>3
  <2>2. i + 1 = j + 1
    BY <1>3, <2>1
  <2> QED
    BY <2>1, <2>2
<1>4. ASSUME q # <<>>, NEW s, s = Tail(q), InSeq(Head(q), s) PROVE FALSE
  <2>1. PICK i \in DOMAIN s : s[i] = q[1]
    BY <1>4 DEF InSeq
  <2>2. i + 1 \in DOMAIN q /\ 1 \in DOMAIN q /\ q[i + 1] = q[1] /\ i + 1 # 1
    BY <1>2, <1>4, <2>1
  <2> QED
    BY <2>2
<1> QED
  BY <1>1, <1>3, <1>4

(* Every element of a sequence with a tail, or with one more entry. *)
LEMMA EachOf ==
  ASSUME NEW q \in Seq(Entries), NEW k, \A i \in DOMAIN q : Prio[q[i]] = k
  PROVE  /\ \A e \in Entries : Prio[e] = k =>
               \A i \in DOMAIN Append(q, e) : Prio[Append(q, e)[i]] = k
         /\ q # <<>> => \A i \in DOMAIN Tail(q) : Prio[Tail(q)[i]] = k
<1>1. ASSUME NEW e \in Entries, Prio[e] = k, NEW s, s = Append(q, e), NEW i \in DOMAIN s
      PROVE  Prio[s[i]] = k
  <2>1. Len(q) \in Nat /\ DOMAIN q = 1 .. Len(q) /\ DOMAIN s = 1 .. (Len(q) + 1)
    BY <1>1
  <2>2. (i \in DOMAIN q /\ s[i] = q[i]) \/ s[i] = e
    BY <1>1, <2>1
  <2> QED
    BY <1>1, <2>2
<1>2. ASSUME q # <<>>, NEW s, s = Tail(q), NEW i \in DOMAIN s
      PROVE  Prio[s[i]] = k
  <2>1. Len(q) \in Nat /\ Len(q) > 0 /\ DOMAIN q = 1 .. Len(q) /\ DOMAIN s = 1 .. (Len(q) - 1)
    BY <1>2
  <2>2. i + 1 \in DOMAIN q /\ s[i] = q[i + 1]
    BY <1>2, <2>1
  <2> QED
    BY <2>2
<1> QED
  BY <1>1, <1>2

(* Nothing is in the empty sequence. *)
LEMMA InEmpty ==
  ASSUME NEW x
  PROVE  ~InSeq(x, <<>>)
BY DEF InSeq

(* One thing is in a single one. *)
LEMMA InSingle ==
  ASSUME NEW e \in Entries
  PROVE  /\ <<e>> \in Seq(Entries) /\ <<e>> # <<>> /\ Len(<<e>>) = 1
         /\ \A x : InSeq(x, <<e>>) <=> x = e
<1>1. \A i \in DOMAIN <<e>> : i = 1
  OBVIOUS
<1>2. InSeq(e, <<e>>)
  <2>1. 1 \in DOMAIN <<e>> /\ <<e>>[1] = e
    OBVIOUS
  <2> QED
    BY <2>1 DEF InSeq
<1> QED
  BY <1>1, <1>2 DEF InSeq

(* A nonempty set of naturals has a least element. *)
LEMMA LeastExists ==
  ASSUME NEW S, S \subseteq Nat, S # {}
  PROVE  \E m \in S : \A j \in S : m <= j
<1>1. PICK m \in S : \A j \in S : ~(<<j, m>> \in OpToRel(<, Nat))
  BY NatLessThanWellFounded, WFMin
<1>2. ASSUME NEW j \in S PROVE m <= j
  <2>1. j \in Nat /\ m \in Nat
    OBVIOUS
  <2>2. <<j, m>> \in Nat \X Nat /\ <<j, m>>[1] = j /\ <<j, m>>[2] = m
    BY <2>1
  <2>3. ~(j < m)
    BY <1>1, <2>2 DEF OpToRel
  <2> QED
    BY <2>1, <2>3
<1> QED
  BY <1>2

(* Popped drops answered entries only, and all of them when it is one. *)
LEMMA InPopped ==
  ASSUME NEW q \in Seq(Entries), NEW rep
  PROVE  /\ Popped(q, rep) \in Seq(Entries)
         /\ \A x : InSeq(x, Popped(q, rep)) => InSeq(x, q)
         /\ \A x : InSeq(x, q) /\ rep[x] = Unset => InSeq(x, Popped(q, rep))
<1> DEFINE keep == {i \in DOMAIN q : rep[q[i]] = Unset}
           least == CHOOSE i \in keep : \A j \in keep : i <= j
           n == IF keep = {} THEN Len(q) ELSE least - 1
<1>0. DOMAIN q = 1 .. Len(q) /\ Len(q) \in Nat
  OBVIOUS
<1>1. n \in 0 .. Len(q) /\ \A i \in keep : i > n
  <2>1. CASE keep = {}
    BY <1>0, <2>1
  <2>2. CASE keep # {}
    <3>1. keep \subseteq 1 .. Len(q)
      BY <1>0
    <3> HIDE DEF keep
    <3>2. keep \subseteq Nat
      BY <1>0, <3>1
    <3>3. \E m \in keep : \A j \in keep : m <= j
      BY <2>2, <3>2, LeastExists
    <3>4. least \in keep /\ \A j \in keep : least <= j
      BY <3>3
    <3> HIDE DEF least
    <3> QED
      BY <1>0, <2>2, <3>1, <3>4
  <2> QED
    BY <2>1, <2>2
<1>2. Popped(q, rep) = SubSeq(q, n + 1, Len(q))
  BY DEF Popped
<1>3. ASSUME NEW x, InSeq(x, q), rep[x] = Unset
      PROVE  \E i \in DOMAIN q : i > n /\ q[i] = x
  <2>1. PICK i \in DOMAIN q : q[i] = x
    BY <1>3 DEF InSeq
  <2>2. i \in keep
    BY <1>3, <2>1
  <2> QED
    BY <1>1, <2>1, <2>2
<1> HIDE DEF n
<1> DEFINE p == SubSeq(q, n + 1, Len(q))
<1>4. /\ p \in Seq(Entries) /\ DOMAIN p = 1 .. (Len(q) - n)
      /\ \A i \in 1 .. (Len(q) - n) : p[i] = q[i + n]
  BY <1>0, <1>1
<1> HIDE DEF p
<1>5. ASSUME NEW x, InSeq(x, p) PROVE InSeq(x, q)
  <2>1. PICK i \in 1 .. (Len(q) - n) : q[i + n] = x
    BY <1>4, <1>5 DEF InSeq
  <2>2. i + n \in DOMAIN q
    BY <1>0, <1>1, <2>1
  <2> QED
    BY <2>1, <2>2 DEF InSeq
<1>6. ASSUME NEW x, InSeq(x, q), rep[x] = Unset PROVE InSeq(x, p)
  <2>1. PICK i \in DOMAIN q : i > n /\ q[i] = x
    BY <1>3, <1>6
  <2>2. i - n \in 1 .. (Len(q) - n)
    BY <1>0, <1>1, <2>1
  <2>3. q[(i - n) + n] = x
    BY <1>0, <1>1, <2>1
  <2> QED
    BY <1>4, <2>2, <2>3 DEF InSeq
<1>7. Popped(q, rep) = p
  BY <1>2 DEF p
<1> QED
  BY <1>4, <1>5, <1>6, <1>7

(* An answered entry that is alone is dropped. *)
LEMMA PoppedSingle ==
  ASSUME NEW e \in Entries, NEW rep, rep[e] # Unset
  PROVE  Popped(<<e>>, rep) = <<>>
<1> DEFINE keep == {i \in DOMAIN <<e>> : rep[<<e>>[i]] = Unset}
<1>1. keep = {}
  OBVIOUS
<1>2. Popped(<<e>>, rep) = SubSeq(<<e>>, Len(<<e>>) + 1, Len(<<e>>))
  BY <1>1 DEF Popped
<1> QED
  BY <1>2

(* What waits. *)
LEMMA InQueued ==
  ASSUME NEW x
  PROVE  x \in Queued <=> \E p \in Prios : InSeq(x, waiting[p])
BY DEF Queued, InSeq

(* The queue without what waits, and what Drain and JoinAbandons gather. *)
LEMMA DrainedFacts ==
  ASSUME TypeInv
  PROVE  /\ Drained \in Seq(Entries)
         /\ \A x : InSeq(x, Drained) <=> InSeq(x, draining) \/ x \in Queued
         /\ waiting[0] \o waiting[1] \o waiting[2] \o waiting[3] \o draining \in Seq(Entries)
         /\ \A x : InSeq(x, waiting[0] \o waiting[1] \o waiting[2] \o waiting[3] \o draining)
                     <=> InSeq(x, draining) \/ x \in Queued
<1>0. /\ waiting[0] \in Seq(Entries) /\ waiting[1] \in Seq(Entries)
      /\ waiting[2] \in Seq(Entries) /\ waiting[3] \in Seq(Entries)
      /\ draining \in Seq(Entries)
  BY DEF TypeInv, TypeOK, Prios
<1>1. ASSUME NEW x
      PROVE  x \in Queued <=> \/ InSeq(x, waiting[0]) \/ InSeq(x, waiting[1])
                              \/ InSeq(x, waiting[2]) \/ InSeq(x, waiting[3])
  BY InQueued DEF Prios
<1> DEFINE a == draining \o waiting[0]
           b == a \o waiting[1]
           c == b \o waiting[2]
<1>2. a \in Seq(Entries) /\ \A x : InSeq(x, a) <=> InSeq(x, draining) \/ InSeq(x, waiting[0])
  BY <1>0, InConcat
<1> HIDE DEF a
<1>3. b \in Seq(Entries) /\ \A x : InSeq(x, b) <=> InSeq(x, a) \/ InSeq(x, waiting[1])
  BY <1>0, <1>2, InConcat
<1> HIDE DEF b
<1>4. c \in Seq(Entries) /\ \A x : InSeq(x, c) <=> InSeq(x, b) \/ InSeq(x, waiting[2])
  BY <1>0, <1>3, InConcat
<1> HIDE DEF c
<1>5. /\ c \o waiting[3] \in Seq(Entries)
      /\ \A x : InSeq(x, c \o waiting[3]) <=> InSeq(x, c) \/ InSeq(x, waiting[3])
  BY <1>0, <1>4, InConcat
<1>6. Drained = c \o waiting[3]
  BY DEF Drained, a, b, c
<1> DEFINE d == waiting[0] \o waiting[1]
           f == d \o waiting[2]
           g == f \o waiting[3]
<1>7. d \in Seq(Entries) /\ \A x : InSeq(x, d) <=> InSeq(x, waiting[0]) \/ InSeq(x, waiting[1])
  BY <1>0, InConcat
<1> HIDE DEF d
<1>8. f \in Seq(Entries) /\ \A x : InSeq(x, f) <=> InSeq(x, d) \/ InSeq(x, waiting[2])
  BY <1>0, <1>7, InConcat
<1> HIDE DEF f
<1>9. g \in Seq(Entries) /\ \A x : InSeq(x, g) <=> InSeq(x, f) \/ InSeq(x, waiting[3])
  BY <1>0, <1>8, InConcat
<1> HIDE DEF g
<1>10. /\ g \o draining \in Seq(Entries)
       /\ \A x : InSeq(x, g \o draining) <=> InSeq(x, g) \/ InSeq(x, draining)
  BY <1>0, <1>9, InConcat
<1>11. waiting[0] \o waiting[1] \o waiting[2] \o waiting[3] \o draining = g \o draining
  BY DEF d, f, g
<1> QED
  BY <1>1, <1>2, <1>3, <1>4, <1>5, <1>6, <1>7, <1>8, <1>9, <1>10, <1>11

(* The fields of a task *)

(* The task of worker w becomes the given one, and no other changes. *)
Becomes(w, p, e, r, k, t) ==
    /\ worker'[w].pc = p /\ worker'[w].entry = e /\ worker'[w].res = r
    /\ worker'[w].kept = k /\ worker'[w].todo = t
    /\ \A v \in Workers \ {w} : worker'[v] = worker[v]

(* The fields of a task that was built. *)
LEMMA TaskFields ==
  ASSUME NEW p, NEW e, NEW r, NEW k, NEW t
  PROVE  /\ Task(p, e, r, k, t).pc = p /\ Task(p, e, r, k, t).entry = e
         /\ Task(p, e, r, k, t).res = r /\ Task(p, e, r, k, t).kept = k
         /\ Task(p, e, r, k, t).todo = t
BY DEF Task

(* A task with one or two new fields is a task that was built. *)
LEMMA TaskEdits ==
  ASSUME NEW u \in Tasks
  PROVE  /\ \A x : [u EXCEPT !.entry = x] = Task(u.pc, x, u.res, u.kept, u.todo)
         /\ \A x : [u EXCEPT !.todo = x] = Task(u.pc, u.entry, u.res, u.kept, x)
         /\ \A x, y : [u EXCEPT !.pc = x, !.res = y] = Task(x, u.entry, y, u.kept, u.todo)
<1>1. u = Task(u.pc, u.entry, u.res, u.kept, u.todo)
  BY DEF Task, Tasks
<1>2. ASSUME NEW x PROVE [u EXCEPT !.entry = x] = Task(u.pc, x, u.res, u.kept, u.todo)
  BY <1>1 DEF Task
<1>3. ASSUME NEW x PROVE [u EXCEPT !.todo = x] = Task(u.pc, u.entry, u.res, u.kept, x)
  BY <1>1 DEF Task
<1>4. ASSUME NEW x, NEW y
      PROVE  [u EXCEPT !.pc = x, !.res = y] = Task(x, u.entry, y, u.kept, u.todo)
  <2>1. PICK a \in {u.pc}, b \in {u.entry}, c \in {u.res}, d \in {u.kept}, f \in {u.todo} :
           u \in [pc : {a}, entry : {b}, res : {c}, kept : {d}, todo : {f}]
    BY <1>1 DEF Task
  <2>2. PICK v : v = [u EXCEPT !.pc = x, !.res = y]
    OBVIOUS
  <2>3. v = [pc |-> x, entry |-> b, res |-> y, kept |-> d, todo |-> f]
    BY <2>1, <2>2
  <2> QED
    BY <2>1, <2>2, <2>3 DEF Task
<1> QED
  BY <1>2, <1>3, <1>4

(* The types of the fields. *)
LEMMA TaskTypes ==
  ASSUME NEW u \in Tasks
  PROVE  /\ u.entry \in Entries \cup Workers \cup {None} /\ u.res \in RunResults \cup {Unset}
         /\ u.todo \in Seq(Entries)
BY DEF Tasks

(* What a step of worker w does to the tasks. *)
LEMMA StepFacts ==
  ASSUME TypeInv, NEW w \in Workers, NEW p, NEW e, NEW r, NEW k, NEW t
  PROVE  /\ Step(w, Task(p, e, r, k, t)) => Becomes(w, p, e, r, k, t)
         /\ worker' = [worker EXCEPT ![w] = Task(p, e, r, k, t)] => Becomes(w, p, e, r, k, t)
<1>1. worker \in [Workers -> Tasks]
  BY DEF TypeInv, TypeOK
<1> QED
  BY <1>1, TaskFields DEF Step, Becomes

-----------------------------------------------------------------------------
(* What the steps that touch several variables do, field by field *)

(* What waits is queued by priority and once. *)
WaitOK ==
    /\ waiting \in [Prios -> Seq(Entries)]
    /\ \A p \in Prios : \A i \in DOMAIN waiting[p] : Prio[waiting[p][i]] = p
    /\ \A p \in Prios : \A i, j \in DOMAIN waiting[p] : waiting[p][i] = waiting[p][j] => i = j

(* Enqueue adds its entry to what waits. *)
LEMMA EnqueueDoes ==
  ASSUME TypeInv, TouchInv, NEW e \in Entries, Enqueue(e)
  PROVE  WaitOK' /\ Queued' = Queued \cup {e} /\ e \notin Queued
<1> USE QueueAssumption
<1>1. waiting \in [Prios -> Seq(Entries)] /\ Prio[e] \in Prios /\ call[e] = "idle"
  BY DEF TypeInv, TypeOK, Prios, Enqueue
<1>2. e \notin Queued
  BY <1>1 DEF TouchInv
<1> DEFINE k == Prio[e]
           q == waiting[k]
<1>3. /\ waiting' \in [Prios -> Seq(Entries)] /\ waiting'[k] = Append(q, e)
      /\ \A p \in Prios : p # k => waiting'[p] = waiting[p]
  BY <1>1 DEF Enqueue
<1>4. q \in Seq(Entries)
  BY <1>1
<1>5. ~InSeq(e, q)
  BY <1>1, <1>2, InQueued
<1>6. ASSUME NEW x PROVE x \in Queued' <=> x \in Queued \/ x = e
  <2>1. x \in Queued' <=> \E p \in Prios : InSeq(x, waiting'[p])
    BY DEF Queued, InSeq
  <2>2. InSeq(x, waiting'[k]) <=> InSeq(x, q) \/ x = e
    BY <1>3, <1>4, InAppend
  <2> QED
    BY <1>1, <1>3, <2>1, <2>2, InQueued
<1>7. /\ \A i \in DOMAIN q : Prio[q[i]] = k
      /\ \A i, j \in DOMAIN q : q[i] = q[j] => i = j
  BY <1>1 DEF TypeInv, TypeOK, TouchInv
<1>8. \A i \in DOMAIN Append(q, e) : Prio[Append(q, e)[i]] = k
  BY <1>4, <1>7, EachOf
<1>9. \A i, j \in DOMAIN Append(q, e) : Append(q, e)[i] = Append(q, e)[j] => i = j
  BY <1>4, <1>5, <1>7, OnceEach
<1>10. WaitOK'
  <2> HIDE DEF q, k
  <2> QED
    BY <1>1, <1>3, <1>8, <1>9 DEF WaitOK, TypeInv, TypeOK, TouchInv
<1> QED
  BY <1>2, <1>6, <1>10

(* Nothing waits in the emptied queue. *)
LEMMA EmptiedDoes ==
  ASSUME waiting' = [p \in Prios |-> <<>>]
  PROVE  WaitOK' /\ Queued' = {}
<1>1. \A p \in Prios : waiting'[p] = <<>> /\ DOMAIN waiting'[p] = {}
  OBVIOUS
<1> QED
  BY <1>1 DEF WaitOK, Queued

(* Pick takes the entry it chose out of what waits. *)
LEMMA TakenDoes ==
  ASSUME TypeInv, TouchInv, NEW e \in Entries, Best(e),
         waiting' = [waiting EXCEPT ![Prio[e]] = Tail(@)]
  PROVE  WaitOK' /\ e \in Queued /\ Queued' = Queued \ {e}
<1> USE QueueAssumption
<1>1. waiting \in [Prios -> Seq(Entries)] /\ Prio[e] \in Prios
  BY DEF TypeInv, TypeOK, Prios
<1> DEFINE k == Prio[e]
           q == waiting[k]
<1>2. q # <<>> /\ e = Head(q)
  <2>1. PICK p \in Prios : waiting[p] # <<>> /\ e = Head(waiting[p])
    BY DEF Best, Fronts
  <2>2. 1 \in DOMAIN waiting[p] /\ waiting[p][1] = e
    BY <1>1, <2>1
  <2> QED
    BY <2>1, <2>2 DEF TypeInv, TypeOK
<1>3. /\ waiting' \in [Prios -> Seq(Entries)] /\ waiting'[k] = Tail(q)
      /\ \A p \in Prios : p # k => waiting'[p] = waiting[p]
  BY <1>1, <1>2, InTail
<1>4. q \in Seq(Entries)
  BY <1>1
<1>5. /\ \A i \in DOMAIN q : Prio[q[i]] = k
      /\ \A i, j \in DOMAIN q : q[i] = q[j] => i = j
  BY <1>1 DEF TypeInv, TypeOK, TouchInv
<1>6. \A i \in DOMAIN Tail(q) : Prio[Tail(q)[i]] = k
  BY <1>2, <1>4, <1>5, EachOf
<1>7. \A i, j \in DOMAIN Tail(q) : Tail(q)[i] = Tail(q)[j] => i = j
  BY <1>2, <1>4, <1>5, OnceEach
<1>8. ~InSeq(e, Tail(q))
  BY <1>2, <1>4, <1>5, OnceEach
<1>9. \A p \in Prios : p # k => ~InSeq(e, waiting[p])
  BY DEF TypeInv, TypeOK, InSeq
<1>10. ASSUME NEW x PROVE x \in Queued' <=> x \in Queued /\ x # e
  <2>1. x \in Queued' <=> \E p \in Prios : InSeq(x, waiting'[p])
    BY DEF Queued, InSeq
  <2>2. InSeq(x, q) <=> InSeq(x, Tail(q)) \/ x = e
    BY <1>2, <1>4, InTail
  <2> QED
    BY <1>1, <1>3, <1>8, <1>9, <2>1, <2>2, InQueued
<1>11. WaitOK'
  <2>1. PICK s : s = Tail(q)
    OBVIOUS
  <2>2. /\ waiting'[k] = s /\ \A i \in DOMAIN s : Prio[s[i]] = k
        /\ \A i, j \in DOMAIN s : s[i] = s[j] => i = j
    BY <1>3, <1>6, <1>7, <2>1
  <2>3. ASSUME NEW p \in Prios
        PROVE  /\ \A i \in DOMAIN waiting'[p] : Prio[waiting'[p][i]] = p
               /\ \A i, j \in DOMAIN waiting'[p] : waiting'[p][i] = waiting'[p][j] => i = j
    <3>1. CASE p = k
      BY <2>2, <3>1
    <3>2. CASE p # k
      BY <1>3, <3>2 DEF TypeInv, TypeOK, TouchInv
    <3> QED
      BY <3>1, <3>2
  <2> QED
    BY <1>3, <2>3 DEF WaitOK
<1>12. e \in Queued
  BY <1>1, <1>2, <1>4, InTail, InQueued
<1> QED
  BY <1>10, <1>11, <1>12

(* The first poll of a worker. *)
LEMMA AdoptDoes ==
  ASSUME TypeInv, NEW w \in Workers, Adopt(w)
  PROVE  /\ worker[w].pc = "spawned" /\ running' = None
         /\ UNCHANGED <<call, waiting, closed, flag, handle, join, started, reply, late, panics>>
         /\ \/ /\ running \in Entries /\ ~IsSet(running) /\ draining' = <<running>>
               /\ Becomes(w, "settle", running, "Indeterminate", "draining", draining)
            \/ /\ running = None \/ IsSet(running)
               /\ draining' = <<>>
               /\ Becomes(w, "adopt", None, Unset, "nowhere", draining)
BY StepFacts DEF Adopt, Tracked, TypeInv, TypeOK

(* An orphan is taken from the hands of the worker. *)
LEMMA AdoptNextDoes ==
  ASSUME TypeInv, NEW w \in Workers, AdoptNext(w), NEW t, t = worker[w].todo
  PROVE  /\ worker[w].pc = "adopt" /\ t \in Seq(Entries)
         /\ UNCHANGED <<call, waiting, running, closed, flag, handle, join, started, reply, late, panics>>
         /\ \/ /\ t = <<>> /\ draining' = draining
               /\ Becomes(w, "loop", None, Unset, "nowhere", <<>>)
            \/ /\ t # <<>> /\ IsSet(Head(t)) /\ draining' = draining
               /\ Becomes(w, "adopt", worker[w].entry, worker[w].res, worker[w].kept, Tail(t))
            \/ /\ t # <<>> /\ Head(t) \in Entries /\ ~IsSet(Head(t))
               /\ draining' = Append(draining, Head(t))
               /\ Becomes(w, "settle", Head(t), "Cancelled", "draining", Tail(t))
<1>1. worker[w] \in Tasks
  BY DEF TypeInv, TypeOK
<1>2. t \in Seq(Entries) /\ (t # <<>> => Head(t) \in Entries)
  BY <1>1, TaskTypes, InTail
<1>3. [worker[w] EXCEPT !.todo = Tail(t)]
        = Task("adopt", worker[w].entry, worker[w].res, worker[w].kept, Tail(t))
  <2>1. worker[w].pc = "adopt"
    BY DEF AdoptNext
  <2>2. PICK x : x = Tail(t)
    OBVIOUS
  <2>3. [worker[w] EXCEPT !.todo = x] = Task(worker[w].pc, worker[w].entry, worker[w].res, worker[w].kept, x)
    BY <1>1, TaskEdits
  <2> QED
    BY <2>1, <2>2, <2>3
<1> QED
  BY <1>2, <1>3, StepFacts DEF AdoptNext, Tracked, At

(* The closed queue moves what waits to draining. *)
LEMMA DrainDoes ==
  ASSUME TypeInv, ShapeInv, NEW w \in Workers, Drain(w)
  PROVE  /\ worker[w].pc = "loop" /\ flag /\ closed' = TRUE
         /\ waiting' = [p \in Prios |-> <<>>] /\ Queued' = {}
         /\ UNCHANGED <<call, running, flag, handle, join, started, reply, late, panics>>
         /\ draining' \in Seq(Entries)
         /\ \A x : InSeq(x, draining') <=> InSeq(x, draining) \/ x \in Queued
         /\ \/ \E e \in Entries :
                  /\ InSeq(e, draining')
                  /\ Becomes(w, "settle", e, "Cancelled", "draining", <<>>)
            \/ \E p \in {"returned", "parked"} : Becomes(w, p, None, Unset, "nowhere", <<>>)
<1>1. waiting' = [p \in Prios |-> <<>>] /\ Queued' = {} /\ closed' = TRUE
  BY EmptiedDoes DEF Drain
<1>2. worker[w].pc = "loop" /\ flag
  BY DEF Drain, ShapeInv
<1>3. /\ Drained \in Seq(Entries) /\ draining \in Seq(Entries)
      /\ \A x : InSeq(x, Drained) <=> InSeq(x, draining) \/ x \in Queued
  BY DrainedFacts DEF TypeInv, TypeOK
<1>4. CASE Drained # <<>>
  <2> DEFINE e == Head(Drained)
  <2>1. e \in Entries /\ InSeq(e, Drained)
    BY <1>3, <1>4, InTail
  <2>2. draining' = Append(Drained, e)
        /\ Becomes(w, "settle", e, "Cancelled", "draining", <<>>)
    BY <1>4, StepFacts DEF Drain, Tracked
  <2> HIDE DEF e
  <2>3. /\ draining' \in Seq(Entries)
        /\ \A x : InSeq(x, draining') <=> InSeq(x, Drained) \/ x = e
    BY <1>3, <2>1, <2>2, InAppend
  <2> QED
    BY <1>1, <1>2, <1>3, <2>1, <2>2, <2>3 DEF Drain
<1>5. CASE Drained = <<>>
  <2>1. draining' = draining
    BY <1>5 DEF Drain
  <2>2. \A x : x \notin Queued
    BY <1>3, <1>5 DEF InSeq
  <2>3. \E p \in {"returned", "parked"} : Becomes(w, p, None, Unset, "nowhere", <<>>)
    BY <1>5, StepFacts DEF Drain, At
  <2> QED
    BY <1>1, <1>2, <1>3, <2>1, <2>2, <2>3 DEF Drain
<1> QED
  BY <1>4, <1>5

(* The best entry is executed, or settled when it is cancelled or too late. *)
LEMMA PickDoes ==
  ASSUME TypeInv, TouchInv, NEW w \in Workers, Pick(w)
  PROVE  /\ worker[w].pc = "loop" /\ ~flag /\ ~closed /\ WaitOK'
         /\ UNCHANGED <<call, closed, flag, handle, join, started, reply, late, panics>>
         /\ \E e \in Entries :
               /\ e \in Queued /\ Queued' = Queued \ {e}
               /\ \/ /\ running' = e /\ draining' = draining
                     /\ Becomes(w, "exec", e, Unset, "running", <<>>)
                  \/ /\ running' = running /\ draining' = Append(draining, e)
                     /\ \E r \in {"Cancelled", "Timeout"} :
                           Becomes(w, "settle", e, r, "draining", <<>>)
<1>1. PICK e \in Entries :
          /\ Best(e)
          /\ waiting' = [waiting EXCEPT ![Prio[e]] = Tail(@)]
          /\ IF Ready(e)
             THEN /\ Step(w, Task("exec", e, Unset, "running", <<>>))
                  /\ running' = e
                  /\ UNCHANGED draining
             ELSE /\ Step(w, Tracked(e, IF e \in cancelled THEN "Cancelled" ELSE "Timeout", <<>>))
                  /\ draining' = Append(draining, e)
                  /\ UNCHANGED running
  BY DEF Pick
<1>2. WaitOK' /\ e \in Queued /\ Queued' = Queued \ {e}
  BY <1>1, TakenDoes
<1>3. \/ /\ running' = e /\ draining' = draining
         /\ Becomes(w, "exec", e, Unset, "running", <<>>)
      \/ /\ running' = running /\ draining' = Append(draining, e)
         /\ \E r \in {"Cancelled", "Timeout"} : Becomes(w, "settle", e, r, "draining", <<>>)
  BY <1>1, StepFacts DEF Tracked
<1> QED
  BY <1>2, <1>3 DEF Pick

(* The execution ends with a result; a started one not as Cancelled or Timeout. *)
LEMMA RanDoes ==
  ASSUME TypeInv, NEW w \in Workers,
         ExecutorAnswers(w) \/ ExecutionTimesOut(w) \/ ExecutionCancelled(w)
  PROVE  /\ worker[w].pc = "exec"
         /\ UNCHANGED <<call, waiting, running, draining, closed, flag, handle, join, started,
                        reply, late, panics>>
         /\ \E r \in RunResults :
               /\ worker[w].entry \in started => r \in {"Done", "Indeterminate"}
               /\ Becomes(w, "settle", worker[w].entry, r, worker[w].kept, worker[w].todo)
<1>1. worker[w] \in Tasks
  BY DEF TypeInv, TypeOK
<1>2. ASSUME NEW r \in RunResults, Ran(w, r)
      PROVE  Becomes(w, "settle", worker[w].entry, r, worker[w].kept, worker[w].todo)
  <2>1. [worker[w] EXCEPT !.pc = "settle", !.res = r]
          = Task("settle", worker[w].entry, r, worker[w].kept, worker[w].todo)
    BY <1>1, TaskEdits
  <2> QED
    BY <1>2, <2>1, StepFacts DEF Ran
<1>3. PICK r \in RunResults :
          Ran(w, r) /\ (worker[w].entry \in started => r \in {"Done", "Indeterminate"})
  BY DEF ExecutorAnswers, ExecutionTimesOut, ExecutionCancelled, Interrupted, RunResults
<1>4. Becomes(w, "settle", worker[w].entry, r, worker[w].kept, worker[w].todo)
  BY <1>2, <1>3
<1>5. worker[w].pc = "exec"
  BY DEF ExecutorAnswers, ExecutionTimesOut, ExecutionCancelled
<1> QED
  BY <1>3, <1>4, <1>5 DEF Ran

(* The reply is written and the entry is no longer kept. *)
LEMMA SettleDoes ==
  ASSUME TypeInv, ShapeInv, NEW w \in Workers, SettleEntry(w), NEW e, e = worker[w].entry
  PROVE  /\ worker[w].pc = "settle" /\ e \in Entries
         /\ UNCHANGED <<call, waiting, closed, flag, handle, join, started, late, panics>>
         /\ reply' \in [Entries -> RunResults \cup {Unset}]
         /\ reply'[e] \in {worker[w].res, "Indeterminate"} /\ reply'[e] # Unset
         /\ \A x \in Entries : x # e => reply'[x] = reply[x]
         /\ \/ worker[w].kept = "running" /\ running' = None /\ draining' = draining
            \/ /\ worker[w].kept = "draining" /\ running' = running
               /\ draining' = Popped(draining, reply')
         /\ draining' \in Seq(Entries)
         /\ \A x : InSeq(x, draining') => InSeq(x, draining)
         /\ \A x : InSeq(x, draining) /\ reply'[x] = Unset => InSeq(x, draining')
         /\ Becomes(w, IF worker[w].todo = <<>> THEN "loop" ELSE "adopt", None, Unset,
                    "nowhere", worker[w].todo)
<1>1. worker[w] \in Tasks /\ reply \in [Entries -> RunResults \cup {Unset}]
      /\ draining \in Seq(Entries)
  BY DEF TypeInv, TypeOK
<1>2. /\ worker[w].pc = "settle" /\ e \in Entries /\ worker[w].res \in RunResults
      /\ worker[w].kept \in {"running", "draining"}
  BY <1>1, TaskTypes DEF SettleEntry, ShapeInv, WorkerShape
<1>3. PICK r \in Settled(worker[w]) : reply' = [reply EXCEPT ![e] = r]
  BY DEF SettleEntry
<1>4. r \in RunResults /\ r \in {worker[w].res, "Indeterminate"}
  BY <1>2, <1>3 DEF Settled, RunResults
<1>5. /\ reply' \in [Entries -> RunResults \cup {Unset}]
      /\ reply'[e] \in {worker[w].res, "Indeterminate"} /\ reply'[e] # Unset
      /\ \A x \in Entries : x # e => reply'[x] = reply[x]
  BY <1>1, <1>2, <1>3, <1>4 DEF RunResults, Unset
<1>6. \/ worker[w].kept = "running" /\ running' = None /\ draining' = draining
      \/ /\ worker[w].kept = "draining" /\ running' = running
         /\ draining' = Popped(draining, reply')
  BY <1>2 DEF SettleEntry
<1>7. /\ draining' \in Seq(Entries)
      /\ \A x : InSeq(x, draining') => InSeq(x, draining)
      /\ \A x : InSeq(x, draining) /\ reply'[x] = Unset => InSeq(x, draining')
  BY <1>1, <1>6, InPopped
<1>8. Becomes(w, IF worker[w].todo = <<>> THEN "loop" ELSE "adopt", None, Unset,
              "nowhere", worker[w].todo)
  BY StepFacts DEF SettleEntry
<1> QED
  BY <1>2, <1>5, <1>6, <1>7, <1>8 DEF SettleEntry

(* ensure_worker spawns a worker, or finds one. *)
LEMMA SpawnDoes ==
  ASSUME TypeInv, EnsureWorker
  PROVE  \/ UNCHANGED <<worker, handle, late>>
         \/ \E w \in Workers :
               /\ handle = None \/ Finished(handle)
               /\ Finished(w) /\ join.entry # w
               /\ Becomes(w, "spawned", None, Unset, "nowhere", <<>>)
               /\ handle' = w /\ late' = (late \/ flag)
<1>1. CASE MustSpawn
  <2>1. PICK w \in Workers :
            /\ Finished(w)
            /\ join.entry # w
            /\ worker' = [worker EXCEPT ![w] = At("spawned")]
            /\ handle' = w
            /\ late' = (late \/ flag)
    BY <1>1 DEF EnsureWorker
  <2>2. Becomes(w, "spawned", None, Unset, "nowhere", <<>>)
    BY <2>1, StepFacts DEF At
  <2> QED
    BY <1>1, <2>1, <2>2 DEF MustSpawn
<1>2. CASE ~MustSpawn
  BY <1>2 DEF EnsureWorker
<1> QED
  BY <1>1, <1>2

(* The forced abort: join takes everything over. *)
LEMMA AbandonDoes ==
  ASSUME TypeInv, ShapeInv, JoinAbandons, NEW w, w = join.entry
  PROVE  /\ join.pc = "waiting" /\ w \in Workers
         /\ worker[w].pc \in {"spawned", "parked", "exec", "settle", "dead"}
         /\ worker'[w].pc = IF worker[w].pc = "dead" THEN "dead" ELSE "aborted"
         /\ worker'[w].entry = None /\ worker'[w].todo = <<>>
         /\ \A v \in Workers \ {w} : worker'[v] = worker[v]
         /\ closed' = TRUE /\ running' = None /\ draining' = <<>>
         /\ waiting' = [p \in Prios |-> <<>>] /\ Queued' = {}
         /\ join'.pc = "next" /\ join'.entry = running /\ join'.todo \in Seq(Entries)
         /\ \A x : InSeq(x, join'.todo) <=> InSeq(x, draining) \/ x \in Queued
         /\ UNCHANGED <<call, flag, handle, started, reply, late, panics>>
<1>1. worker \in [Workers -> Tasks]
  BY DEF TypeInv, TypeOK
<1>2. /\ join.pc = "waiting" /\ w \in Workers
      /\ worker[w].pc \in {"spawned", "parked", "exec", "settle", "dead"}
  BY DEF JoinAbandons, ShapeInv, JoinShape
<1>3. /\ worker'[w] = IF worker[w].pc = "dead" THEN worker[w] ELSE At("aborted")
      /\ \A v \in Workers \ {w} : worker'[v] = worker[v]
  BY <1>1, <1>2 DEF JoinAbandons
<1>4. /\ worker'[w].pc = IF worker[w].pc = "dead" THEN "dead" ELSE "aborted"
      /\ worker'[w].entry = None /\ worker'[w].todo = <<>>
  BY <1>2, <1>3, TaskFields DEF At, ShapeInv, WorkerShape
<1> DEFINE all == waiting[0] \o waiting[1] \o waiting[2] \o waiting[3] \o draining
<1>a. join' = Task("next", running, Unset, "nowhere", all)
  BY DEF JoinAbandons
<1>b. all \in Seq(Entries) /\ \A x : InSeq(x, all) <=> InSeq(x, draining) \/ x \in Queued
  BY DrainedFacts
<1> HIDE DEF all
<1>5. join'.pc = "next" /\ join'.entry = running /\ join'.todo = all
  BY <1>a, TaskFields
<1>6. waiting' = [p \in Prios |-> <<>>] /\ Queued' = {}
  BY EmptiedDoes DEF JoinAbandons
<1> QED
  BY <1>2, <1>3, <1>4, <1>5, <1>6, <1>b DEF JoinAbandons

(* What join does with the next entry in its hands. *)
LEMMA JoinNextDoes ==
  ASSUME TypeInv, ShapeInv, JoinNext, NEW t, t = join.todo
  PROVE  /\ join.pc = "next" /\ t \in Seq(Entries)
         /\ UNCHANGED <<call, waiting, running, draining, closed, flag, worker, handle, started,
                        reply, late, panics>>
         /\ \/ /\ join.entry \in Entries /\ IsSet(join.entry)
               /\ join'.pc = "next" /\ join'.entry = None /\ join'.todo = t
            \/ /\ join.entry \in Entries /\ ~IsSet(join.entry)
               /\ join'.pc = "settle" /\ join'.entry = join.entry /\ join'.todo = t
               /\ join'.res = "Indeterminate"
            \/ /\ join.entry = None /\ t = <<>>
               /\ join'.pc = "returned" /\ join'.entry = None /\ join'.todo = <<>>
            \/ /\ join.entry = None /\ t # <<>> /\ IsSet(Head(t))
               /\ join'.pc = "next" /\ join'.entry = None /\ join'.todo = Tail(t)
            \/ /\ join.entry = None /\ t # <<>> /\ ~IsSet(Head(t)) /\ Head(t) \in Entries
               /\ join'.pc = "settle" /\ join'.entry = Head(t) /\ join'.todo = Tail(t)
               /\ join'.res = "Cancelled"
<1>1. join \in Tasks /\ join.pc = "next" /\ join.entry \in Entries \cup {None}
  BY DEF TypeInv, TypeOK, JoinNext, ShapeInv, JoinShape
<1>2. t \in Seq(Entries) /\ (t # <<>> => Head(t) \in Entries)
  BY <1>1, TaskTypes, InTail
<1>3. /\ [join EXCEPT !.entry = None] = Task(join.pc, None, join.res, join.kept, join.todo)
      /\ [join EXCEPT !.todo = Tail(t)] = Task(join.pc, join.entry, join.res, join.kept, Tail(t))
      /\ [join EXCEPT !.pc = "settle", !.res = "Indeterminate"]
           = Task("settle", join.entry, "Indeterminate", join.kept, join.todo)
  BY <1>1, TaskEdits
<1> QED
  BY <1>1, <1>2, <1>3, TaskFields, QueueAssumption DEF JoinNext, At, lockVars

(* join writes a reply. *)
LEMMA JoinSettleDoes ==
  ASSUME TypeInv, ShapeInv, JoinSettle, NEW e, e = join.entry
  PROVE  /\ join.pc = "settle" /\ e \in Entries
         /\ reply' \in [Entries -> RunResults \cup {Unset}]
         /\ reply'[e] \in {join.res, "Indeterminate"} /\ reply'[e] # Unset
         /\ \A x \in Entries : x # e => reply'[x] = reply[x]
         /\ join'.pc = "next" /\ join'.entry = None /\ join'.todo = join.todo
         /\ UNCHANGED <<call, waiting, running, draining, closed, flag, worker, handle, started,
                        late, panics>>
<1>1. join \in Tasks /\ reply \in [Entries -> RunResults \cup {Unset}]
  BY DEF TypeInv, TypeOK
<1>2. join.pc = "settle" /\ e \in Entries /\ join.res \in RunResults
  BY <1>1, TaskTypes DEF JoinSettle, ShapeInv, JoinShape
<1>3. PICK r \in Settled(join) : reply' = [reply EXCEPT ![e] = r]
  BY DEF JoinSettle
<1>4. r \in RunResults /\ r \in {join.res, "Indeterminate"}
  BY <1>2, <1>3 DEF Settled, RunResults
<1>5. /\ reply' \in [Entries -> RunResults \cup {Unset}]
      /\ reply'[e] \in {join.res, "Indeterminate"} /\ reply'[e] # Unset
      /\ \A x \in Entries : x # e => reply'[x] = reply[x]
  BY <1>1, <1>2, <1>3, <1>4 DEF RunResults, Unset
<1>6. join'.pc = "next" /\ join'.entry = None /\ join'.todo = join.todo
  BY TaskFields DEF JoinSettle
<1> QED
  BY <1>2, <1>5, <1>6 DEF JoinSettle, lockVars

-----------------------------------------------------------------------------
(* Who owns which worker *)

(* Every step keeps the shapes of the tasks. *)
LEMMA ShapeStep ==
  ASSUME IInv, [Next]_vars
  PROVE  ShapeInv'
<1> USE QueueAssumption DEF At, Tracked, Finished, Unset, RunResults
<1>0. TypeInv /\ ShapeInv /\ OwnerInv /\ TouchInv /\ worker \in [Workers -> Tasks]
      /\ join \in Tasks /\ handle \in Workers \cup {None} /\ None \notin Workers
  BY DEF IInv, TypeInv, TypeOK
<1>1. CASE UNCHANGED <<closed, flag, worker, join>>
  BY <1>0, <1>1 DEF ShapeInv, WorkerShape, JoinShape
<1>2. ASSUME NEW e \in Entries, Enqueue(e) \/ Cancel(e) \/ Expire(e) \/ Age(e) \/ Renew(e)
      PROVE  UNCHANGED <<closed, flag, worker, join>>
  BY <1>2 DEF Enqueue, Cancel, Expire, Age, Renew, lockVars
<1>3. ASSUME NEW w \in Workers, StartExecutor(w)
      PROVE  UNCHANGED <<closed, flag, worker, join>>
  BY <1>3 DEF StartExecutor, lockVars
<1>4. ASSUME CooldownEnds \/ SupervisorSees
      PROVE  UNCHANGED <<closed, flag, worker, join>>
  BY <1>4 DEF CooldownEnds, SupervisorSees, lockVars
<1>5. ASSUME NEW e \in Entries, EnqueueNotify(e)
      PROVE  ShapeInv'
  BY <1>0, <1>5, SpawnDoes DEF EnqueueNotify, lockVars, ShapeInv, WorkerShape, JoinShape,
     Becomes
<1>6. ASSUME NEW w \in Workers, Adopt(w)
      PROVE  ShapeInv'
  BY <1>0, <1>6, AdoptDoes DEF ShapeInv, WorkerShape, JoinShape, Becomes
<1>7. ASSUME NEW w \in Workers, AdoptNext(w)
      PROVE  ShapeInv'
  BY <1>0, <1>7, AdoptNextDoes DEF ShapeInv, WorkerShape, JoinShape, Becomes
<1>8. ASSUME NEW w \in Workers, Drain(w)
      PROVE  ShapeInv'
  <2>1. worker[w].pc = "loop" /\ flag /\ UNCHANGED <<flag, join>>
    BY <1>0, <1>8, DrainDoes
  <2>2. \/ \E e \in Entries : Becomes(w, "settle", e, "Cancelled", "draining", <<>>)
        \/ \E p \in {"returned", "parked"} : Becomes(w, p, None, Unset, "nowhere", <<>>)
    BY <1>0, <1>8, DrainDoes
  <2> QED
    BY <1>0, <2>1, <2>2 DEF ShapeInv, WorkerShape, JoinShape, Becomes
<1>9. ASSUME NEW w \in Workers, Pick(w)
      PROVE  ShapeInv'
  BY <1>0, <1>9, PickDoes DEF ShapeInv, WorkerShape, JoinShape, Becomes
<1>10. ASSUME NEW w \in Workers, Park(w) \/ Wake(w)
      PROVE  ShapeInv'
  BY <1>0, <1>10, StepFacts DEF Park, Wake, lockVars, ShapeInv, WorkerShape, JoinShape,
     Becomes
<1>11. ASSUME NEW w \in Workers, ExecutorAnswers(w) \/ ExecutionTimesOut(w) \/
             ExecutionCancelled(w)
      PROVE  ShapeInv'
  BY <1>0, <1>11, RanDoes DEF ShapeInv, WorkerShape, JoinShape, Becomes
<1>12. ASSUME NEW w \in Workers, SettleEntry(w)
      PROVE  ShapeInv'
  BY <1>0, <1>12, SettleDoes DEF ShapeInv, WorkerShape, JoinShape, Becomes
<1>13. ASSUME NEW w \in Workers, Panic(w)
      PROVE  ShapeInv'
  BY <1>0, <1>13, StepFacts DEF Panic, lockVars, ShapeInv, WorkerShape, JoinShape, Becomes
<1>14. ASSUME SupervisorRestarts
      PROVE  ShapeInv'
  BY <1>0, <1>14, SpawnDoes DEF SupervisorRestarts, lockVars, ShapeInv, WorkerShape,
     JoinShape, Becomes
<1>15. ASSUME ShutdownEngine \/ ShutdownQueue
      PROVE  ShapeInv'
  BY <1>0, <1>15, TaskFields DEF ShutdownEngine, ShutdownQueue, lockVars, ShapeInv,
     WorkerShape, JoinShape
<1>16. ASSUME JoinTakes \/ JoinReturns
      PROVE  ShapeInv'
  BY <1>0, <1>16, TaskFields DEF JoinTakes, JoinReturns, lockVars, ShapeInv, WorkerShape,
     JoinShape, TypeInv, TypeOK
<1>17. ASSUME JoinAbandons
      PROVE  ShapeInv'
  <2>1. PICK w \in Workers :
           /\ join.pc = "waiting" /\ flag' = flag
           /\ worker'[w].pc \in {"dead", "aborted"}
           /\ worker'[w].entry = None /\ worker'[w].todo = <<>>
           /\ \A v \in Workers \ {w} : worker'[v] = worker[v]
           /\ join'.pc = "next" /\ join'.entry \in Entries \cup {None}
    BY <1>0, <1>17, AbandonDoes DEF TypeInv, TypeOK
  <2> QED
    BY <1>0, <2>1 DEF ShapeInv, WorkerShape, JoinShape
<1>18. ASSUME JoinNext
      PROVE  ShapeInv'
  BY <1>0, <1>18, JoinNextDoes DEF ShapeInv, WorkerShape, JoinShape
<1>19. ASSUME JoinSettle
      PROVE  ShapeInv'
  BY <1>0, <1>19, JoinSettleDoes DEF ShapeInv, WorkerShape, JoinShape
<1>20. CASE UNCHANGED vars
  BY <1>1, <1>20 DEF vars
<1> QED
  BY <1>1, <1>2, <1>3, <1>4, <1>5, <1>6, <1>7, <1>8, <1>9, <1>10, <1>11, <1>12, <1>13,
     <1>14, <1>15, <1>16, <1>17, <1>18, <1>19, <1>20 DEF Next, WorkerStep, JoinStep

(* Every step keeps the ownership of the workers. *)
LEMMA OwnerStep ==
  ASSUME IInv, [Next]_vars
  PROVE  OwnerInv'
<1> USE QueueAssumption DEF At, Tracked, Finished, Unset, RunResults
<1>0. TypeInv /\ ShapeInv /\ OwnerInv /\ TouchInv /\ worker \in [Workers -> Tasks]
      /\ join \in Tasks /\ handle \in Workers \cup {None} /\ None \notin Workers
  BY DEF IInv, TypeInv, TypeOK
<1>1. CASE UNCHANGED <<worker, handle, join, late>>
  BY <1>0, <1>1 DEF OwnerInv
<1>2. ASSUME NEW e \in Entries, Enqueue(e) \/ Cancel(e) \/ Expire(e) \/ Age(e) \/ Renew(e)
      PROVE  UNCHANGED <<worker, handle, join, late>>
  BY <1>2 DEF Enqueue, Cancel, Expire, Age, Renew
<1>3. ASSUME NEW w \in Workers, StartExecutor(w)
      PROVE  UNCHANGED <<worker, handle, join, late>>
  BY <1>3 DEF StartExecutor
<1>4. ASSUME CooldownEnds \/ SupervisorSees \/ ShutdownEngine
      PROVE  UNCHANGED <<worker, handle, join, late>>
  BY <1>4 DEF CooldownEnds, SupervisorSees, ShutdownEngine
<1>5. ASSUME NEW e \in Entries, EnqueueNotify(e)
      PROVE  OwnerInv'
  BY <1>0, <1>5, SpawnDoes DEF EnqueueNotify, OwnerInv, ShapeInv, JoinShape, Becomes
<1>6. ASSUME NEW w \in Workers, Adopt(w)
      PROVE  OwnerInv'
  BY <1>0, <1>6, AdoptDoes DEF OwnerInv, ShapeInv, WorkerShape, JoinShape, Becomes
<1>7. ASSUME NEW w \in Workers, AdoptNext(w)
      PROVE  OwnerInv'
  BY <1>0, <1>7, AdoptNextDoes DEF OwnerInv, ShapeInv, WorkerShape, JoinShape, Becomes
<1>8. ASSUME NEW w \in Workers, Drain(w)
      PROVE  OwnerInv'
  <2>1. worker[w].pc = "loop" /\ UNCHANGED <<handle, join, late>>
    BY <1>0, <1>8, DrainDoes
  <2>2. \/ \E e \in Entries : Becomes(w, "settle", e, "Cancelled", "draining", <<>>)
        \/ \E p \in {"returned", "parked"} : Becomes(w, p, None, Unset, "nowhere", <<>>)
    BY <1>0, <1>8, DrainDoes
  <2> QED
    BY <1>0, <2>1, <2>2 DEF OwnerInv, Becomes
<1>9. ASSUME NEW w \in Workers, Pick(w)
      PROVE  OwnerInv'
  BY <1>0, <1>9, PickDoes DEF OwnerInv, ShapeInv, WorkerShape, JoinShape, Becomes
<1>10. ASSUME NEW w \in Workers, Park(w) \/ Wake(w)
      PROVE  OwnerInv'
  BY <1>0, <1>10, StepFacts DEF Park, Wake, OwnerInv, Becomes
<1>11. ASSUME NEW w \in Workers, ExecutorAnswers(w) \/ ExecutionTimesOut(w) \/
             ExecutionCancelled(w)
      PROVE  OwnerInv'
  BY <1>0, <1>11, RanDoes DEF OwnerInv, ShapeInv, WorkerShape, JoinShape, Becomes
<1>12. ASSUME NEW w \in Workers, SettleEntry(w)
      PROVE  OwnerInv'
  BY <1>0, <1>12, SettleDoes DEF OwnerInv, ShapeInv, WorkerShape, JoinShape, Becomes
<1>13. ASSUME NEW w \in Workers, Panic(w)
      PROVE  OwnerInv'
  BY <1>0, <1>13, StepFacts DEF Panic, OwnerInv, Becomes
<1>14. ASSUME SupervisorRestarts
      PROVE  OwnerInv'
  BY <1>0, <1>14, SpawnDoes DEF SupervisorRestarts, OwnerInv, ShapeInv, JoinShape, Becomes
<1>15. ASSUME ShutdownQueue
      PROVE  OwnerInv'
  BY <1>0, <1>15, TaskFields DEF ShutdownQueue, OwnerInv
<1>16. ASSUME JoinTakes \/ JoinReturns
      PROVE  OwnerInv'
  BY <1>0, <1>16, TaskFields DEF JoinTakes, JoinReturns, OwnerInv
<1>17. ASSUME JoinAbandons
      PROVE  OwnerInv'
  <2>1. PICK w \in Workers :
           /\ join.pc = "waiting" /\ UNCHANGED <<handle, late>>
           /\ w = join.entry /\ worker'[w].pc \in {"dead", "aborted"}
           /\ \A v \in Workers \ {w} : worker'[v] = worker[v]
           /\ join'.pc = "next"
    BY <1>0, <1>17, AbandonDoes
  <2> QED
    BY <1>0, <2>1 DEF OwnerInv
<1>18. ASSUME JoinNext
      PROVE  OwnerInv'
  BY <1>0, <1>18, JoinNextDoes DEF OwnerInv
<1>19. ASSUME JoinSettle
      PROVE  OwnerInv'
  BY <1>0, <1>19, JoinSettleDoes DEF OwnerInv
<1>20. CASE UNCHANGED vars
  BY <1>1, <1>20 DEF vars
<1> QED
  BY <1>1, <1>2, <1>3, <1>4, <1>5, <1>6, <1>7, <1>8, <1>9, <1>10, <1>11, <1>12, <1>13,
     <1>14, <1>15, <1>16, <1>17, <1>18, <1>19, <1>20 DEF Next, WorkerStep, JoinStep

(* Two workers that have not ended are one, unless one was spawned late. *)
LEMMA OneWorker ==
  ASSUME IInv, ~late, NEW v \in Workers, NEW w \in Workers, ~Finished(v), ~Finished(w)
  PROVE  v = w
<1>1. handle \in Workers \cup {None} /\ None \notin Workers
  BY QueueAssumption DEF IInv, TypeInv, TypeOK
<1> QED
  BY <1>1 DEF IInv, OwnerInv

(* Never two workers execute. *)
LEMMA OwnersAreSerial ==
  ASSUME IInv
  PROVE  Serial
<1>1. None \notin Workers
  BY QueueAssumption
<1> QED
  BY <1>1 DEF IInv, OwnerInv, Serial, Finished

-----------------------------------------------------------------------------
(* What waits has not been touched *)

(* Every step keeps what waits untouched. *)
LEMMA TouchStep ==
  ASSUME IInv, [Next]_vars
  PROVE  TouchInv'
<1> USE QueueAssumption DEF At, Tracked, Finished, Unset, RunResults
<1>0. TypeInv /\ ShapeInv /\ OwnerInv /\ TouchInv /\ worker \in [Workers -> Tasks]
      /\ join \in Tasks /\ handle \in Workers \cup {None} /\ None \notin Workers
  BY DEF IInv, TypeInv, TypeOK
<1>a. WaitOK /\ (UNCHANGED waiting => Queued' = Queued /\ WaitOK')
  BY <1>0 DEF WaitOK, Queued, TypeInv, TypeOK, TouchInv
<1>b. /\ \A x \in Entries : x \in Queued => call[x] # "idle"
      /\ \A x \in Entries : x \in Queued \/ call[x] = "idle" => Untouched(x)
  BY <1>0 DEF TouchInv
<1>c. ASSUME WaitOK', \A x \in Entries : x \in Queued' => call'[x] # "idle",
             \A x \in Entries : x \in Queued' \/ call'[x] = "idle" => Untouched(x)'
      PROVE  TouchInv'
  BY <1>c DEF TouchInv, WaitOK
<1>d. /\ draining \in Seq(Entries) /\ call \in [Entries -> {"idle", "pushed", "in"}]
      /\ reply \in [Entries -> RunResults \cup {Unset}]
  BY <1>0 DEF TypeInv, TypeOK
<1>1. CASE UNCHANGED <<call, waiting, running, draining, worker, join, started, reply>>
  BY <1>0, <1>1 DEF TouchInv, Untouched, IsSet, Queued
<1>2. ASSUME NEW e \in Entries, Cancel(e) \/ Expire(e) \/ Age(e)
      PROVE  UNCHANGED <<call, waiting, running, draining, worker, join, started, reply>>
  BY <1>2 DEF Cancel, Expire, Age, lockVars
<1>3. ASSUME CooldownEnds \/ SupervisorSees \/ ShutdownEngine
      PROVE  UNCHANGED <<call, waiting, running, draining, worker, join, started, reply>>
  BY <1>3 DEF CooldownEnds, SupervisorSees, ShutdownEngine, lockVars
<1>4. ASSUME NEW e \in Entries, Enqueue(e)
      PROVE  TouchInv'
  <2>0. /\ UNCHANGED <<running, draining, worker, join, started, reply>>
        /\ call' = [call EXCEPT ![e] = "pushed"] /\ call[e] = "idle"
        /\ Queued' = Queued \cup {e} /\ WaitOK' 
    BY <1>0, <1>a, <1>4, EnqueueDoes DEF Enqueue
  <2>1. ASSUME NEW x \in Entries, x \in Queued' \/ call'[x] = "idle"
        PROVE  Untouched(x)
    BY <1>0, <1>a, <1>b, <1>d, <2>0, <2>1
  <2>2. ASSUME NEW x \in Entries, x \in Queued' \/ call'[x] = "idle"
        PROVE  Untouched(x)'
    <3>1. Untouched(x)
      BY <2>1, <2>2
    <3> QED
      BY <1>0, <1>d, <2>0, <3>1 DEF Untouched, IsSet
  <2> QED
    BY <1>a, <1>b, <1>c, <1>d, <2>0, <2>2
<1>5. ASSUME NEW e \in Entries, EnqueueNotify(e)
      PROVE  TouchInv'
  <2>0. /\ UNCHANGED <<waiting, running, draining, join, started, reply>>
        /\ call' = [call EXCEPT ![e] = "in"]
        /\ \/ UNCHANGED worker
           \/ \E w \in Workers : Becomes(w, "spawned", None, Unset, "nowhere", <<>>)
    BY <1>0, <1>a, <1>5, SpawnDoes DEF EnqueueNotify, lockVars
  <2>1. ASSUME NEW x \in Entries, x \in Queued' \/ call'[x] = "idle"
        PROVE  Untouched(x)
    BY <1>0, <1>a, <1>b, <1>d, <2>0, <2>1
  <2>2. ASSUME NEW x \in Entries, x \in Queued' \/ call'[x] = "idle"
        PROVE  Untouched(x)'
    <3>1. Untouched(x)
      BY <2>1, <2>2
    <3> QED
      BY <1>0, <1>d, <2>0, <3>1, InEmpty DEF Untouched, IsSet, Becomes
  <2> QED
    BY <1>a, <1>b, <1>c, <1>d, <2>0, <2>2
<1>6. ASSUME NEW e \in Entries, Renew(e)
      PROVE  TouchInv'
  <2>0. /\ UNCHANGED <<waiting, running, draining, worker, join>>
        /\ call' = [call EXCEPT ![e] = "idle"] /\ reply' = [reply EXCEPT ![e] = Unset]
        /\ started' = started \ {e} /\ IsSet(e) /\ join.pc = "none"
        /\ running # e /\ ~InSeq(e, draining)
        /\ \A w \in Workers : worker[w].entry # e /\ ~InSeq(e, worker[w].todo)
    BY <1>0, <1>a, <1>6 DEF Renew, lockVars, ShapeInv, JoinShape
  <2>1. ASSUME NEW x \in Entries, x \in Queued' \/ call'[x] = "idle"
        PROVE  x = e \/ Untouched(x)
    BY <1>0, <1>a, <1>b, <1>d, <2>0, <2>1
  <2>2. ASSUME NEW x \in Entries, x \in Queued' \/ call'[x] = "idle"
        PROVE  Untouched(x)'
    <3>1. x = e \/ Untouched(x)
      BY <2>1, <2>2
    <3> QED
      BY <1>0, <1>d, <2>0, <3>1 DEF Untouched, IsSet
  <2> QED
    BY <1>a, <1>b, <1>c, <1>d, <2>0, <2>2 DEF Untouched
<1>7. ASSUME NEW w \in Workers, Adopt(w)
      PROVE  TouchInv'
  <2>0. /\ UNCHANGED <<call, waiting, join, started, reply>> /\ running' = None
        /\ \/ /\ running \in Entries /\ draining' = <<running>>
              /\ Becomes(w, "settle", running, "Indeterminate", "draining", draining)
           \/ draining' = <<>> /\ Becomes(w, "adopt", None, Unset, "nowhere", draining)
    BY <1>0, <1>a, <1>7, AdoptDoes
  <2>1. ASSUME NEW x \in Entries, x \in Queued' \/ call'[x] = "idle"
        PROVE  Untouched(x)
    BY <1>0, <1>a, <1>b, <1>d, <2>0, <2>1
  <2>2. ASSUME NEW x \in Entries, x \in Queued' \/ call'[x] = "idle"
        PROVE  Untouched(x)'
    <3>1. Untouched(x)
      BY <2>1, <2>2
    <3> QED
      BY <1>0, <1>d, <2>0, <3>1, InEmpty, InSingle DEF Untouched, IsSet, Becomes
  <2> QED
    BY <1>a, <1>b, <1>c, <1>d, <2>0, <2>2
<1>8. ASSUME NEW w \in Workers, AdoptNext(w)
      PROVE  TouchInv'
  <2>0. /\ UNCHANGED <<call, waiting, running, join, started, reply>> /\ worker[w].todo \in Seq(Entries)
        /\ worker[w].entry = None
        /\ \/ draining' = draining /\ Becomes(w, "loop", None, Unset, "nowhere", <<>>)
           \/ /\ worker[w].todo # <<>> /\ draining' = draining
              /\ Becomes(w, "adopt", worker[w].entry, worker[w].res, worker[w].kept,
                         Tail(worker[w].todo))
           \/ /\ worker[w].todo # <<>> /\ draining' = Append(draining, Head(worker[w].todo))
              /\ Becomes(w, "settle", Head(worker[w].todo), "Cancelled", "draining",
                         Tail(worker[w].todo))
    BY <1>0, <1>a, <1>8, AdoptNextDoes DEF ShapeInv, WorkerShape
  <2>1. ASSUME NEW x \in Entries, x \in Queued' \/ call'[x] = "idle"
        PROVE  Untouched(x)
    BY <1>0, <1>a, <1>b, <1>d, <2>0, <2>1
  <2>2. ASSUME NEW x \in Entries, x \in Queued' \/ call'[x] = "idle"
        PROVE  Untouched(x)'
    <3>1. Untouched(x)
      BY <2>1, <2>2
    <3>2. /\ worker[w].todo # <<>> => Head(worker[w].todo) \in Entries /\ Head(worker[w].todo) # x
          /\ worker[w].todo # <<>> => ~InSeq(x, Tail(worker[w].todo))
      BY <2>0, <3>1, InTail DEF Untouched
    <3>a. /\ ~InSeq(x, draining) /\ ~InSeq(x, <<>>)
          /\ worker[w].todo # <<>> => ~InSeq(x, Append(draining, Head(worker[w].todo)))
      BY <1>d, <3>1, <3>2, InAppend, InEmpty DEF Untouched
    <3>b. ~InSeq(x, draining')
      BY <2>0, <3>a
    <3>3. /\ worker'[w].entry # x /\ ~InSeq(x, worker'[w].todo)
          /\ \A v \in Workers \ {w} : worker'[v] = worker[v]
      BY <1>0, <2>0, <3>2, <3>a DEF Becomes
    <3> QED
      BY <2>0, <3>1, <3>3, <3>b DEF Untouched, IsSet
  <2> QED
    BY <1>a, <1>b, <1>c, <1>d, <2>0, <2>2
<1>9. ASSUME NEW w \in Workers, Drain(w)
      PROVE  TouchInv'
  <2>0. /\ UNCHANGED <<call, running, join, started, reply>> /\ Queued' = {} /\ WaitOK'
        /\ \A y : InSeq(y, draining') <=> InSeq(y, draining) \/ y \in Queued
        /\ \/ \E e \in Entries :
                 /\ InSeq(e, draining')
                 /\ Becomes(w, "settle", e, "Cancelled", "draining", <<>>)
           \/ \E p \in {"returned", "parked"} : Becomes(w, p, None, Unset, "nowhere", <<>>)
    BY <1>0, <1>a, <1>9, DrainDoes, EmptiedDoes
  <2>1. ASSUME NEW x \in Entries, x \in Queued' \/ call'[x] = "idle"
        PROVE  Untouched(x) /\ x \notin Queued
    BY <1>0, <1>a, <1>b, <1>d, <2>0, <2>1
  <2>2. ASSUME NEW x \in Entries, x \in Queued' \/ call'[x] = "idle"
        PROVE  Untouched(x)'
    <3>1. Untouched(x) /\ x \notin Queued
      BY <2>1, <2>2
    <3> QED
      BY <1>0, <1>d, <2>0, <3>1, InEmpty DEF Untouched, IsSet, Becomes
  <2> QED
    BY <1>a, <1>b, <1>c, <1>d, <2>0, <2>2
<1>10. ASSUME NEW w \in Workers, Pick(w)
      PROVE  TouchInv'
  <2>0. UNCHANGED <<call, join, started, reply>> /\ WaitOK'
    BY <1>0, <1>10, PickDoes
  <2>a. PICK e \in Entries :
           /\ e \in Queued /\ Queued' = Queued \ {e}
           /\ \/ /\ running' = e /\ draining' = draining
                 /\ Becomes(w, "exec", e, Unset, "running", <<>>)
              \/ /\ running' = running /\ draining' = Append(draining, e)
                 /\ \E r \in {"Cancelled", "Timeout"} :
                       Becomes(w, "settle", e, r, "draining", <<>>)
    BY <1>0, <1>10, PickDoes
  <2>1. ASSUME NEW x \in Entries, x \in Queued' \/ call'[x] = "idle"
        PROVE  Untouched(x) /\ x # e
    BY <1>b, <2>0, <2>a, <2>1
  <2>2. ASSUME NEW x \in Entries, x \in Queued' \/ call'[x] = "idle"
        PROVE  Untouched(x)'
    <3>1. Untouched(x) /\ x # e
      BY <2>1, <2>2
    <3>a. ~InSeq(x, draining) /\ ~InSeq(x, Append(draining, e))
      BY <1>d, <3>1, InAppend DEF Untouched
    <3>2. running' # x /\ ~InSeq(x, draining')
      BY <2>a, <3>1, <3>a DEF Untouched
    <3>3. /\ worker'[w].entry # x /\ ~InSeq(x, worker'[w].todo)
          /\ \A v \in Workers \ {w} : worker'[v] = worker[v]
      BY <2>a, <3>1, InEmpty DEF Becomes
    <3> QED
      BY <2>0, <3>1, <3>2, <3>3 DEF Untouched, IsSet
  <2> QED
    BY <1>b, <1>c, <2>0, <2>2, <2>a
<1>11. ASSUME NEW w \in Workers, Park(w) \/ Wake(w) \/ Panic(w)
      PROVE  TouchInv'
  <2>0. /\ UNCHANGED <<call, waiting, running, draining, join, started, reply>>
        /\ \E p \in {"parked", "loop", "dead"} : Becomes(w, p, None, Unset, "nowhere", <<>>)
    BY <1>0, <1>a, <1>11, StepFacts DEF Park, Wake, Panic, lockVars
  <2>1. ASSUME NEW x \in Entries, x \in Queued' \/ call'[x] = "idle"
        PROVE  Untouched(x)
    BY <1>0, <1>a, <1>b, <1>d, <2>0, <2>1
  <2>2. ASSUME NEW x \in Entries, x \in Queued' \/ call'[x] = "idle"
        PROVE  Untouched(x)'
    <3>1. Untouched(x)
      BY <2>1, <2>2
    <3> QED
      BY <1>0, <1>d, <2>0, <3>1, InEmpty DEF Untouched, IsSet, Becomes
  <2> QED
    BY <1>a, <1>b, <1>c, <1>d, <2>0, <2>2
<1>12. ASSUME NEW w \in Workers, StartExecutor(w)
      PROVE  TouchInv'
  <2>0. /\ UNCHANGED <<call, waiting, running, draining, worker, join, reply>>
        /\ started' = started \cup {worker[w].entry}
    BY <1>0, <1>a, <1>12 DEF StartExecutor, lockVars
  <2>1. ASSUME NEW x \in Entries, x \in Queued' \/ call'[x] = "idle"
        PROVE  Untouched(x)
    BY <1>0, <1>a, <1>b, <1>d, <2>0, <2>1
  <2>2. ASSUME NEW x \in Entries, x \in Queued' \/ call'[x] = "idle"
        PROVE  Untouched(x)'
    <3>1. Untouched(x)
      BY <2>1, <2>2
    <3> QED
      BY <1>0, <1>d, <2>0, <3>1 DEF Untouched, IsSet
  <2> QED
    BY <1>a, <1>b, <1>c, <1>d, <2>0, <2>2
<1>13. ASSUME NEW w \in Workers, ExecutorAnswers(w) \/ ExecutionTimesOut(w) \/
             ExecutionCancelled(w)
      PROVE  TouchInv'
  <2>0. /\ UNCHANGED <<call, waiting, running, draining, join, started, reply>>
        /\ \E r \in RunResults :
              Becomes(w, "settle", worker[w].entry, r, worker[w].kept, worker[w].todo)
    BY <1>0, <1>a, <1>13, RanDoes
  <2>1. ASSUME NEW x \in Entries, x \in Queued' \/ call'[x] = "idle"
        PROVE  Untouched(x)
    BY <1>0, <1>a, <1>b, <1>d, <2>0, <2>1
  <2>2. ASSUME NEW x \in Entries, x \in Queued' \/ call'[x] = "idle"
        PROVE  Untouched(x)'
    <3>1. Untouched(x)
      BY <2>1, <2>2
    <3> QED
      BY <1>0, <1>d, <2>0, <3>1 DEF Untouched, IsSet, Becomes
  <2> QED
    BY <1>a, <1>b, <1>c, <1>d, <2>0, <2>2
<1>14. ASSUME NEW w \in Workers, SettleEntry(w)
      PROVE  TouchInv'
  <2>0. /\ UNCHANGED <<call, waiting, join, started>> /\ running' \in {running, None}
        /\ \A y \in Entries : y # worker[w].entry => reply'[y] = reply[y]
        /\ \A y : InSeq(y, draining') => InSeq(y, draining)
        /\ Becomes(w, IF worker[w].todo = <<>> THEN "loop" ELSE "adopt", None, Unset,
                   "nowhere", worker[w].todo)
    BY <1>0, <1>a, <1>14, SettleDoes
  <2>1. ASSUME NEW x \in Entries, x \in Queued' \/ call'[x] = "idle"
        PROVE  Untouched(x)
    BY <1>0, <1>a, <1>b, <1>d, <2>0, <2>1
  <2>2. ASSUME NEW x \in Entries, x \in Queued' \/ call'[x] = "idle"
        PROVE  Untouched(x)'
    <3>1. Untouched(x)
      BY <2>1, <2>2
    <3> QED
      BY <1>0, <1>d, <2>0, <3>1 DEF Untouched, IsSet, Becomes
  <2> QED
    BY <1>a, <1>b, <1>c, <1>d, <2>0, <2>2
<1>15. ASSUME SupervisorRestarts
      PROVE  TouchInv'
  <2>0. /\ UNCHANGED <<call, waiting, running, draining, join, started, reply>>
        /\ \/ UNCHANGED worker
           \/ \E w \in Workers : Becomes(w, "spawned", None, Unset, "nowhere", <<>>)
    BY <1>0, <1>a, <1>15, SpawnDoes DEF SupervisorRestarts, lockVars
  <2>1. ASSUME NEW x \in Entries, x \in Queued' \/ call'[x] = "idle"
        PROVE  Untouched(x)
    BY <1>0, <1>a, <1>b, <1>d, <2>0, <2>1
  <2>2. ASSUME NEW x \in Entries, x \in Queued' \/ call'[x] = "idle"
        PROVE  Untouched(x)'
    <3>1. Untouched(x)
      BY <2>1, <2>2
    <3> QED
      BY <1>0, <1>d, <2>0, <3>1, InEmpty DEF Untouched, IsSet, Becomes
  <2> QED
    BY <1>a, <1>b, <1>c, <1>d, <2>0, <2>2
<1>16. ASSUME ShutdownQueue \/ JoinTakes \/ JoinReturns
      PROVE  TouchInv'
  <2>0. /\ UNCHANGED <<call, waiting, running, draining, worker, started, reply>>
        /\ join'.pc \notin {"next", "settle"}
    BY <1>0, <1>a, <1>16, TaskFields DEF ShutdownQueue, JoinTakes, JoinReturns, lockVars
  <2>1. ASSUME NEW x \in Entries, x \in Queued' \/ call'[x] = "idle"
        PROVE  Untouched(x)
    BY <1>0, <1>a, <1>b, <1>d, <2>0, <2>1
  <2>2. ASSUME NEW x \in Entries, x \in Queued' \/ call'[x] = "idle"
        PROVE  Untouched(x)'
    <3>1. Untouched(x)
      BY <2>1, <2>2
    <3> QED
      BY <1>0, <1>d, <2>0, <3>1 DEF Untouched, IsSet
  <2> QED
    BY <1>a, <1>b, <1>c, <1>d, <2>0, <2>2
<1>17. ASSUME JoinAbandons
      PROVE  TouchInv'
  <2>0. /\ UNCHANGED <<call, started, reply>> /\ Queued' = {} /\ WaitOK'
        /\ join.entry \in Workers /\ running' = None /\ draining' = <<>>
        /\ worker'[join.entry].entry = None /\ worker'[join.entry].todo = <<>>
        /\ \A v \in Workers \ {join.entry} : worker'[v] = worker[v]
        /\ join'.entry = running
        /\ \A y : InSeq(y, join'.todo) <=> InSeq(y, draining) \/ y \in Queued
    BY <1>0, <1>a, <1>17, AbandonDoes, EmptiedDoes
  <2>1. ASSUME NEW x \in Entries, x \in Queued' \/ call'[x] = "idle"
        PROVE  Untouched(x) /\ x \notin Queued
    BY <1>0, <1>a, <1>b, <1>d, <2>0, <2>1
  <2>2. ASSUME NEW x \in Entries, x \in Queued' \/ call'[x] = "idle"
        PROVE  Untouched(x)'
    <3>1. Untouched(x) /\ x \notin Queued
      BY <2>1, <2>2
    <3> QED
      BY <1>0, <1>d, <2>0, <3>1, InEmpty DEF Untouched, IsSet
  <2> QED
    BY <1>a, <1>b, <1>c, <1>d, <2>0, <2>2
<1>18. ASSUME JoinNext
      PROVE  TouchInv'
  <2>0. /\ UNCHANGED <<call, waiting, running, draining, worker, started, reply>>
        /\ join.pc = "next" /\ join.todo \in Seq(Entries)
        /\ join'.entry \in {None, join.entry} \/ (join.todo # <<>> /\ join'.entry = Head(join.todo))
        /\ join'.todo \in {join.todo, <<>>} \/ (join.todo # <<>> /\ join'.todo = Tail(join.todo))
    BY <1>0, <1>a, <1>18, JoinNextDoes
  <2>1. ASSUME NEW x \in Entries, x \in Queued' \/ call'[x] = "idle"
        PROVE  Untouched(x)
    BY <1>0, <1>a, <1>b, <1>d, <2>0, <2>1
  <2>2. ASSUME NEW x \in Entries, x \in Queued' \/ call'[x] = "idle"
        PROVE  Untouched(x)'
    <3>1. Untouched(x)
      BY <2>1, <2>2
    <3> QED
      BY <1>0, <1>d, <2>0, <3>1, InTail, InEmpty DEF Untouched, IsSet
  <2> QED
    BY <1>a, <1>b, <1>c, <1>d, <2>0, <2>2
<1>19. ASSUME JoinSettle
      PROVE  TouchInv'
  <2>0. /\ UNCHANGED <<call, waiting, running, draining, worker, started>>
        /\ join.pc = "settle" /\ \A y \in Entries : y # join.entry => reply'[y] = reply[y]
        /\ join'.entry = None /\ join'.todo = join.todo
    BY <1>0, <1>a, <1>19, JoinSettleDoes
  <2>1. ASSUME NEW x \in Entries, x \in Queued' \/ call'[x] = "idle"
        PROVE  Untouched(x)
    BY <1>0, <1>a, <1>b, <1>d, <2>0, <2>1
  <2>2. ASSUME NEW x \in Entries, x \in Queued' \/ call'[x] = "idle"
        PROVE  Untouched(x)'
    <3>1. Untouched(x)
      BY <2>1, <2>2
    <3> QED
      BY <1>0, <1>d, <2>0, <3>1 DEF Untouched, IsSet
  <2> QED
    BY <1>a, <1>b, <1>c, <1>d, <2>0, <2>2
<1>20. CASE UNCHANGED vars
  BY <1>1, <1>20 DEF vars
<1> QED
  BY <1>1, <1>2, <1>3, <1>4, <1>5, <1>6, <1>7, <1>8, <1>9, <1>10, <1>11, <1>12, <1>13,
     <1>14, <1>15, <1>16, <1>17, <1>18, <1>19, <1>20 DEF Next, WorkerStep, JoinStep

-----------------------------------------------------------------------------
(* What a worker finds *)

(* Sequences of at most one entry. *)
LEMMA ShortSeq ==
  /\ Len(<<>>) = 0
  /\ \A q \in Seq(Entries) : Len(q) <= 1 /\ q # <<>> => Tail(q) = <<>>
  /\ \A e \in Entries : Append(<<>>, e) = <<e>> /\ Len(<<e>>) = 1
OBVIOUS

(* Other workers have ended when one has not, unless one was spawned late. *)
LEMMA OthersEnded ==
  ASSUME IInv, ~late
  PROVE  /\ \A v, w \in Workers : ~Finished(v) /\ ~Finished(w) => v = w
         /\ join.pc \notin {"none", "closing"} =>
               \A v \in Workers : ~Finished(v) => join.pc = "waiting" /\ v = join.entry
<1>1. handle \in Workers \cup {None} /\ None \notin Workers
  BY QueueAssumption DEF IInv, TypeInv, TypeOK
<1> QED
  BY <1>1, OneWorker DEF IInv, OwnerInv

(* A spawned worker finds at most one entry of a dead one. *)
LEMMA HandSpawn ==
  ASSUME TypeInv, HandInv, EnsureWorker, UNCHANGED <<running, draining, flag>>
  PROVE  HandInv'
<1>1. CASE UNCHANGED <<worker, handle, late>>
  BY <1>1 DEF HandInv, HandOK, Quiet
<1>2. CASE \E w \in Workers :
              /\ Becomes(w, "spawned", None, Unset, "nowhere", <<>>)
              /\ late' = (late \/ flag)
  <2>1. PICK w \in Workers :
              /\ Becomes(w, "spawned", None, Unset, "nowhere", <<>>)
              /\ late' = (late \/ flag)
    BY <1>2
  <2> SUFFICES ASSUME ~late' PROVE (\A v \in Workers : HandOK(v)') /\ Quiet'
    BY DEF HandInv
  <2>2. ~late /\ Quiet /\ \A v \in Workers : HandOK(v)
    BY <2>1 DEF HandInv
  <2>3. Quiet'
    BY <2>2 DEF Quiet
  <2>4. HandOK(w)'
    BY <2>1, <2>3 DEF HandOK, Becomes
  <2>5. ASSUME NEW v \in Workers \ {w} PROVE HandOK(v)'
    BY <2>1, <2>2, <2>3 DEF HandOK, Becomes
  <2> QED
    BY <2>3, <2>4, <2>5
<1> QED
  BY <1>1, <1>2, SpawnDoes

(* Every step keeps what a worker finds. *)
LEMMA HandStep ==
  ASSUME IInv, [Next]_vars
  PROVE  HandInv'
<1> USE QueueAssumption DEF At, Tracked, Finished, Unset
<1>0. /\ TypeInv /\ ShapeInv /\ TouchInv /\ HandInv /\ handle \in Workers \cup {None}
      /\ draining \in Seq(Entries)
  BY DEF IInv, TypeInv, TypeOK
<1>a. ~late => \A v, w \in Workers : ~Finished(v) /\ ~Finished(w) => v = w
  BY OthersEnded
<1>b. ~late /\ join.pc \notin {"none", "closing"} =>
         \A v \in Workers : ~Finished(v) => join.pc = "waiting" /\ v = join.entry
  BY OthersEnded
<1>c. /\ Len(<<>>) = 0
      /\ \A q \in Seq(Entries) : Len(q) <= 1 /\ q # <<>> => Tail(q) = <<>>
      /\ \A e \in Entries : Append(<<>>, e) = <<e>> /\ Len(<<e>>) = 1
  BY ShortSeq
<1>1. CASE UNCHANGED <<running, draining, flag, worker, late>>
  BY <1>0, <1>1 DEF HandInv, HandOK, Quiet
<1>2. ASSUME NEW e \in Entries, Enqueue(e) \/ Cancel(e) \/ Expire(e) \/ Age(e) \/ Renew(e)
      PROVE  UNCHANGED <<running, draining, flag, worker, late>>
  BY <1>2 DEF Enqueue, Cancel, Expire, Age, Renew, lockVars
<1>3. ASSUME NEW w \in Workers, StartExecutor(w)
      PROVE  UNCHANGED <<running, draining, flag, worker, late>>
  BY <1>3 DEF StartExecutor, lockVars
<1>4. ASSUME CooldownEnds \/ SupervisorSees \/ ShutdownQueue \/ JoinTakes \/ JoinReturns \/
             JoinNext \/ JoinSettle
      PROVE  UNCHANGED <<running, draining, flag, worker, late>>
  BY <1>4 DEF CooldownEnds, SupervisorSees, ShutdownQueue, JoinTakes, JoinReturns, JoinNext,
     JoinSettle, lockVars
<1>5. ASSUME NEW e \in Entries, EnqueueNotify(e)
      PROVE  HandInv'
  <2>1. UNCHANGED <<running, draining, flag>>
    BY <1>5 DEF EnqueueNotify, lockVars
  <2> QED
    BY <1>0, <1>5, <2>1, HandSpawn DEF EnqueueNotify
<1>6. ASSUME NEW w \in Workers, Adopt(w)
      PROVE  HandInv'
  <2> SUFFICES ASSUME ~late' PROVE (\A v \in Workers : HandOK(v)') /\ (flag' \/ Quiet')
    BY DEF HandInv
  <2>1. ~late /\ worker[w].pc = "spawned" /\ HandOK(w)
    BY <1>0, <1>6, AdoptDoes DEF HandInv
  <2>2. ASSUME NEW v \in Workers \ {w}
        PROVE  HandOK(v)'
    <3>1. Finished(v) /\ worker'[v] = worker[v]
      BY <1>0, <1>a, <1>6, <2>1, AdoptDoes DEF Becomes
    <3> QED
      BY <3>1 DEF HandOK
  <2>3. HandOK(w)' /\ (flag' \/ Quiet')
    <3>1. CASE /\ running \in Entries /\ draining' = <<running>>
               /\ Becomes(w, "settle", running, "Indeterminate", "draining", draining)
      BY <1>0, <1>c, <1>6, <2>1, <3>1, AdoptDoes DEF HandOK, Quiet, Becomes
    <3>2. CASE draining' = <<>> /\ Becomes(w, "adopt", None, Unset, "nowhere", draining)
      BY <1>0, <1>c, <1>6, <2>1, <3>2, AdoptDoes DEF HandOK, Quiet, Becomes
    <3> QED
      BY <1>0, <1>6, <3>1, <3>2, AdoptDoes
  <2> QED
    BY <2>2, <2>3
<1>7. ASSUME NEW w \in Workers, AdoptNext(w)
      PROVE  HandInv'
  <2> SUFFICES ASSUME ~late' PROVE (\A v \in Workers : HandOK(v)') /\ (flag' \/ Quiet')
    BY DEF HandInv
  <2>1. ~late /\ worker[w].pc = "adopt" /\ HandOK(w)
    BY <1>0, <1>7, AdoptNextDoes DEF HandInv
  <2>0. PICK t : t = worker[w].todo
    OBVIOUS
  <2>2. ASSUME NEW v \in Workers \ {w}
        PROVE  HandOK(v)'
    <3>1. Finished(v) /\ worker'[v] = worker[v]
      BY <1>0, <1>a, <1>7, <2>1, AdoptNextDoes DEF Becomes
    <3> QED
      BY <3>1 DEF HandOK
  <2>3. HandOK(w)' /\ (flag' \/ Quiet')
    <3>0. running' = None /\ draining = <<>> /\ Len(t) <= 1 /\ t \in Seq(Entries)
      BY <1>0, <1>7, <2>0, <2>1, AdoptNextDoes DEF HandOK
    <3>1. CASE draining' = draining /\ Becomes(w, "loop", None, Unset, "nowhere", <<>>)
      BY <1>c, <3>0, <3>1 DEF HandOK, Quiet, Becomes
    <3>2. CASE /\ t # <<>> /\ draining' = draining
               /\ Becomes(w, "adopt", worker[w].entry, worker[w].res, worker[w].kept, Tail(t))
      <4>1. Len(Tail(t)) <= 1
        BY <1>c, <3>0, <3>2
      <4> QED
        BY <1>c, <3>0, <3>2, <4>1 DEF HandOK, Quiet, Becomes
    <3>3. CASE /\ t # <<>> /\ Head(t) \in Entries /\ draining' = Append(draining, Head(t))
               /\ Becomes(w, "settle", Head(t), "Cancelled", "draining", Tail(t))
      <4>1. Tail(t) = <<>> /\ draining' = <<Head(t)>> /\ Len(draining') = 1
        BY <1>c, <3>0, <3>3
      <4> QED
        BY <1>c, <3>0, <3>3, <4>1 DEF HandOK, Quiet, Becomes
    <3> QED
      BY <1>0, <1>7, <2>0, <3>1, <3>2, <3>3, AdoptNextDoes
  <2> QED
    BY <2>2, <2>3
<1>8. ASSUME NEW w \in Workers, Drain(w)
      PROVE  HandInv'
  <2>1. worker[w].pc = "loop" /\ flag /\ UNCHANGED <<running, flag, late>>
    BY <1>0, <1>8, DrainDoes
  <2>2. \/ \E e \in Entries : Becomes(w, "settle", e, "Cancelled", "draining", <<>>)
        \/ \E p \in {"returned", "parked"} : Becomes(w, p, None, Unset, "nowhere", <<>>)
    BY <1>0, <1>8, DrainDoes
  <2> QED
    BY <1>0, <1>a, <2>1, <2>2 DEF HandInv, HandOK, Becomes
<1>9. ASSUME NEW w \in Workers, Pick(w)
      PROVE  HandInv'
  <2> SUFFICES ASSUME ~late' PROVE (\A v \in Workers : HandOK(v)') /\ (flag' \/ Quiet')
    BY DEF HandInv
  <2>1. ~late /\ worker[w].pc = "loop" /\ HandOK(w)
    BY <1>0, <1>9, PickDoes DEF HandInv
  <2>2. ASSUME NEW v \in Workers \ {w}
        PROVE  HandOK(v)'
    <3>1. Finished(v) /\ worker'[v] = worker[v]
      BY <1>0, <1>a, <1>9, <2>1, PickDoes DEF Becomes
    <3> QED
      BY <3>1 DEF HandOK
  <2>3. HandOK(w)' /\ (flag' \/ Quiet')
    <3>0. running = None /\ draining = <<>>
      BY <1>0, <1>9, <2>1, PickDoes DEF HandOK
    <3>1. PICK e \in Entries :
             \/ /\ running' = e /\ draining' = draining
                /\ Becomes(w, "exec", e, Unset, "running", <<>>)
             \/ /\ running' = running /\ draining' = Append(draining, e)
                /\ \E r \in {"Cancelled", "Timeout"} :
                      Becomes(w, "settle", e, r, "draining", <<>>)
      BY <1>0, <1>9, PickDoes
    <3>2. Append(draining, e) = <<e>>
      BY <1>c, <3>0
    <3>3. CASE /\ running' = e /\ draining' = draining
               /\ Becomes(w, "exec", e, Unset, "running", <<>>)
      BY <1>c, <3>0, <3>3 DEF HandOK, Quiet, Becomes
    <3>4. ASSUME running' = running, draining' = Append(draining, e),
                 NEW r \in {"Cancelled", "Timeout"},
                 Becomes(w, "settle", e, r, "draining", <<>>)
          PROVE  HandOK(w)' /\ (flag' \/ Quiet')
      <4>1. draining' = <<e>> /\ Len(draining') = 1 /\ running' = None
        BY <1>c, <3>0, <3>2, <3>4
      <4> QED
        BY <3>4, <4>1 DEF HandOK, Quiet, Becomes
    <3> QED
      BY <3>1, <3>3, <3>4
  <2> QED
    BY <2>2, <2>3
<1>10. ASSUME NEW w \in Workers, Park(w) \/ Wake(w)
      PROVE  HandInv'
  BY <1>0, <1>10, <1>a, StepFacts DEF Park, Wake, lockVars, HandInv, HandOK, Quiet, Becomes
<1>11. ASSUME NEW w \in Workers, ExecutorAnswers(w) \/ ExecutionTimesOut(w) \/
             ExecutionCancelled(w)
      PROVE  HandInv'
  BY <1>0, <1>a, <1>c, <1>11, RanDoes DEF HandInv, HandOK, Quiet, Becomes, ShapeInv,
     WorkerShape
<1>12. ASSUME NEW w \in Workers, SettleEntry(w)
      PROVE  HandInv'
  BY <1>0, <1>a, <1>c, <1>12, SettleDoes, PoppedSingle DEF HandInv, HandOK, Quiet, Becomes,
     ShapeInv, WorkerShape
<1>13. ASSUME NEW w \in Workers, Panic(w)
      PROVE  HandInv'
  BY <1>0, <1>13, <1>a, StepFacts DEF Panic, lockVars, HandInv, HandOK, Quiet, Becomes
<1>14. ASSUME SupervisorRestarts
      PROVE  HandInv'
  <2>1. UNCHANGED <<running, draining, flag>>
    BY <1>14 DEF SupervisorRestarts, lockVars
  <2> QED
    BY <1>0, <1>14, <2>1, HandSpawn DEF SupervisorRestarts
<1>15. ASSUME ShutdownEngine
      PROVE  HandInv'
  BY <1>0, <1>15 DEF ShutdownEngine, lockVars, HandInv, HandOK, Quiet
<1>16. ASSUME JoinAbandons
      PROVE  HandInv'
  <2>1. PICK w \in Workers :
           /\ join.pc = "waiting" /\ UNCHANGED <<late, flag>>
           /\ w = join.entry /\ worker'[w].pc \in {"dead", "aborted"}
           /\ \A v \in Workers \ {w} : worker'[v] = worker[v]
           /\ running' = None /\ draining' = <<>>
    BY <1>0, <1>16, AbandonDoes
  <2>2. ~late => \A v \in Workers : worker'[v].pc \in {"none", "returned", "aborted", "dead"}
    BY <1>b, <2>1
  <2> QED
    BY <1>c, <2>1, <2>2 DEF HandInv, HandOK, Quiet
<1>17. CASE UNCHANGED vars
  BY <1>1, <1>17 DEF vars
<1> QED
  BY <1>1, <1>2, <1>3, <1>4, <1>5, <1>6, <1>7, <1>8, <1>9, <1>10, <1>11, <1>12, <1>13,
     <1>14, <1>15, <1>16, <1>17 DEF Next, WorkerStep, JoinStep

-----------------------------------------------------------------------------
(* What the next task finds *)

(* Every step keeps an entry without reply where it is found. *)
LEMMA KeptStep ==
  ASSUME IInv, [Next]_vars
  PROVE  KeptInv'
<1> USE QueueAssumption DEF Unset
<1>0. /\ TypeInv /\ ShapeInv /\ TouchInv /\ draining \in Seq(Entries)
      /\ call \in [Entries -> {"idle", "pushed", "in"}]
      /\ reply \in [Entries -> RunResults \cup {Unset}]
  BY DEF IInv, TypeInv, TypeOK
<1>a. UNCHANGED waiting => Queued' = Queued
  BY DEF Queued
<1>b. ~late => /\ \A x \in Entries : Open(x) => Kept(x)
               /\ \A w \in Workers : HandOK(w)
  BY DEF IInv, KeptInv, HandInv
<1>c. ASSUME \A x \in Entries : ~late' /\ Open(x)' => Kept(x)'
      PROVE  KeptInv'
  BY <1>c DEF KeptInv
<1>1. CASE UNCHANGED <<call, waiting, running, draining, worker, join, reply, late>>
  BY <1>1, <1>a, <1>b, <1>c DEF Kept, Open, IsSet
<1>2. ASSUME NEW e \in Entries, Cancel(e) \/ Expire(e) \/ Age(e)
      PROVE  UNCHANGED <<call, waiting, running, draining, worker, join, reply, late>>
  BY <1>2 DEF Cancel, Expire, Age, lockVars
<1>3. ASSUME NEW w \in Workers, StartExecutor(w)
      PROVE  UNCHANGED <<call, waiting, running, draining, worker, join, reply, late>>
  BY <1>3 DEF StartExecutor, lockVars
<1>4. ASSUME CooldownEnds \/ SupervisorSees \/ ShutdownEngine
      PROVE  UNCHANGED <<call, waiting, running, draining, worker, join, reply, late>>
  BY <1>4 DEF CooldownEnds, SupervisorSees, ShutdownEngine, lockVars
<1>5. ASSUME NEW e \in Entries, Enqueue(e)
      PROVE  KeptInv'
  <2>0. /\ UNCHANGED <<running, draining, worker, join, reply, late>>
        /\ call' = [call EXCEPT ![e] = "pushed"] /\ Queued' = Queued \cup {e}
    BY <1>0, <1>a, <1>5, EnqueueDoes DEF Enqueue
  <2>1. ASSUME NEW x \in Entries, ~late', Open(x)'
        PROVE  Kept(x)'
    <3>0. ~late
      BY <2>0, <2>1
    <3>1. ~late /\ (x = e \/ Open(x))
      BY <1>0, <2>0, <2>1, <3>0 DEF Open, IsSet
    <3>2. x = e \/ Kept(x)
      BY <1>b, <3>1
    <3> QED
      BY <2>0, <3>2 DEF Kept
  <2> QED
    BY <1>c, <2>1
<1>6. ASSUME NEW e \in Entries, EnqueueNotify(e)
      PROVE  KeptInv'
  <2>0. /\ UNCHANGED <<running, draining, join, reply>> /\ Queued' = Queued
        /\ call[e] = "pushed" /\ call' = [call EXCEPT ![e] = "in"]
        /\ \/ UNCHANGED <<worker, late>>
           \/ /\ late' = (late \/ flag)
              /\ \E w \in Workers :
                    /\ Finished(w) /\ Becomes(w, "spawned", None, Unset, "nowhere", <<>>)
    BY <1>0, <1>a, <1>6, SpawnDoes DEF EnqueueNotify, lockVars
  <2>1. ASSUME NEW x \in Entries, ~late', Open(x)'
        PROVE  Kept(x)'
    <3>0. ~late
      BY <2>0, <2>1
    <3>1. ~late /\ Open(x)
      BY <1>0, <2>0, <2>1, <3>0 DEF Open, IsSet
    <3>2. Kept(x)
      BY <1>b, <3>1
    <3>3. \A v \in Workers : worker[v].pc = "adopt" => worker'[v] = worker[v]
      BY <2>0 DEF Becomes, Finished
    <3> QED
      BY <2>0, <3>2, <3>3 DEF Kept
  <2> QED
    BY <1>c, <2>1
<1>7. ASSUME NEW e \in Entries, Renew(e)
      PROVE  KeptInv'
  <2>0. /\ UNCHANGED <<running, draining, worker, join, late>> /\ Queued' = Queued
        /\ call' = [call EXCEPT ![e] = "idle"] /\ reply' = [reply EXCEPT ![e] = Unset]
    BY <1>0, <1>a, <1>7 DEF Renew, lockVars
  <2>1. ASSUME NEW x \in Entries, ~late', Open(x)'
        PROVE  Kept(x)'
    <3>0. ~late
      BY <2>0, <2>1
    <3>1. ~late /\ Open(x)
      BY <1>0, <2>0, <2>1, <3>0 DEF Open, IsSet
    <3>2. Kept(x)
      BY <1>b, <3>1
    <3> QED
      BY <1>a, <2>0, <2>1, <3>1, <3>2 DEF Kept
  <2> QED
    BY <1>c, <2>1
<1>8. ASSUME NEW w \in Workers, Adopt(w)
      PROVE  KeptInv'
  <2>0. /\ UNCHANGED <<call, join, reply, late>> /\ Queued' = Queued /\ worker[w].pc = "spawned"
        /\ \/ /\ running \in Entries /\ ~IsSet(running) /\ draining' = <<running>>
              /\ Becomes(w, "settle", running, "Indeterminate", "draining", draining)
           \/ /\ running = None \/ IsSet(running)
              /\ Becomes(w, "adopt", None, Unset, "nowhere", draining)
    BY <1>0, <1>a, <1>8, AdoptDoes
  <2>1. ASSUME NEW x \in Entries, ~late', Open(x)'
        PROVE  Kept(x)'
    <3>0. ~late
      BY <2>0, <2>1
    <3>1. ~late /\ Open(x)
      BY <1>0, <2>0, <2>1, <3>0 DEF Open, IsSet
    <3>2. Kept(x)
      BY <1>b, <3>1
    <3>3. running = None \/ draining = <<>>
      BY <1>b, <2>0, <3>1 DEF HandOK, Quiet
    <3>4. \A v \in Workers : worker[v].pc = "adopt" => worker'[v] = worker[v]
      BY <2>0 DEF Becomes
    <3>5. CASE running = x
      BY <2>0, <3>1, <3>5, InSingle DEF Kept, Open
    <3>6. CASE InSeq(x, draining)
      BY <1>0, <2>0, <3>3, <3>6, InEmpty DEF Kept, Becomes
    <3> QED
      BY <2>0, <3>2, <3>4, <3>5, <3>6 DEF Kept
  <2> QED
    BY <1>c, <2>1
<1>9. ASSUME NEW w \in Workers, AdoptNext(w)
      PROVE  KeptInv'
  <2>0. /\ UNCHANGED <<call, running, join, reply, late>> /\ Queued' = Queued
        /\ worker[w].pc = "adopt"
    BY <1>0, <1>a, <1>9, AdoptNextDoes
  <2>1. ASSUME NEW x \in Entries, ~late', Open(x)'
        PROVE  Kept(x)'
    <3>0. ~late
      BY <2>0, <2>1
    <3>1. ~late /\ Open(x)
      BY <1>0, <2>0, <2>1, <3>0 DEF Open, IsSet
    <3>2. Kept(x)
      BY <1>b, <3>1
    <3>t. PICK t : t = worker[w].todo
      OBVIOUS
    <3>a. \/ t = <<>> /\ draining' = draining
          \/ /\ t # <<>> /\ IsSet(Head(t)) /\ draining' = draining
             /\ worker'[w].pc = "adopt" /\ worker'[w].todo = Tail(t)
          \/ /\ t # <<>> /\ Head(t) \in Entries /\ draining' = Append(draining, Head(t))
      BY <1>0, <1>9, <3>t, AdoptNextDoes DEF Becomes
    <3>b. /\ t \in Seq(Entries) /\ Len(t) <= 1
          /\ \A v \in Workers \ {w} : worker'[v] = worker[v]
      BY <1>0, <1>b, <1>9, <2>0, <3>t, <3>1, AdoptNextDoes DEF Becomes, HandOK
    <3>d. \A y \in Entries : InSeq(x, draining) => InSeq(x, Append(draining, y))
      BY <1>0, InAppend
    <3>c. InSeq(x, draining) => InSeq(x, draining')
      BY <3>a, <3>d
    <3>3. CASE InSeq(x, t)
      <4>1. t # <<>> /\ (x = Head(t) \/ InSeq(x, Tail(t)))
        BY <3>3, <3>b, InEmpty, InTail
      <4>2. Tail(t) = <<>>
        BY <3>b, <4>1, ShortSeq
      <4>3. x = Head(t)
        BY <4>1, <4>2, InEmpty
      <4>4. draining' = Append(draining, x)
        BY <3>1, <3>a, <4>1, <4>3 DEF Open
      <4>5. InSeq(x, draining')
        BY <1>0, <4>4, InAppend
      <4> QED
        BY <4>5 DEF Kept
    <3> QED
      BY <2>0, <3>t, <3>2, <3>3, <3>b, <3>c DEF Kept
  <2> QED
    BY <1>c, <2>1
<1>10. ASSUME NEW w \in Workers, Drain(w)
      PROVE  KeptInv'
  <2>0. /\ UNCHANGED <<call, running, join, reply, late>>
        /\ worker[w].pc = "loop" /\ \A v \in Workers \ {w} : worker'[v] = worker[v]
        /\ \A x : InSeq(x, draining') <=> InSeq(x, draining) \/ x \in Queued
    BY <1>0, <1>a, <1>10, DrainDoes DEF Becomes
  <2>1. ASSUME NEW x \in Entries, ~late', Open(x)'
        PROVE  Kept(x)'
    <3>0. ~late
      BY <2>0, <2>1
    <3>1. ~late /\ Open(x)
      BY <1>0, <2>0, <2>1, <3>0 DEF Open, IsSet
    <3>2. Kept(x)
      BY <1>b, <3>1
    <3> QED
      BY <1>a, <2>0, <2>1, <3>1, <3>2 DEF Kept
  <2> QED
    BY <1>c, <2>1
<1>11. ASSUME NEW w \in Workers, Pick(w)
      PROVE  KeptInv'
  <2>0. UNCHANGED <<call, join, reply, late>>
    BY <1>0, <1>11, PickDoes
  <2>a. PICK e \in Entries :
           /\ Queued' = Queued \ {e} /\ worker[w].pc = "loop"
           /\ \A v \in Workers \ {w} : worker'[v] = worker[v]
           /\ \/ running' = e /\ draining' = draining
              \/ running' = running /\ draining' = Append(draining, e)
    BY <1>0, <1>11, PickDoes DEF Becomes
  <2>b. ~late => running = None
    BY <1>b, <2>a DEF HandOK
  <2>1. ASSUME NEW x \in Entries, ~late', Open(x)'
        PROVE  Kept(x)'
    <3>1. ~late /\ Open(x)
      BY <2>0, <2>1 DEF Open, IsSet
    <3>2. Kept(x) /\ running # x
      BY <1>b, <2>b, <3>1
    <3>3. /\ InSeq(x, draining) => InSeq(x, draining')
          /\ x = e => running' = x \/ InSeq(x, draining')
      <4>1. InSeq(x, Append(draining, e)) <=> InSeq(x, draining) \/ x = e
        BY <1>0, InAppend
      <4> QED
        BY <2>a, <4>1
    <3> QED
      BY <2>0, <2>a, <3>2, <3>3 DEF Kept
  <2> QED
    BY <1>c, <2>1
<1>12. ASSUME NEW w \in Workers, Park(w) \/ Wake(w) \/ Panic(w)
      PROVE  KeptInv'
  <2>0. /\ UNCHANGED <<call, running, draining, join, reply, late>> /\ Queued' = Queued
        /\ worker[w].pc # "adopt" /\ \A v \in Workers \ {w} : worker'[v] = worker[v]
    BY <1>0, <1>a, <1>12, StepFacts DEF Park, Wake, Panic, lockVars, At, Becomes
  <2>1. ASSUME NEW x \in Entries, ~late', Open(x)'
        PROVE  Kept(x)'
    <3>0. ~late
      BY <2>0, <2>1
    <3>1. ~late /\ Open(x)
      BY <1>0, <2>0, <2>1, <3>0 DEF Open, IsSet
    <3>2. Kept(x)
      BY <1>b, <3>1
    <3> QED
      BY <1>a, <2>0, <2>1, <3>1, <3>2 DEF Kept
  <2> QED
    BY <1>c, <2>1
<1>13. ASSUME NEW w \in Workers, ExecutorAnswers(w) \/ ExecutionTimesOut(w) \/
             ExecutionCancelled(w)
      PROVE  KeptInv'
  <2>0. /\ UNCHANGED <<call, running, draining, join, reply, late>> /\ Queued' = Queued
        /\ worker[w].pc # "adopt" /\ \A v \in Workers \ {w} : worker'[v] = worker[v]
    BY <1>0, <1>a, <1>13, RanDoes DEF Becomes
  <2>1. ASSUME NEW x \in Entries, ~late', Open(x)'
        PROVE  Kept(x)'
    <3>0. ~late
      BY <2>0, <2>1
    <3>1. ~late /\ Open(x)
      BY <1>0, <2>0, <2>1, <3>0 DEF Open, IsSet
    <3>2. Kept(x)
      BY <1>b, <3>1
    <3> QED
      BY <1>a, <2>0, <2>1, <3>1, <3>2 DEF Kept
  <2> QED
    BY <1>c, <2>1
<1>14. ASSUME NEW w \in Workers, SettleEntry(w)
      PROVE  KeptInv'
  <2>0. /\ UNCHANGED <<call, join, late>> /\ Queued' = Queued
        /\ worker[w].pc = "settle" /\ \A v \in Workers \ {w} : worker'[v] = worker[v]
        /\ worker[w].entry \in Entries /\ reply'[worker[w].entry] # Unset
        /\ \A y \in Entries : y # worker[w].entry => reply'[y] = reply[y]
        /\ \A y : InSeq(y, draining) /\ reply'[y] = Unset => InSeq(y, draining')
        /\ (worker[w].kept = "running" /\ running' = None) \/ running' = running
    BY <1>0, <1>a, <1>14, SettleDoes DEF Becomes
  <2>1. ASSUME NEW x \in Entries, ~late', Open(x)'
        PROVE  Kept(x)'
    <3>0. ~late
      BY <2>0, <2>1
    <3>1. ~late /\ Open(x)
      BY <1>0, <2>0, <2>1, <3>0 DEF Open, IsSet
    <3>2. Kept(x)
      BY <1>b, <3>1
    <3>3. x # worker[w].entry /\ reply'[x] = Unset
      BY <2>0, <2>1 DEF Open, IsSet
    <3>4. running = x => running' = x
      BY <1>b, <2>0, <3>1, <3>3 DEF HandOK
    <3> QED
      BY <2>0, <3>2, <3>3, <3>4 DEF Kept
  <2> QED
    BY <1>c, <2>1
<1>15. ASSUME SupervisorRestarts
      PROVE  KeptInv'
  <2>0. /\ UNCHANGED <<call, running, draining, join, reply>> /\ Queued' = Queued
        /\ \/ UNCHANGED <<worker, late>>
           \/ /\ late' = (late \/ flag)
              /\ \E w \in Workers :
                    /\ Finished(w) /\ Becomes(w, "spawned", None, Unset, "nowhere", <<>>)
    BY <1>0, <1>a, <1>15, SpawnDoes DEF SupervisorRestarts, lockVars
  <2>1. ASSUME NEW x \in Entries, ~late', Open(x)'
        PROVE  Kept(x)'
    <3>0. ~late
      BY <2>0, <2>1
    <3>1. ~late /\ Open(x)
      BY <1>0, <2>0, <2>1, <3>0 DEF Open, IsSet
    <3>2. Kept(x)
      BY <1>b, <3>1
    <3>3. \A v \in Workers : worker[v].pc = "adopt" => worker'[v] = worker[v]
      BY <2>0 DEF Becomes, Finished
    <3> QED
      BY <2>0, <3>2, <3>3 DEF Kept
  <2> QED
    BY <1>c, <2>1
<1>16. ASSUME ShutdownQueue \/ JoinTakes \/ JoinReturns
      PROVE  KeptInv'
  <2>0. /\ UNCHANGED <<call, running, draining, worker, reply, late>> /\ Queued' = Queued
        /\ join.pc \notin {"next", "settle"}
    BY <1>0, <1>a, <1>16 DEF ShutdownQueue, JoinTakes, JoinReturns, lockVars
  <2>1. ASSUME NEW x \in Entries, ~late', Open(x)'
        PROVE  Kept(x)'
    <3>0. ~late
      BY <2>0, <2>1
    <3>1. ~late /\ Open(x)
      BY <1>0, <2>0, <2>1, <3>0 DEF Open, IsSet
    <3>2. Kept(x)
      BY <1>b, <3>1
    <3> QED
      BY <1>a, <2>0, <2>1, <3>1, <3>2 DEF Kept
  <2> QED
    BY <1>c, <2>1
<1>17. ASSUME JoinAbandons
      PROVE  KeptInv'
  <2>0. /\ UNCHANGED <<call, reply, late>>
        /\ join.pc = "waiting" /\ worker[join.entry].pc # "adopt"
        /\ \A v \in Workers \ {join.entry} : worker'[v] = worker[v]
        /\ join'.entry = running /\ join'.pc = "next"
        /\ \A y : InSeq(y, join'.todo) <=> InSeq(y, draining) \/ y \in Queued
    BY <1>0, <1>a, <1>17, AbandonDoes
  <2>1. ASSUME NEW x \in Entries, ~late', Open(x)'
        PROVE  Kept(x)'
    <3>0. ~late
      BY <2>0, <2>1
    <3>1. ~late /\ Open(x)
      BY <1>0, <2>0, <2>1, <3>0 DEF Open, IsSet
    <3>2. Kept(x)
      BY <1>b, <3>1
    <3> QED
      BY <1>a, <2>0, <2>1, <3>1, <3>2 DEF Kept
  <2> QED
    BY <1>c, <2>1
<1>18. ASSUME JoinNext
      PROVE  KeptInv'
  <2>0. /\ UNCHANGED <<call, running, draining, worker, reply, late>> /\ Queued' = Queued
        /\ join.pc = "next"
    BY <1>0, <1>a, <1>18, JoinNextDoes
  <2>1. ASSUME NEW x \in Entries, ~late', Open(x)'
        PROVE  Kept(x)'
    <3>0. ~late
      BY <2>0, <2>1
    <3>1. ~late /\ Open(x)
      BY <1>0, <2>0, <2>1, <3>0 DEF Open, IsSet
    <3>2. Kept(x)
      BY <1>b, <3>1
    <3>t. PICK t : t = join.todo
      OBVIOUS
    <3>3. /\ t \in Seq(Entries)
          /\ join'.pc \in {"next", "settle"} \/ (t = <<>> /\ join.entry = None)
          /\ \/ join'.entry = join.entry /\ join'.todo = t
             \/ join'.todo = t /\ join.entry \in Entries /\ IsSet(join.entry)
             \/ join.entry = None /\ t = <<>>
             \/ join.entry = None /\ t # <<>> /\ IsSet(Head(t)) /\ join'.todo = Tail(t)
             \/ join.entry = None /\ t # <<>> /\ join'.entry = Head(t) /\ join'.todo = Tail(t)
      BY <1>0, <1>18, <3>t, JoinNextDoes
    <3>4. ~IsSet(x) /\ x # None
      BY <3>1 DEF Open
    <3>6. t # <<>> => (InSeq(x, t) <=> x = Head(t) \/ InSeq(x, Tail(t)))
      BY <3>3, InTail
    <3>7. t = <<>> => ~InSeq(x, t)
      BY InEmpty
    <3>5. join.entry = x \/ InSeq(x, t) =>
             join'.pc \in {"next", "settle"} /\ (join'.entry = x \/ InSeq(x, join'.todo))
      BY <3>3, <3>4, <3>6, <3>7
    <3> QED
      BY <2>0, <3>t, <3>2, <3>5 DEF Kept
  <2> QED
    BY <1>c, <2>1
<1>19. ASSUME JoinSettle
      PROVE  KeptInv'
  <2>0. /\ UNCHANGED <<call, running, draining, worker, late>> /\ Queued' = Queued
        /\ join.entry \in Entries /\ reply'[join.entry] # Unset
        /\ \A y \in Entries : y # join.entry => reply'[y] = reply[y]
        /\ join'.pc = "next" /\ join'.todo = join.todo
    BY <1>0, <1>a, <1>19, JoinSettleDoes
  <2>1. ASSUME NEW x \in Entries, ~late', Open(x)'
        PROVE  Kept(x)'
    <3>0. ~late
      BY <2>0, <2>1
    <3>1. ~late /\ Open(x)
      BY <1>0, <2>0, <2>1, <3>0 DEF Open, IsSet
    <3>2. Kept(x)
      BY <1>b, <3>1
    <3> QED
      BY <1>a, <2>0, <2>1, <3>1, <3>2 DEF Kept, Open, IsSet
  <2> QED
    BY <1>c, <2>1
<1>20. CASE UNCHANGED vars
  BY <1>1, <1>20 DEF vars
<1> QED
  BY <1>1, <1>2, <1>3, <1>4, <1>5, <1>6, <1>7, <1>8, <1>9, <1>10, <1>11, <1>12, <1>13,
     <1>14, <1>15, <1>16, <1>17, <1>18, <1>19, <1>20 DEF Next, WorkerStep, JoinStep

(* What is kept is held. *)
LEMMA KeptIsHeld ==
  ASSUME IInv
  PROVE  NothingLost
BY DEF IInv, KeptInv, Kept, NothingLost, Held

-----------------------------------------------------------------------------
(* What was started is answered truly *)

(* A worker that is spawned in time finds no running entry of a live one. *)
LEMMA CalmSpawn ==
  ASSUME IInv, EnsureWorker, UNCHANGED <<running, draining, join, started, reply, panics, flag>>
  PROVE  CalmInv'
<1> USE QueueAssumption
<1>0. TypeInv /\ OwnerInv /\ ShapeInv /\ CalmInv
  BY DEF IInv
<1>1. CASE UNCHANGED <<worker, handle, late>>
  BY <1>0, <1>1 DEF CalmInv, CalmWorker, CalmEntry, IsSet, Finished
<1>2. ASSUME NEW w \in Workers, handle = None \/ Finished(handle),
             Becomes(w, "spawned", None, Unset, "nowhere", <<>>), late' = (late \/ flag)
      PROVE  CalmInv'
  <2> SUFFICES ASSUME panics' = 0, ~late'
               PROVE  /\ \A v \in Workers : CalmWorker(v)'
                      /\ \A x \in started' : CalmEntry(x)'
                      /\ \E v \in Workers : ~Finished(v)'
    BY DEF CalmInv
  <2>1. ~late /\ ~flag /\ panics = 0
    BY <1>2
  <2>2. join.pc = "none"
    BY <1>0, <2>1 DEF ShapeInv, JoinShape
  <2>3. \A v \in Workers : Finished(v)
    BY <1>0, <1>2, <2>2 DEF OwnerInv
  <2>4. /\ \A v \in Workers : CalmWorker(v)
        /\ \A x \in started : CalmEntry(x)
        /\ running' = None
    BY <1>0, <2>1, <2>3 DEF CalmInv
  <2>5. ASSUME NEW v \in Workers PROVE CalmWorker(v)'
    BY <1>2, <2>4 DEF CalmWorker, IsSet, Becomes
  <2>6. ASSUME NEW x \in started PROVE CalmEntry(x)'
    BY <1>2, <2>4, InEmpty DEF CalmEntry, Becomes
  <2>7. ~Finished(w)'
    BY <1>2 DEF Becomes, Finished
  <2> QED
    BY <2>5, <2>6, <2>7
<1> QED
  BY <1>0, <1>1, <1>2, SpawnDoes

(* Every step keeps the truth about what was started. *)
LEMMA CalmStep ==
  ASSUME IInv, [Next]_vars
  PROVE  CalmInv'
<1> USE QueueAssumption DEF Unset
<1>0. /\ TypeInv /\ ShapeInv /\ TouchInv /\ OwnerInv /\ draining \in Seq(Entries)
      /\ started \subseteq Entries /\ reply \in [Entries -> RunResults \cup {Unset}]
      /\ handle \in Workers \cup {None} /\ panics \in Nat
  BY DEF IInv, TypeInv, TypeOK
<1>a. ~late => /\ \A v, w \in Workers : ~Finished(v) /\ ~Finished(w) => v = w
               /\ join.pc \notin {"none", "closing"} =>
                     \A v \in Workers : ~Finished(v) => join.pc = "waiting"
               /\ \A v \in Workers : HandOK(v)
  BY OthersEnded DEF IInv, HandInv
<1>b. panics = 0 /\ ~late =>
         /\ \A v \in Workers : CalmWorker(v)
         /\ \A x \in started : CalmEntry(x)
         /\ flag \/ running = None \/ \E v \in Workers : ~Finished(v)
  BY DEF IInv, CalmInv
<1>c. ASSUME panics' = 0 /\ ~late' =>
                /\ \A v \in Workers : CalmWorker(v)'
                /\ \A x \in started' : CalmEntry(x)'
                /\ flag' \/ running' = None \/ \E v \in Workers : ~Finished(v)'
      PROVE  CalmInv'
  BY <1>c DEF CalmInv
<1>d. \A x \in Entries : x \in Queued => ~IsSet(x) /\ x \notin started
  BY <1>0 DEF TouchInv, Untouched
<1>1. CASE UNCHANGED <<running, draining, flag, worker, join, started, reply, late, panics>>
  BY <1>0, <1>1, <1>b DEF CalmInv, CalmWorker, CalmEntry, IsSet, Finished
<1>2. ASSUME NEW e \in Entries, Enqueue(e) \/ Cancel(e) \/ Expire(e) \/ Age(e)
      PROVE  UNCHANGED <<running, draining, flag, worker, join, started, reply, late, panics>>
  BY <1>2 DEF Enqueue, Cancel, Expire, Age, lockVars
<1>3. ASSUME CooldownEnds \/ SupervisorSees
      PROVE  UNCHANGED <<running, draining, flag, worker, join, started, reply, late, panics>>
  BY <1>3 DEF CooldownEnds, SupervisorSees, lockVars
<1>4. ASSUME NEW e \in Entries, EnqueueNotify(e)
      PROVE  CalmInv'
  <2>0. UNCHANGED <<running, draining, join, started, reply, panics, flag>>
    BY <1>4 DEF EnqueueNotify, lockVars
  <2> QED
    BY <1>4, <2>0, CalmSpawn DEF EnqueueNotify
<1>5. ASSUME NEW e \in Entries, Renew(e)
      PROVE  CalmInv'
  <2>0. /\ UNCHANGED <<running, draining, worker, join, late, panics, flag>> /\ started' = started \ {e}
        /\ reply' = [reply EXCEPT ![e] = Unset]
    BY <1>0, <1>5 DEF Renew, lockVars
  <2> SUFFICES ASSUME panics' = 0, ~late'
               PROVE  /\ \A v \in Workers : CalmWorker(v)'
                      /\ \A x \in started' : CalmEntry(x)'
                      /\ flag' \/ running' = None \/ \E v \in Workers : ~Finished(v)'
    BY <1>c
  <2>1. panics = 0 /\ ~late
    BY <1>0, <2>0
  <2>2. /\ \A v \in Workers : CalmWorker(v)
        /\ \A x \in started : CalmEntry(x)
        /\ flag \/ running = None \/ \E v \in Workers : ~Finished(v)
    BY <1>b, <2>1
  <2>3. ASSUME NEW v \in Workers PROVE CalmWorker(v)'
    BY <1>0, <2>0, <2>2 DEF CalmWorker, IsSet
  <2>4. ASSUME NEW x \in started' PROVE CalmEntry(x)'
    BY <1>0, <2>0, <2>2, <2>4 DEF CalmEntry
  <2>5. flag' \/ running' = None \/ \E v \in Workers : ~Finished(v)'
    BY <2>0, <2>2 DEF Finished
  <2> QED
    BY <2>3, <2>4, <2>5
<1>6. ASSUME NEW w \in Workers, Adopt(w)
      PROVE  CalmInv'
  <2>0. /\ UNCHANGED <<join, started, reply, late, panics, flag>> /\ worker[w].pc = "spawned"
        /\ running' = None
        /\ \/ running \in Entries
           \/ draining' = <<>> /\ Becomes(w, "adopt", None, Unset, "nowhere", draining)
    BY <1>0, <1>6, AdoptDoes
  <2> SUFFICES ASSUME panics' = 0, ~late'
               PROVE  /\ \A v \in Workers : CalmWorker(v)'
                      /\ \A x \in started' : CalmEntry(x)'
                      /\ flag' \/ running' = None \/ \E v \in Workers : ~Finished(v)'
    BY <1>c
  <2>1. panics = 0 /\ ~late
    BY <1>0, <2>0
  <2>2. /\ \A v \in Workers : CalmWorker(v)
        /\ \A x \in started : CalmEntry(x)
        /\ flag \/ running = None \/ \E v \in Workers : ~Finished(v)
    BY <1>b, <2>1
  <2>7. draining' = <<>> /\ Becomes(w, "adopt", None, Unset, "nowhere", draining)
    BY <2>0, <2>2 DEF CalmWorker
  <2>3. ASSUME NEW v \in Workers PROVE CalmWorker(v)'
    BY <2>0, <2>2, <2>7 DEF Becomes, CalmWorker, IsSet
  <2>4. ASSUME NEW x \in started' PROVE CalmEntry(x)'
    BY <2>0, <2>2, <2>4, <2>7, InEmpty DEF Becomes, CalmEntry
  <2>5. flag' \/ running' = None \/ \E v \in Workers : ~Finished(v)'
    BY <2>0
  <2> QED
    BY <2>3, <2>4, <2>5
<1>7. ASSUME NEW w \in Workers, AdoptNext(w)
      PROVE  CalmInv'
  <2>0. /\ UNCHANGED <<running, join, started, reply, late, panics, flag>> /\ worker[w].pc = "adopt"
    BY <1>0, <1>7, AdoptNextDoes
  <2> SUFFICES ASSUME panics' = 0, ~late'
               PROVE  /\ \A v \in Workers : CalmWorker(v)'
                      /\ \A x \in started' : CalmEntry(x)'
                      /\ flag' \/ running' = None \/ \E v \in Workers : ~Finished(v)'
    BY <1>c
  <2>1. panics = 0 /\ ~late
    BY <1>0, <2>0
  <2>2. /\ \A v \in Workers : CalmWorker(v)
        /\ \A x \in started : CalmEntry(x)
        /\ flag \/ running = None \/ \E v \in Workers : ~Finished(v)
    BY <1>b, <2>1
  <2>6. PICK t : t = worker[w].todo
    OBVIOUS
  <2>7. /\ t \in Seq(Entries)
        /\ \/ worker'[w].pc = "loop" /\ worker'[w].todo = <<>>
           \/ worker'[w].pc = "adopt" /\ t # <<>> /\ worker'[w].todo = Tail(t)
           \/ /\ worker'[w].pc = "settle" /\ t # <<>> /\ worker'[w].todo = Tail(t)
              /\ worker'[w].entry = Head(t)
    BY <1>0, <1>7, <2>6, AdoptNextDoes DEF Becomes
  <2>8. worker'[w].pc = "settle" => worker'[w].entry \notin started'
    <3>1. t # <<>> => InSeq(Head(t), t)
      BY <2>7, InTail
    <3> QED
      BY <2>0, <2>2, <2>6, <2>7, <3>1 DEF CalmEntry
  <2>9. \A x \in started : InSeq(x, draining') => InSeq(x, draining)
    <3>1. draining' = draining \/ (t # <<>> /\ Head(t) \in Entries /\ draining' = Append(draining, Head(t)))
      BY <1>0, <1>7, <2>6, AdoptNextDoes
    <3>2. t # <<>> => Head(t) \notin started
      <4>1. t # <<>> => InSeq(Head(t), t)
        BY <2>7, InTail
      <4> QED
        BY <2>2, <2>6, <4>1 DEF CalmEntry
    <3>3. ASSUME t # <<>>, Head(t) \in Entries, NEW x \in started, InSeq(x, Append(draining, Head(t)))
          PROVE  InSeq(x, draining)
      BY <1>0, <3>2, <3>3, InAppend
    <3> QED
      BY <3>1, <3>3
  <2>a. \A v \in Workers \ {w} : worker'[v] = worker[v]
    BY <1>0, <1>7, AdoptNextDoes DEF Becomes
  <2>3. ASSUME NEW v \in Workers PROVE CalmWorker(v)'
    <3>1. CASE v = w
      BY <2>7, <2>8, <2>a, <3>1 DEF CalmWorker
    <3>2. CASE v # w
      BY <2>0, <2>2, <2>a, <3>2 DEF CalmWorker, IsSet
    <3> QED
      BY <3>1, <3>2
  <2>4. ASSUME NEW x \in started' PROVE CalmEntry(x)'
    <3>1. CalmEntry(x) /\ ~InSeq(x, t)
      BY <2>0, <2>2, <2>4, <2>6 DEF CalmEntry
    <3>2. ~InSeq(x, draining')
      BY <2>4, <2>9, <2>0, <3>1 DEF CalmEntry
    <3>4. t # <<>> => ~InSeq(x, Tail(t))
      BY <2>7, <3>1, InTail
    <3>5. ~InSeq(x, <<>>)
      BY InEmpty
    <3>3. ~InSeq(x, worker'[w].todo)
      BY <2>7, <3>4, <3>5
    <3> QED
      BY <2>0, <2>a, <3>1, <3>2, <3>3 DEF CalmEntry
  <2>5. flag' \/ running' = None \/ \E v \in Workers : ~Finished(v)'
    BY <2>0, <2>8, <2>7 DEF Finished
  <2> QED
    BY <2>3, <2>4, <2>5
<1>8. ASSUME NEW w \in Workers, Drain(w)
      PROVE  CalmInv'
  <2>0. /\ UNCHANGED <<running, join, started, reply, late, panics, flag>> /\ flag
        /\ \A y : InSeq(y, draining') <=> InSeq(y, draining) \/ y \in Queued
        /\ \/ \E e \in Entries :
                 /\ InSeq(e, draining')
                 /\ Becomes(w, "settle", e, "Cancelled", "draining", <<>>)
           \/ \E p \in {"returned", "parked"} : Becomes(w, p, None, Unset, "nowhere", <<>>)
    BY <1>0, <1>8, DrainDoes
  <2> SUFFICES ASSUME panics' = 0, ~late'
               PROVE  /\ \A v \in Workers : CalmWorker(v)'
                      /\ \A x \in started' : CalmEntry(x)'
                      /\ flag' \/ running' = None \/ \E v \in Workers : ~Finished(v)'
    BY <1>c
  <2>1. panics = 0 /\ ~late
    BY <1>0, <2>0
  <2>2. /\ \A v \in Workers : CalmWorker(v)
        /\ \A x \in started : CalmEntry(x)
        /\ flag \/ running = None \/ \E v \in Workers : ~Finished(v)
    BY <1>b, <2>1
  <2>7. \A y \in started : ~InSeq(y, draining')
    BY <1>0, <1>d, <2>0, <2>2 DEF CalmEntry
  <2>3. ASSUME NEW v \in Workers PROVE CalmWorker(v)'
    BY <2>0, <2>2, <2>7 DEF Becomes, CalmWorker, IsSet
  <2>4. ASSUME NEW x \in started' PROVE CalmEntry(x)'
    BY <2>0, <2>2, <2>4, <2>7, InEmpty DEF Becomes, CalmEntry
  <2>5. flag' \/ running' = None \/ \E v \in Workers : ~Finished(v)'
    BY <2>0
  <2> QED
    BY <2>3, <2>4, <2>5
<1>9. ASSUME NEW w \in Workers, Pick(w)
      PROVE  CalmInv'
  <2>0. UNCHANGED <<join, started, reply, late, panics, flag>>
    BY <1>0, <1>9, PickDoes
  <2>a. PICK e \in Entries :
           /\ e \in Queued
           /\ \/ /\ draining' = draining
                 /\ Becomes(w, "exec", e, Unset, "running", <<>>)
              \/ /\ draining' = Append(draining, e)
                 /\ \E r \in {"Cancelled", "Timeout"} :
                       Becomes(w, "settle", e, r, "draining", <<>>)
    BY <1>0, <1>9, PickDoes
  <2> SUFFICES ASSUME panics' = 0, ~late'
               PROVE  /\ \A v \in Workers : CalmWorker(v)'
                      /\ \A x \in started' : CalmEntry(x)'
                      /\ flag' \/ running' = None \/ \E v \in Workers : ~Finished(v)'
    BY <1>c
  <2>1. panics = 0 /\ ~late
    BY <1>0, <2>0
  <2>2. /\ \A v \in Workers : CalmWorker(v)
        /\ \A x \in started : CalmEntry(x)
        /\ flag \/ running = None \/ \E v \in Workers : ~Finished(v)
    BY <1>b, <2>1
  <2>7. reply'[e] = Unset /\ e \notin started'
    BY <1>d, <2>0, <2>a DEF IsSet
  <2>8. /\ worker'[w].pc \in {"exec", "settle"} /\ worker'[w].entry = e /\ worker'[w].todo = <<>>
        /\ \A v \in Workers \ {w} : worker'[v] = worker[v]
    BY <2>a DEF Becomes
  <2>9. \A v \in Workers \ {w} : worker[v].pc # "spawned"
    BY <1>0, <1>a, <1>9, <2>1, PickDoes DEF Finished
  <2>3. ASSUME NEW v \in Workers PROVE CalmWorker(v)'
    <3>1. CASE v = w
      BY <2>7, <2>8, <3>1 DEF CalmWorker, IsSet
    <3>2. CASE v # w
      BY <2>0, <2>2, <2>8, <2>9, <3>2 DEF CalmWorker, IsSet
    <3> QED
      BY <3>1, <3>2
  <2>4. ASSUME NEW x \in started' PROVE CalmEntry(x)'
    <3>1. CalmEntry(x) /\ x # e
      BY <2>0, <2>2, <2>4, <2>7
    <3>2. ~InSeq(x, Append(draining, e)) /\ ~InSeq(x, <<>>)
      BY <1>0, <3>1, InAppend, InEmpty DEF CalmEntry
    <3>3. ~InSeq(x, draining')
      BY <2>a, <3>1, <3>2 DEF CalmEntry
    <3> QED
      BY <2>0, <2>8, <3>1, <3>2, <3>3 DEF CalmEntry
  <2>5. flag' \/ running' = None \/ \E v \in Workers : ~Finished(v)'
    BY <2>8 DEF Finished
  <2> QED
    BY <2>3, <2>4, <2>5
<1>10. ASSUME NEW w \in Workers, Park(w) \/ Wake(w)
      PROVE  CalmInv'
  <2>0. /\ UNCHANGED <<running, draining, join, started, reply, late, panics, flag>>
        /\ \E p \in {"parked", "loop"} : Becomes(w, p, None, Unset, "nowhere", <<>>)
    BY <1>0, <1>10, StepFacts DEF Park, Wake, lockVars, At
  <2> SUFFICES ASSUME panics' = 0, ~late'
               PROVE  /\ \A v \in Workers : CalmWorker(v)'
                      /\ \A x \in started' : CalmEntry(x)'
                      /\ flag' \/ running' = None \/ \E v \in Workers : ~Finished(v)'
    BY <1>c
  <2>1. panics = 0 /\ ~late
    BY <1>0, <2>0
  <2>2. /\ \A v \in Workers : CalmWorker(v)
        /\ \A x \in started : CalmEntry(x)
        /\ flag \/ running = None \/ \E v \in Workers : ~Finished(v)
    BY <1>b, <2>1
  <2>3. ASSUME NEW v \in Workers PROVE CalmWorker(v)'
    BY <2>0, <2>2 DEF Becomes, CalmWorker, IsSet
  <2>4. ASSUME NEW x \in started' PROVE CalmEntry(x)'
    BY <2>0, <2>2, <2>4, InEmpty DEF Becomes, CalmEntry
  <2>5. flag' \/ running' = None \/ \E v \in Workers : ~Finished(v)'
    BY <2>0 DEF Becomes, Finished
  <2> QED
    BY <2>3, <2>4, <2>5
<1>11. ASSUME NEW w \in Workers, StartExecutor(w)
      PROVE  CalmInv'
  <2>0. /\ UNCHANGED <<running, draining, worker, join, reply, late, panics, flag>>
        /\ started' = started \cup {worker[w].entry} /\ worker[w].pc = "exec"
    BY <1>0, <1>11 DEF StartExecutor, lockVars
  <2> SUFFICES ASSUME panics' = 0, ~late'
               PROVE  /\ \A v \in Workers : CalmWorker(v)'
                      /\ \A x \in started' : CalmEntry(x)'
                      /\ flag' \/ running' = None \/ \E v \in Workers : ~Finished(v)'
    BY <1>c
  <2>1. panics = 0 /\ ~late
    BY <1>0, <2>0
  <2>2. /\ \A v \in Workers : CalmWorker(v)
        /\ \A x \in started : CalmEntry(x)
        /\ flag \/ running = None \/ \E v \in Workers : ~Finished(v)
    BY <1>b, <2>1
  <2>7. \A v \in Workers \ {w} : Finished(v)
    BY <1>a, <2>0, <2>1 DEF Finished
  <2>3. ASSUME NEW v \in Workers PROVE CalmWorker(v)'
    BY <2>0, <2>2, <2>7 DEF Finished, CalmWorker, IsSet
  <2>4. ASSUME NEW x \in started' PROVE CalmEntry(x)'
    <3>1. CASE x \in started
      BY <2>0, <2>2, <3>1 DEF CalmEntry
    <3>2. CASE x = worker[w].entry
      <4>1. reply[x] = Unset /\ draining = <<>> /\ worker[w].todo = <<>>
        BY <1>0, <1>a, <2>0, <2>1, <2>2, <3>2 DEF CalmWorker, IsSet, HandOK, ShapeInv, WorkerShape
      <4>2. \A v \in Workers \ {w} : worker[v].todo = <<>>
        BY <1>0, <2>7 DEF Finished, ShapeInv, WorkerShape
      <4>3. join.pc \notin {"next", "settle"}
        BY <1>a, <2>0, <2>1 DEF Finished
      <4> QED
        BY <2>0, <4>1, <4>2, <4>3, InEmpty DEF CalmEntry
    <3> QED
      BY <2>0, <2>4, <3>1, <3>2
  <2>5. flag' \/ running' = None \/ \E v \in Workers : ~Finished(v)'
    BY <2>0 DEF Finished
  <2> QED
    BY <2>3, <2>4, <2>5
<1>12. ASSUME NEW w \in Workers, ExecutorAnswers(w) \/ ExecutionTimesOut(w) \/
             ExecutionCancelled(w)
      PROVE  CalmInv'
  <2>0. /\ UNCHANGED <<running, draining, join, started, reply, late, panics, flag>>
        /\ \E r \in RunResults :
              /\ worker[w].entry \in started => r \in {"Done", "Indeterminate"}
              /\ Becomes(w, "settle", worker[w].entry, r, worker[w].kept, worker[w].todo)
    BY <1>0, <1>12, RanDoes
  <2> SUFFICES ASSUME panics' = 0, ~late'
               PROVE  /\ \A v \in Workers : CalmWorker(v)'
                      /\ \A x \in started' : CalmEntry(x)'
                      /\ flag' \/ running' = None \/ \E v \in Workers : ~Finished(v)'
    BY <1>c
  <2>1. panics = 0 /\ ~late
    BY <1>0, <2>0
  <2>2. /\ \A v \in Workers : CalmWorker(v)
        /\ \A x \in started : CalmEntry(x)
        /\ flag \/ running = None \/ \E v \in Workers : ~Finished(v)
    BY <1>b, <2>1
  <2>3. ASSUME NEW v \in Workers PROVE CalmWorker(v)'
    BY <2>0, <2>2 DEF Becomes, CalmWorker, IsSet
  <2>4. ASSUME NEW x \in started' PROVE CalmEntry(x)'
    BY <2>0, <2>2, <2>4 DEF Becomes, CalmEntry
  <2>5. flag' \/ running' = None \/ \E v \in Workers : ~Finished(v)'
    BY <2>0 DEF Becomes, Finished
  <2> QED
    BY <2>3, <2>4, <2>5
<1>13. ASSUME NEW w \in Workers, SettleEntry(w)
      PROVE  CalmInv'
  <2>0. /\ UNCHANGED <<join, started, late, panics, flag>> /\ worker[w].pc = "settle"
        /\ worker[w].entry \in Entries /\ running' \in {running, None}
        /\ reply'[worker[w].entry] \in {worker[w].res, "Indeterminate"}
        /\ \A y \in Entries : y # worker[w].entry => reply'[y] = reply[y]
        /\ \A y : InSeq(y, draining') => InSeq(y, draining)
        /\ worker'[w].pc \in {"loop", "adopt"} /\ worker'[w].todo = worker[w].todo
        /\ \A v \in Workers \ {w} : worker'[v] = worker[v]
    BY <1>0, <1>13, SettleDoes DEF Becomes
  <2> SUFFICES ASSUME panics' = 0, ~late'
               PROVE  /\ \A v \in Workers : CalmWorker(v)'
                      /\ \A x \in started' : CalmEntry(x)'
                      /\ flag' \/ running' = None \/ \E v \in Workers : ~Finished(v)'
    BY <1>c
  <2>1. panics = 0 /\ ~late
    BY <1>0, <2>0
  <2>2. /\ \A v \in Workers : CalmWorker(v)
        /\ \A x \in started : CalmEntry(x)
        /\ flag \/ running = None \/ \E v \in Workers : ~Finished(v)
    BY <1>b, <2>1
  <2>7. \A v \in Workers \ {w} : Finished(v)
    BY <1>a, <2>0, <2>1 DEF Finished
  <2>3. ASSUME NEW v \in Workers PROVE CalmWorker(v)'
    BY <2>0, <2>2, <2>7 DEF Finished, CalmWorker, IsSet
  <2>4. ASSUME NEW x \in started' PROVE CalmEntry(x)'
    <3>1. CalmEntry(x)
      BY <2>0, <2>2, <2>4
    <3>2. reply'[x] \notin {"Cancelled", "Timeout"}
      BY <1>0, <2>0, <2>2, <2>4, <3>1 DEF CalmEntry, CalmWorker
    <3> QED
      BY <2>0, <3>1, <3>2 DEF CalmEntry
  <2>5. flag' \/ running' = None \/ \E v \in Workers : ~Finished(v)'
    BY <2>0 DEF Finished
  <2> QED
    BY <2>3, <2>4, <2>5
<1>14. ASSUME NEW w \in Workers, Panic(w)
      PROVE  CalmInv'
  <2>1. panics' = panics + 1
    BY <1>14 DEF Panic
  <2> QED
    BY <1>0, <1>c, <2>1
<1>15. ASSUME SupervisorRestarts
      PROVE  CalmInv'
  <2>0. UNCHANGED <<running, draining, join, started, reply, panics, flag>>
    BY <1>15 DEF SupervisorRestarts, lockVars
  <2> QED
    BY <1>15, <2>0, CalmSpawn DEF SupervisorRestarts
<1>16. ASSUME ShutdownEngine
      PROVE  CalmInv'
  <2>0. /\ flag' = TRUE
        /\ UNCHANGED <<running, draining, worker, join, started, reply, late, panics>>
    BY <1>0, <1>16 DEF ShutdownEngine, lockVars
  <2> SUFFICES ASSUME panics' = 0, ~late'
               PROVE  /\ \A v \in Workers : CalmWorker(v)'
                      /\ \A x \in started' : CalmEntry(x)'
                      /\ flag' \/ running' = None \/ \E v \in Workers : ~Finished(v)'
    BY <1>c
  <2>1. panics = 0 /\ ~late
    BY <1>0, <2>0
  <2>2. /\ \A v \in Workers : CalmWorker(v)
        /\ \A x \in started : CalmEntry(x)
        /\ flag \/ running = None \/ \E v \in Workers : ~Finished(v)
    BY <1>b, <2>1
  <2>3. ASSUME NEW v \in Workers PROVE CalmWorker(v)'
    BY <2>0, <2>2 DEF CalmWorker, IsSet
  <2>4. ASSUME NEW x \in started' PROVE CalmEntry(x)'
    BY <2>0, <2>2, <2>4 DEF CalmEntry
  <2>5. flag' \/ running' = None \/ \E v \in Workers : ~Finished(v)'
    BY <2>0
  <2> QED
    BY <2>3, <2>4, <2>5
<1>17. ASSUME ShutdownQueue \/ JoinTakes \/ JoinReturns
      PROVE  CalmInv'
  <2>0. /\ UNCHANGED <<running, draining, worker, started, reply, late, panics, flag>>
        /\ join'.pc \notin {"next", "settle"}
    BY <1>0, <1>17, TaskFields DEF ShutdownQueue, JoinTakes, JoinReturns, lockVars, At
  <2> SUFFICES ASSUME panics' = 0, ~late'
               PROVE  /\ \A v \in Workers : CalmWorker(v)'
                      /\ \A x \in started' : CalmEntry(x)'
                      /\ flag' \/ running' = None \/ \E v \in Workers : ~Finished(v)'
    BY <1>c
  <2>1. panics = 0 /\ ~late
    BY <1>0, <2>0
  <2>2. /\ \A v \in Workers : CalmWorker(v)
        /\ \A x \in started : CalmEntry(x)
        /\ flag \/ running = None \/ \E v \in Workers : ~Finished(v)
    BY <1>b, <2>1
  <2>3. ASSUME NEW v \in Workers PROVE CalmWorker(v)'
    BY <2>0, <2>2 DEF CalmWorker, IsSet
  <2>4. ASSUME NEW x \in started' PROVE CalmEntry(x)'
    BY <2>0, <2>2, <2>4 DEF CalmEntry
  <2>5. flag' \/ running' = None \/ \E v \in Workers : ~Finished(v)'
    BY <2>0, <2>2 DEF Finished
  <2> QED
    BY <2>3, <2>4, <2>5
<1>18. ASSUME JoinAbandons
      PROVE  CalmInv'
  <2>0. /\ UNCHANGED <<started, reply, late, panics, flag>> /\ join.pc = "waiting"
        /\ join.entry \in Workers /\ running' = None /\ draining' = <<>> /\ join'.pc = "next"
        /\ worker'[join.entry].pc = IF worker[join.entry].pc = "dead" THEN "dead" ELSE "aborted"
        /\ worker'[join.entry].todo = <<>>
        /\ \A v \in Workers \ {join.entry} : worker'[v] = worker[v]
        /\ \A y : InSeq(y, join'.todo) <=> InSeq(y, draining) \/ y \in Queued
    BY <1>0, <1>18, AbandonDoes
  <2> SUFFICES ASSUME panics' = 0, ~late'
               PROVE  /\ \A v \in Workers : CalmWorker(v)'
                      /\ \A x \in started' : CalmEntry(x)'
                      /\ flag' \/ running' = None \/ \E v \in Workers : ~Finished(v)'
    BY <1>c
  <2>1. panics = 0 /\ ~late
    BY <1>0, <2>0
  <2>2. /\ \A v \in Workers : CalmWorker(v)
        /\ \A x \in started : CalmEntry(x)
        /\ flag \/ running = None \/ \E v \in Workers : ~Finished(v)
    BY <1>b, <2>1
  <2>3. ASSUME NEW v \in Workers PROVE CalmWorker(v)'
    BY <2>0, <2>2 DEF CalmWorker, IsSet
  <2>4. ASSUME NEW x \in started' PROVE CalmEntry(x)'
    BY <1>0, <1>d, <2>0, <2>2, <2>4, InEmpty DEF CalmEntry
  <2>5. flag' \/ running' = None \/ \E v \in Workers : ~Finished(v)'
    BY <2>0
  <2> QED
    BY <2>3, <2>4, <2>5
<1>19. ASSUME JoinNext
      PROVE  CalmInv'
  <2>0. /\ UNCHANGED <<running, draining, worker, started, reply, late, panics, flag>>
        /\ join.pc = "next"
    BY <1>0, <1>19, JoinNextDoes
  <2> SUFFICES ASSUME panics' = 0, ~late'
               PROVE  /\ \A v \in Workers : CalmWorker(v)'
                      /\ \A x \in started' : CalmEntry(x)'
                      /\ flag' \/ running' = None \/ \E v \in Workers : ~Finished(v)'
    BY <1>c
  <2>1. panics = 0 /\ ~late
    BY <1>0, <2>0
  <2>2. /\ \A v \in Workers : CalmWorker(v)
        /\ \A x \in started : CalmEntry(x)
        /\ flag \/ running = None \/ \E v \in Workers : ~Finished(v)
    BY <1>b, <2>1
  <2>3. ASSUME NEW v \in Workers PROVE CalmWorker(v)'
    BY <2>0, <2>2 DEF CalmWorker, IsSet
  <2>4. ASSUME NEW x \in started' PROVE CalmEntry(x)'
    <3>1. CalmEntry(x) /\ ~InSeq(x, join.todo)
      BY <2>0, <2>2, <2>4 DEF CalmEntry
    <3>2. PICK t : t = join.todo
      OBVIOUS
    <3>3. /\ t \in Seq(Entries)
          /\ join'.todo \in {t, <<>>} \/ (t # <<>> /\ join'.todo = Tail(t))
          /\ \/ join'.pc # "settle" \/ join'.res = "Indeterminate"
             \/ t # <<>> /\ join'.entry = Head(t)
      BY <1>0, <1>19, <3>2, JoinNextDoes
    <3>4. t # <<>> => ~InSeq(x, Tail(t)) /\ x # Head(t)
      BY <3>1, <3>2, <3>3, InTail
    <3> QED
      BY <2>0, <3>1, <3>2, <3>3, <3>4, InEmpty DEF CalmEntry
  <2>5. flag' \/ running' = None \/ \E v \in Workers : ~Finished(v)'
    BY <2>0, <2>2 DEF Finished
  <2> QED
    BY <2>3, <2>4, <2>5
<1>20. ASSUME JoinSettle
      PROVE  CalmInv'
  <2>0. /\ UNCHANGED <<running, draining, worker, started, late, panics, flag>>
        /\ join.pc = "settle" /\ join.entry \in Entries
        /\ reply'[join.entry] \in {join.res, "Indeterminate"}
        /\ \A y \in Entries : y # join.entry => reply'[y] = reply[y]
        /\ join'.pc = "next" /\ join'.todo = join.todo
    BY <1>0, <1>20, JoinSettleDoes
  <2> SUFFICES ASSUME panics' = 0, ~late'
               PROVE  /\ \A v \in Workers : CalmWorker(v)'
                      /\ \A x \in started' : CalmEntry(x)'
                      /\ flag' \/ running' = None \/ \E v \in Workers : ~Finished(v)'
    BY <1>c
  <2>1. panics = 0 /\ ~late
    BY <1>0, <2>0
  <2>2. /\ \A v \in Workers : CalmWorker(v)
        /\ \A x \in started : CalmEntry(x)
        /\ flag \/ running = None \/ \E v \in Workers : ~Finished(v)
    BY <1>b, <2>1
  <2>7. \A v \in Workers : Finished(v)
    BY <1>a, <2>0, <2>1
  <2>3. ASSUME NEW v \in Workers PROVE CalmWorker(v)'
    BY <2>0, <2>2, <2>7 DEF Finished, CalmWorker, IsSet
  <2>4. ASSUME NEW x \in started' PROVE CalmEntry(x)'
    BY <1>0, <2>0, <2>2, <2>4 DEF CalmEntry
  <2>5. flag' \/ running' = None \/ \E v \in Workers : ~Finished(v)'
    BY <2>0, <2>2 DEF Finished
  <2> QED
    BY <2>3, <2>4, <2>5
<1>21. CASE UNCHANGED vars
  BY <1>1, <1>21 DEF vars
<1> QED
  BY <1>1, <1>2, <1>3, <1>4, <1>5, <1>6, <1>7, <1>8, <1>9, <1>10, <1>11, <1>12, <1>13,
     <1>14, <1>15, <1>16, <1>17, <1>18, <1>19, <1>20, <1>21 DEF Next, WorkerStep, JoinStep

(* A started entry is not answered Cancelled or Timeout. *)
LEMMA CalmIsTrue ==
  ASSUME IInv
  PROVE  NeverDenied
BY DEF IInv, CalmInv, CalmEntry, NeverDenied

-----------------------------------------------------------------------------
(* Types *)

WaitType == WaitOK /\ IsFiniteSet(Queued) /\ Cardinality(Queued) <= Capacity

TaskType == worker \in [Workers -> Tasks] /\ join \in Tasks /\ handle \in Workers \cup {None}

DataType ==
    /\ call \in [Entries -> {"idle", "pushed", "in"}]
    /\ running \in Entries \cup {None} /\ draining \in Seq(Entries)
    /\ started \subseteq Entries /\ cancelled \subseteq Entries /\ expired \subseteq Entries
    /\ reply \in [Entries -> RunResults \cup {Unset}]
    /\ boost \in [Entries -> 0 .. 3] /\ \A e \in Entries : boost[e] \in 0 .. (3 - Prio[e])
    /\ panics \in Nat

SwitchType ==
    /\ closed \in BOOLEAN /\ flag \in BOOLEAN /\ cooldown \in BOOLEAN
    /\ permit \in BOOLEAN /\ wake \in BOOLEAN /\ late \in BOOLEAN

(* The parts of the type invariant. *)
LEMMA TypeParts ==
  ASSUME TouchInv
  PROVE  TypeInv <=> WaitType /\ TaskType /\ DataType /\ SwitchType
BY DEF TypeInv, TypeOK, WaitType, WaitOK, TaskType, DataType, SwitchType, TouchInv

(* A task built from values of the right types is a task. *)
LEMMA TaskMember ==
  /\ \A p \in {"none", "spawned", "adopt", "loop", "parked", "exec", "settle",
               "returned", "aborted", "dead", "closing", "waiting", "next"} :
     \A e \in Entries \cup Workers \cup {None} : \A r \in RunResults \cup {Unset} :
     \A k \in {"nowhere", "running", "draining"} : \A t \in Seq(Entries) :
        Task(p, e, r, k, t) \in Tasks
  /\ \A p \in {"none", "spawned", "adopt", "loop", "parked", "exec", "settle",
               "returned", "aborted", "dead", "closing", "waiting", "next"} : At(p) \in Tasks
<1>1. ASSUME NEW p \in {"none", "spawned", "adopt", "loop", "parked", "exec", "settle",
                        "returned", "aborted", "dead", "closing", "waiting", "next"},
             NEW e \in Entries \cup Workers \cup {None}, NEW r \in RunResults \cup {Unset},
             NEW k \in {"nowhere", "running", "draining"}, NEW t \in Seq(Entries)
      PROVE  Task(p, e, r, k, t) \in Tasks
  BY DEF Task, Tasks
<1>2. <<>> \in Seq(Entries)
  OBVIOUS
<1> QED
  BY <1>1, <1>2 DEF At

(* Every step keeps what waits within the capacity. *)
LEMMA WaitTypeStep ==
  ASSUME IInv, [Next]_vars
  PROVE  WaitType'
<1>0. /\ TypeInv /\ TouchInv /\ WaitType
  BY TypeParts DEF IInv
<1>1. CASE UNCHANGED <<waiting>>
  BY <1>0, <1>1 DEF WaitType, WaitOK, Queued
<1>2. ASSUME NEW e \in Entries, EnqueueNotify(e) \/ Cancel(e) \/ Expire(e) \/ Age(e) \/
             Renew(e)
      PROVE  UNCHANGED <<waiting>>
  BY <1>2 DEF EnqueueNotify, Cancel, Expire, Age, Renew, lockVars
<1>3. ASSUME NEW w \in Workers, Adopt(w) \/ AdoptNext(w) \/ Park(w) \/ Wake(w) \/
             StartExecutor(w) \/ ExecutorAnswers(w) \/ ExecutionTimesOut(w) \/
             ExecutionCancelled(w) \/ SettleEntry(w) \/ Panic(w)
      PROVE  UNCHANGED <<waiting>>
  BY <1>3 DEF Adopt, AdoptNext, Park, Wake, StartExecutor, ExecutorAnswers,
     ExecutionTimesOut, ExecutionCancelled, SettleEntry, Panic, Ran, lockVars
<1>4. ASSUME CooldownEnds \/ SupervisorSees \/ SupervisorRestarts \/ ShutdownEngine \/
             ShutdownQueue \/ JoinTakes \/ JoinReturns \/ JoinNext \/ JoinSettle
      PROVE  UNCHANGED <<waiting>>
  BY <1>4 DEF CooldownEnds, SupervisorSees, SupervisorRestarts, ShutdownEngine,
     ShutdownQueue, JoinTakes, JoinReturns, JoinNext, JoinSettle, lockVars
<1>5. ASSUME NEW e \in Entries, Enqueue(e)
      PROVE  WaitType'
  <2>1. WaitOK' /\ Queued' = Queued \cup {e} /\ e \notin Queued
    BY <1>0, <1>5, EnqueueDoes
  <2>2. Cardinality(Queued) < Capacity
    BY <1>5 DEF Enqueue
  <2>3. /\ IsFiniteSet(Queued \cup {e})
        /\ Cardinality(Queued \cup {e}) = Cardinality(Queued) + 1 /\ Cardinality(Queued) \in Nat
    BY <1>0, <2>1, FS_AddElement, FS_CardinalityType DEF WaitType
  <2> QED
    BY <2>1, <2>2, <2>3, QueueAssumption DEF WaitType
<1>6. ASSUME NEW w \in Workers, Drain(w)
      PROVE  WaitType'
  <2>1. WaitOK' /\ Queued' = {}
    BY <1>6, EmptiedDoes DEF Drain
  <2> QED
    BY <2>1, FS_EmptySet, QueueAssumption DEF WaitType
<1>7. ASSUME NEW w \in Workers, Pick(w)
      PROVE  WaitType'
  <2>1. WaitOK'
    BY <1>0, <1>7, PickDoes
  <2>2. PICK e \in Entries : Queued' = Queued \ {e}
    BY <1>0, <1>7, PickDoes
  <2>3. /\ IsFiniteSet(Queued \ {e}) /\ Cardinality(Queued) \in Nat
        /\ Cardinality(Queued \ {e}) = IF e \in Queued THEN Cardinality(Queued) - 1 ELSE Cardinality(Queued)
    BY <1>0, FS_RemoveElement, FS_CardinalityType DEF WaitType
  <2> QED
    BY <1>0, <2>1, <2>2, <2>3, QueueAssumption DEF WaitType
<1>8. ASSUME JoinAbandons
      PROVE  WaitType'
  <2>1. WaitOK' /\ Queued' = {}
    BY <1>8, EmptiedDoes DEF JoinAbandons
  <2> QED
    BY <2>1, FS_EmptySet, QueueAssumption DEF WaitType
<1>9. CASE UNCHANGED vars
  BY <1>1, <1>9 DEF vars
<1> QED
  BY <1>1, <1>2, <1>3, <1>4, <1>5, <1>6, <1>7, <1>8, <1>9 DEF Next, WorkerStep, JoinStep

(* Every step keeps the types of the tasks. *)
LEMMA TaskTypeStep ==
  ASSUME IInv, [Next]_vars
  PROVE  TaskType'
<1>0. /\ TypeInv /\ ShapeInv /\ TouchInv /\ TaskType
  BY TypeParts DEF IInv
<1>a. ASSUME NEW w \in Workers, NEW u \in Tasks, worker' = [worker EXCEPT ![w] = u]
      PROVE  worker' \in [Workers -> Tasks]
  BY <1>0, <1>a DEF TaskType
<1>b. \A p \in {"spawned", "loop", "parked", "returned", "dead", "closing", "aborted"} :
         At(p) \in Tasks
  BY TaskMember
<1>c. \A e \in Entries \cup Workers \cup {None} : \A r \in RunResults \cup {Unset} :
      \A t \in Seq(Entries) : \A k \in {"nowhere", "running", "draining"} :
      \A p \in {"settle", "adopt", "exec", "loop", "waiting", "next"} : Task(p, e, r, k, t) \in Tasks
  BY TaskMember
<1>d. /\ draining \in Seq(Entries) /\ running \in Entries \cup {None} /\ <<>> \in Seq(Entries)
      /\ \A q \in Seq(Entries) : q # <<>> => Head(q) \in Entries /\ Tail(q) \in Seq(Entries)
  BY <1>0, InTail DEF TypeInv, TypeOK
<1>e. \A u \in Tasks : /\ u.entry \in Entries \cup Workers \cup {None} /\ u.res \in RunResults \cup {Unset}
                       /\ u.todo \in Seq(Entries) /\ u.kept \in {"nowhere", "running", "draining"}
  BY TaskTypes DEF Tasks
<1> USE DEF RunResults
<1>1. CASE UNCHANGED <<worker, handle, join>>
  BY <1>0, <1>1 DEF TaskType
<1>2. ASSUME NEW e \in Entries, Enqueue(e) \/ Cancel(e) \/ Expire(e) \/ Age(e) \/ Renew(e)
      PROVE  UNCHANGED <<worker, handle, join>>
  BY <1>2 DEF Enqueue, Cancel, Expire, Age, Renew
<1>3. ASSUME NEW w \in Workers, StartExecutor(w)
      PROVE  UNCHANGED <<worker, handle, join>>
  BY <1>3 DEF StartExecutor
<1>4. ASSUME CooldownEnds \/ SupervisorSees \/ ShutdownEngine
      PROVE  UNCHANGED <<worker, handle, join>>
  BY <1>4 DEF CooldownEnds, SupervisorSees, ShutdownEngine
<1>5. ASSUME NEW e \in Entries, EnqueueNotify(e)
      PROVE  TaskType'
  BY <1>0, <1>a, <1>b, <1>5 DEF EnqueueNotify, EnsureWorker, TaskType
<1>6. ASSUME NEW w \in Workers, Adopt(w)
      PROVE  TaskType'
  <2>1. \E u \in Tasks : worker' = [worker EXCEPT ![w] = u]
    BY <1>c, <1>d, <1>6 DEF Adopt, Step, Tracked
  <2> QED
    BY <1>0, <1>a, <1>6, <2>1 DEF Adopt, TaskType
<1>7. ASSUME NEW w \in Workers, AdoptNext(w)
      PROVE  TaskType'
  <2>1. worker[w] \in Tasks
    BY <1>0 DEF TaskType
  <2>2. PICK t : t = worker[w].todo
    OBVIOUS
  <2>3. t \in Seq(Entries) /\ (t # <<>> => Head(t) \in Entries /\ Tail(t) \in Seq(Entries))
    BY <1>d, <1>e, <2>1, <2>2
  <2>4. \A x \in Seq(Entries) : [worker[w] EXCEPT !.todo = x] \in Tasks
    BY <2>1 DEF Tasks
  <2>5. t # <<>> => Tracked(Head(t), "Cancelled", Tail(t)) \in Tasks
    BY <1>c, <2>3 DEF Tracked
  <2>6. t # <<>> => [worker[w] EXCEPT !.todo = Tail(t)] \in Tasks
    BY <2>3, <2>4
  <2>7. \E u \in Tasks : worker' = [worker EXCEPT ![w] = u]
    BY <1>b, <1>7, <2>2, <2>5, <2>6 DEF AdoptNext, Step
  <2> QED
    BY <1>0, <1>a, <1>7, <2>7 DEF AdoptNext, TaskType
<1>8. ASSUME NEW w \in Workers, Drain(w)
      PROVE  TaskType'
  <2>1. Drained # <<>> => Tracked(Head(Drained), "Cancelled", <<>>) \in Tasks
    BY <1>0, <1>c, <1>d, DrainedFacts DEF Tracked
  <2>2. \E u \in Tasks : worker' = [worker EXCEPT ![w] = u]
    BY <1>b, <1>8, <2>1 DEF Drain, Step
  <2> QED
    BY <1>0, <1>a, <1>8, <2>2 DEF Drain, TaskType
<1>9. ASSUME NEW w \in Workers, Pick(w)
      PROVE  TaskType'
  <2>1. \A e \in Entries : /\ Task("exec", e, Unset, "running", <<>>) \in Tasks
                           /\ Tracked(e, "Cancelled", <<>>) \in Tasks
                           /\ Tracked(e, "Timeout", <<>>) \in Tasks
    BY <1>c, <1>d DEF Tracked
  <2>2. \E u \in Tasks : worker' = [worker EXCEPT ![w] = u]
    BY <1>9, <2>1 DEF Pick, Step
  <2> QED
    BY <1>0, <1>a, <1>9, <2>2 DEF Pick, TaskType
<1>10. ASSUME NEW w \in Workers, Park(w) \/ Wake(w) \/ Panic(w)
      PROVE  TaskType'
  <2>1. \E u \in Tasks : worker' = [worker EXCEPT ![w] = u]
    BY <1>b, <1>10 DEF Park, Wake, Panic, Step
  <2> QED
    BY <1>0, <1>a, <1>10, <2>1 DEF Park, Wake, Panic, TaskType
<1>11. ASSUME NEW w \in Workers, ExecutorAnswers(w) \/ ExecutionTimesOut(w) \/
             ExecutionCancelled(w)
      PROVE  TaskType'
  <2>1. worker[w] \in Tasks
    BY <1>0 DEF TaskType
  <2>2. PICK r \in RunResults : Ran(w, r)
    BY <1>11 DEF ExecutorAnswers, ExecutionTimesOut, ExecutionCancelled, Interrupted
  <2>3. [worker[w] EXCEPT !.pc = "settle", !.res = r]
          = Task("settle", worker[w].entry, r, worker[w].kept, worker[w].todo)
    BY <2>1, TaskEdits
  <2>4. Task("settle", worker[w].entry, r, worker[w].kept, worker[w].todo) \in Tasks
    BY <1>c, <1>e, <2>1
  <2>5. \E u \in Tasks : worker' = [worker EXCEPT ![w] = u]
    BY <2>2, <2>3, <2>4 DEF Ran, Step
  <2> QED
    BY <1>0, <1>a, <2>2, <2>5 DEF Ran, TaskType
<1>12. ASSUME NEW w \in Workers, SettleEntry(w)
      PROVE  TaskType'
  <2>1. worker[w] \in Tasks
    BY <1>0 DEF TaskType
  <2>2. \A p \in {"loop", "adopt"} : Task(p, None, Unset, "nowhere", worker[w].todo) \in Tasks
    BY <1>c, <1>e, <2>1
  <2>3. \E u \in Tasks : worker' = [worker EXCEPT ![w] = u]
    BY <1>12, <2>2 DEF SettleEntry, Step
  <2> QED
    BY <1>0, <1>a, <1>12, <2>3 DEF SettleEntry, TaskType
<1>13. ASSUME SupervisorRestarts
      PROVE  TaskType'
  BY <1>0, <1>a, <1>b, <1>13 DEF SupervisorRestarts, EnsureWorker, TaskType
<1>14. ASSUME ShutdownQueue
      PROVE  TaskType'
  BY <1>0, <1>b, <1>14 DEF ShutdownQueue, TaskType
<1>15. ASSUME JoinTakes
      PROVE  TaskType'
  <2>1. handle # None => Task("waiting", handle, Unset, "nowhere", <<>>) \in Tasks
    BY <1>0, <1>c, <1>d DEF TaskType
  <2> QED
    BY <1>0, <1>b, <1>15, <2>1 DEF JoinTakes, TaskType
<1>16. ASSUME JoinReturns
      PROVE  TaskType'
  BY <1>0, <1>b, <1>16 DEF JoinReturns, TaskType
<1>17. ASSUME JoinAbandons
      PROVE  TaskType'
  <2> DEFINE all == waiting[0] \o waiting[1] \o waiting[2] \o waiting[3] \o draining
  <2>1. all \in Seq(Entries)
    BY <1>0, DrainedFacts
  <2>2. join' = Task("next", running, Unset, "nowhere", all)
    BY <1>17 DEF JoinAbandons
  <2> HIDE DEF all
  <2>3. join' \in Tasks
    BY <1>c, <1>d, <2>1, <2>2
  <2>4. worker' \in [Workers -> Tasks]
    BY <1>0, <1>b, <1>17 DEF JoinAbandons, TaskType
  <2> QED
    BY <1>0, <1>17, <2>3, <2>4 DEF JoinAbandons, TaskType
<1>18. ASSUME JoinNext
      PROVE  TaskType'
  <2>1. join \in Tasks
    BY <1>0 DEF TaskType
  <2>2. PICK t : t = join.todo
    OBVIOUS
  <2>3. t \in Seq(Entries) /\ (t # <<>> => Head(t) \in Entries /\ Tail(t) \in Seq(Entries))
    BY <1>d, <1>e, <2>1, <2>2
  <2>4. /\ \A x \in Seq(Entries) : [join EXCEPT !.todo = x] \in Tasks
        /\ [join EXCEPT !.entry = None] \in Tasks
    BY <2>1 DEF Tasks
  <2>5. [join EXCEPT !.pc = "settle", !.res = "Indeterminate"] \in Tasks
    <3>1. [join EXCEPT !.pc = "settle", !.res = "Indeterminate"]
            = Task("settle", join.entry, "Indeterminate", join.kept, join.todo)
      BY <2>1, TaskEdits
    <3> QED
      BY <1>c, <1>e, <2>1, <3>1
  <2>6. t # <<>> => Task("settle", Head(t), "Cancelled", "nowhere", Tail(t)) \in Tasks
    BY <1>c, <2>3
  <2>7. t # <<>> => [join EXCEPT !.todo = Tail(t)] \in Tasks
    BY <2>3, <2>4
  <2> QED
    BY <1>0, <1>b, <1>18, <2>2, <2>4, <2>5, <2>6, <2>7 DEF JoinNext, TaskType
<1>19. ASSUME JoinSettle
      PROVE  TaskType'
  <2>1. Task("next", None, Unset, "nowhere", join.todo) \in Tasks
    BY <1>0, <1>c, <1>e DEF TaskType
  <2> QED
    BY <1>0, <1>19, <2>1 DEF JoinSettle, TaskType
<1>20. CASE UNCHANGED vars
  BY <1>1, <1>20 DEF vars
<1> QED
  BY <1>1, <1>2, <1>3, <1>4, <1>5, <1>6, <1>7, <1>8, <1>9, <1>10, <1>11, <1>12, <1>13,
     <1>14, <1>15, <1>16, <1>17, <1>18, <1>19, <1>20 DEF Next, WorkerStep, JoinStep

(* Every step keeps the types of the entries. *)
LEMMA DataTypeStep ==
  ASSUME IInv, [Next]_vars
  PROVE  DataType'
<1> USE QueueAssumption
<1>0. /\ TypeInv /\ ShapeInv /\ TouchInv /\ DataType
  BY TypeParts DEF IInv
<1>1. CASE UNCHANGED <<call, running, draining, cancelled, expired, boost, started, reply, panics>>
  BY <1>0, <1>1 DEF DataType
<1>2. ASSUME NEW w \in Workers, Park(w) \/ Wake(w) \/ ExecutorAnswers(w) \/
             ExecutionTimesOut(w) \/ ExecutionCancelled(w)
      PROVE  UNCHANGED <<call, running, draining, cancelled, expired, boost, started, reply, panics>>
  BY <1>2 DEF Park, Wake, ExecutorAnswers, ExecutionTimesOut, ExecutionCancelled, Ran,
     lockVars, envVars
<1>3. ASSUME CooldownEnds \/ SupervisorSees \/ SupervisorRestarts \/ ShutdownEngine \/
             ShutdownQueue \/ JoinTakes \/ JoinReturns \/ JoinNext
      PROVE  UNCHANGED <<call, running, draining, cancelled, expired, boost, started, reply, panics>>
  BY <1>3 DEF CooldownEnds, SupervisorSees, SupervisorRestarts, ShutdownEngine,
     ShutdownQueue, JoinTakes, JoinReturns, JoinNext, lockVars, envVars
<1>4. ASSUME NEW e \in Entries, Enqueue(e) \/ EnqueueNotify(e) \/ Cancel(e) \/ Expire(e)
      PROVE  DataType'
  BY <1>0, <1>4 DEF Enqueue, EnqueueNotify, Cancel, Expire, lockVars, envVars, DataType
<1>5. ASSUME NEW e \in Entries, Age(e)
      PROVE  DataType'
  <2>1. Prio[e] \in 0 .. 3 /\ boost[e] \in 0 .. 3 /\ boost[e] < 3 - Prio[e]
    BY <1>0, <1>5 DEF DataType, Age
  <2>2. boost[e] + 1 \in 0 .. 3 /\ boost[e] + 1 \in 0 .. (3 - Prio[e])
    BY <2>1
  <2>3. boost' = [boost EXCEPT ![e] = boost[e] + 1]
    BY <1>5 DEF Age
  <2> QED
    BY <1>0, <1>5, <2>2, <2>3 DEF Age, DataType, lockVars
<1>6. ASSUME NEW e \in Entries, Renew(e)
      PROVE  DataType'
  <2>1. 0 \in 0 .. (3 - Prio[e]) /\ 0 \in 0 .. 3
    <3>1. Prio[e] \in 0 .. 3
      OBVIOUS
    <3> QED
      BY <3>1
  <2> QED
    BY <1>0, <1>6, <2>1 DEF Renew, DataType, lockVars
<1>7. ASSUME NEW w \in Workers, Adopt(w)
      PROVE  DataType'
  <2>1. UNCHANGED <<call, cancelled, expired, boost, started, reply, panics>> /\ running' = None
    BY <1>7 DEF Adopt, envVars
  <2>2. draining' \in Seq(Entries)
    <3>1. draining' = <<>> \/ \E e \in Entries : draining' = <<e>>
      BY <1>0, <1>7, AdoptDoes
    <3>2. \A e \in Entries : <<e>> \in Seq(Entries)
      OBVIOUS
    <3>3. <<>> \in Seq(Entries)
      OBVIOUS
    <3> QED
      BY <3>1, <3>2, <3>3
  <2> QED
    BY <1>0, <2>1, <2>2 DEF DataType
<1>8. ASSUME NEW w \in Workers, AdoptNext(w)
      PROVE  DataType'
  <2>1. UNCHANGED <<call, running, cancelled, expired, boost, started, reply, panics>>
    BY <1>8 DEF AdoptNext, envVars
  <2>2. draining' = draining \/ \E e \in Entries : draining' = Append(draining, e)
    BY <1>0, <1>8, AdoptNextDoes
  <2>3. draining' \in Seq(Entries)
    <3>1. draining \in Seq(Entries) /\ \A e \in Entries : Append(draining, e) \in Seq(Entries)
      BY <1>0, InAppend DEF DataType
    <3> QED
      BY <2>2, <3>1
  <2> QED
    BY <1>0, <2>1, <2>3 DEF DataType
<1>9. ASSUME NEW w \in Workers, Drain(w)
      PROVE  DataType'
  <2>1. UNCHANGED <<call, running, cancelled, expired, boost, started, reply, panics>>
    BY <1>9 DEF Drain, envVars
  <2>2. draining' \in Seq(Entries)
    BY <1>0, <1>9, DrainDoes
  <2> QED
    BY <1>0, <2>1, <2>2 DEF DataType
<1>10. ASSUME NEW w \in Workers, Pick(w)
      PROVE  DataType'
  <2>1. UNCHANGED <<call, cancelled, expired, boost, started, reply, panics>>
    BY <1>10 DEF Pick, envVars
  <2>2. PICK e \in Entries : /\ running' = e \/ running' = running
                             /\ draining' = draining \/ draining' = Append(draining, e)
    BY <1>0, <1>10, PickDoes
  <2>3. draining' \in Seq(Entries)
    <3>1. draining \in Seq(Entries) /\ Append(draining, e) \in Seq(Entries)
      BY <1>0, InAppend DEF DataType
    <3> QED
      BY <2>2, <3>1
  <2> QED
    BY <1>0, <2>1, <2>2, <2>3 DEF DataType
<1>11. ASSUME NEW w \in Workers, StartExecutor(w)
      PROVE  DataType'
  BY <1>0, <1>11 DEF StartExecutor, lockVars, envVars, DataType, ShapeInv, WorkerShape
<1>12. ASSUME NEW w \in Workers, SettleEntry(w)
      PROVE  DataType'
  <2>1. UNCHANGED <<call, cancelled, expired, boost, started, panics>>
    BY <1>12 DEF SettleEntry, envVars
  <2>2. /\ reply' \in [Entries -> RunResults \cup {Unset}] /\ draining' \in Seq(Entries)
        /\ running' \in {running, None}
    BY <1>0, <1>12, SettleDoes
  <2> QED
    BY <1>0, <2>1, <2>2 DEF DataType
<1>13. ASSUME NEW w \in Workers, Panic(w)
      PROVE  DataType'
  BY <1>0, <1>13 DEF Panic, lockVars, envVars, DataType
<1>14. ASSUME JoinAbandons
      PROVE  DataType'
  <2>1. UNCHANGED <<call, cancelled, expired, boost, started, reply, panics>>
    BY <1>14 DEF JoinAbandons, envVars
  <2>2. running' = None /\ draining' \in Seq(Entries)
    BY <1>14 DEF JoinAbandons
  <2> QED
    BY <1>0, <2>1, <2>2 DEF DataType
<1>15. ASSUME JoinSettle
      PROVE  DataType'
  <2>1. UNCHANGED <<call, running, draining, cancelled, expired, boost, started, panics>>
    BY <1>15 DEF JoinSettle, envVars, lockVars
  <2>2. reply' \in [Entries -> RunResults \cup {Unset}]
    BY <1>0, <1>15, JoinSettleDoes
  <2> QED
    BY <1>0, <2>1, <2>2 DEF DataType
<1>16. CASE UNCHANGED vars
  BY <1>1, <1>16 DEF vars
<1> QED
  BY <1>1, <1>2, <1>3, <1>4, <1>5, <1>6, <1>7, <1>8, <1>9, <1>10, <1>11, <1>12, <1>13,
     <1>14, <1>15, <1>16 DEF Next, WorkerStep, JoinStep

(* Every step keeps the types of the switches. *)
LEMMA SwitchTypeStep ==
  ASSUME IInv, [Next]_vars
  PROVE  SwitchType'
<1>0. SwitchType
  BY TypeParts DEF IInv
<1>1. CASE UNCHANGED <<closed, flag, cooldown, permit, wake, late>>
  BY <1>0, <1>1 DEF SwitchType
<1>2. ASSUME NEW e \in Entries, Enqueue(e) \/ Expire(e) \/ Age(e) \/ Renew(e)
      PROVE  UNCHANGED <<closed, flag, cooldown, permit, wake, late>>
  BY <1>2 DEF Enqueue, Expire, Age, Renew, lockVars
<1>3. ASSUME NEW w \in Workers, Adopt(w) \/ AdoptNext(w) \/ Pick(w) \/ Park(w) \/
             StartExecutor(w) \/ SettleEntry(w) \/ Panic(w)
      PROVE  UNCHANGED <<closed, flag, cooldown, permit, wake, late>>
  BY <1>3 DEF Adopt, AdoptNext, Pick, Park, StartExecutor, SettleEntry, Panic, lockVars
<1>4. ASSUME JoinTakes \/ JoinReturns \/ JoinNext \/ JoinSettle
      PROVE  UNCHANGED <<closed, flag, cooldown, permit, wake, late>>
  BY <1>4 DEF JoinTakes, JoinReturns, JoinNext, JoinSettle, lockVars
<1>5. ASSUME NEW e \in Entries, EnqueueNotify(e)
      PROVE  SwitchType'
  BY <1>0, <1>5, Zenon DEF EnqueueNotify, EnsureWorker, lockVars, SwitchType
<1>6. ASSUME NEW e \in Entries, Cancel(e)
      PROVE  SwitchType'
  BY <1>0, <1>6, Zenon DEF Cancel, lockVars, SwitchType
<1>7. ASSUME CooldownEnds
      PROVE  SwitchType'
  BY <1>0, <1>7, Zenon DEF CooldownEnds, lockVars, SwitchType
<1>8. ASSUME NEW w \in Workers, Drain(w)
      PROVE  SwitchType'
  BY <1>0, <1>8, Zenon DEF Drain, lockVars, SwitchType
<1>9. ASSUME NEW w \in Workers, Wake(w)
      PROVE  SwitchType'
  BY <1>0, <1>9, Zenon DEF Wake, lockVars, SwitchType
<1>10. ASSUME NEW w \in Workers, ExecutorAnswers(w)
      PROVE  SwitchType'
  BY <1>0, <1>10, Zenon DEF ExecutorAnswers, Ran, lockVars, SwitchType
<1>11. ASSUME NEW w \in Workers, ExecutionTimesOut(w)
      PROVE  SwitchType'
  BY <1>0, <1>11, Zenon DEF ExecutionTimesOut, Ran, lockVars, SwitchType
<1>12. ASSUME NEW w \in Workers, ExecutionCancelled(w)
      PROVE  SwitchType'
  BY <1>0, <1>12, Zenon DEF ExecutionCancelled, Ran, lockVars, SwitchType
<1>13. ASSUME SupervisorSees
      PROVE  SwitchType'
  BY <1>0, <1>13, Zenon DEF SupervisorSees, lockVars, SwitchType
<1>14. ASSUME SupervisorRestarts
      PROVE  SwitchType'
  BY <1>0, <1>14, Zenon DEF SupervisorRestarts, EnsureWorker, lockVars, SwitchType
<1>15. ASSUME ShutdownEngine
      PROVE  SwitchType'
  BY <1>0, <1>15, Zenon DEF ShutdownEngine, lockVars, SwitchType
<1>16. ASSUME ShutdownQueue
      PROVE  SwitchType'
  BY <1>0, <1>16, Zenon DEF ShutdownQueue, lockVars, SwitchType
<1>17. ASSUME JoinAbandons
      PROVE  SwitchType'
  BY <1>0, <1>17, Zenon DEF JoinAbandons, lockVars, SwitchType
<1>18. CASE UNCHANGED vars
  BY <1>1, <1>18 DEF vars
<1> QED
  BY <1>1, <1>2, <1>3, <1>4, <1>5, <1>6, <1>7, <1>8, <1>9, <1>10, <1>11, <1>12, <1>13,
     <1>14, <1>15, <1>16, <1>17, <1>18 DEF Next, WorkerStep, JoinStep

(* Every step keeps the types. *)
LEMMA TypeStep ==
  ASSUME IInv, [Next]_vars
  PROVE  TypeInv'
<1>1. TouchInv'
  BY TouchStep
<1>2. WaitType' /\ TaskType' /\ DataType' /\ SwitchType'
  BY WaitTypeStep, TaskTypeStep, DataTypeStep, SwitchTypeStep
<1>3. (TypeInv <=> WaitType /\ TaskType /\ DataType /\ SwitchType)'
  BY <1>1 DEF TypeInv, TypeOK, WaitType, WaitOK, TaskType, DataType, SwitchType, TouchInv
<1> QED
  BY <1>2, <1>3

-----------------------------------------------------------------------------
(* The theorems *)

(* The initial state. *)
LEMMA QueueInit ==
  ASSUME Init
  PROVE  IInv
<1> USE QueueAssumption DEF Init
<1>1. WaitOK /\ Queued = {}
  <2>1. \A p \in Prios : waiting[p] = <<>> /\ DOMAIN waiting[p] = {}
    OBVIOUS
  <2> QED
    BY <2>1 DEF WaitOK, Queued
<1>2. IsFiniteSet(Queued) /\ Cardinality(Queued) <= Capacity
  BY <1>1, FS_EmptySet
<1>3. At("none") \in Tasks /\ <<>> \in Seq(Entries)
  BY TaskMember
<1>4. /\ At("none").pc = "none" /\ At("none").entry = None /\ At("none").todo = <<>>
  BY TaskFields DEF At
<1>5. \A e \in Entries : boost[e] \in 0 .. (3 - Prio[e]) /\ boost[e] \in 0 .. 3
  <2>1. ASSUME NEW e \in Entries PROVE 0 \in 0 .. (3 - Prio[e]) /\ 0 \in 0 .. 3
    <3>1. Prio[e] \in 0 .. 3
      OBVIOUS
    <3> QED
      BY <3>1
  <2> QED
    BY <2>1
<1>6. SwitchType
  BY Zenon DEF SwitchType
<1>7. DataType
  BY <1>3, <1>5 DEF DataType, Unset
<1>8. TaskType
  BY <1>3 DEF TaskType
<1>9. ShapeInv
  BY <1>4 DEF ShapeInv, WorkerShape, JoinShape
<1>10. OwnerInv
  BY <1>4 DEF OwnerInv, Finished
<1>11. TouchInv
  <2>1. ASSUME NEW e \in Entries PROVE Untouched(e)
    BY <1>4, InEmpty DEF Untouched, IsSet
  <2> QED
    BY <1>1, <2>1 DEF TouchInv, WaitOK
<1>12. TypeInv
  BY <1>1, <1>2, <1>6, <1>7, <1>8, <1>11, TypeParts DEF WaitType
<1>13. HandInv
  <2>1. Len(draining) <= 1
    BY ShortSeq
  <2> QED
    BY <1>4, <2>1 DEF HandInv, HandOK, Quiet
<1>14. KeptInv
  BY DEF KeptInv, Open
<1>15. CalmInv
  BY <1>4 DEF CalmInv, CalmWorker
<1> QED
  BY <1>9, <1>10, <1>11, <1>12, <1>13, <1>14, <1>15 DEF IInv

(* The inductive invariant holds in every reachable state of the queue. *)
THEOREM QueueInvariant == Spec => []IInv
<1>1. Init => IInv
  BY QueueInit
<1>2. IInv /\ [Next]_vars => IInv'
  BY TypeStep, ShapeStep, OwnerStep, TouchStep, HandStep, KeptStep, CalmStep DEF IInv
<1> QED
  BY <1>1, <1>2, PTL DEF Spec

(* Every variable of the queue keeps its type, what waits is in the FIFO of
   its priority, and there is never more of it than queue_capacity.          *)
THEOREM QueueTypes == Spec => []TypeOK
<1>1. IInv => TypeOK
  BY DEF IInv, TypeInv
<1> QED
  BY <1>1, QueueInvariant, PTL

(* Never two worker tasks execute on the device, however often workers die
   and are restarted by the supervisor or by an enqueue, and also when one is
   spawned during the shutdown (ensure_worker, worker_loop).                 *)
THEOREM OneAtATime == Spec => []Serial
<1>1. IInv => Serial
  BY OwnersAreSerial
<1> QED
  BY <1>1, QueueInvariant, PTL

(* No accepted entry without reply is lost, whichever task dies or is aborted
   at whichever await, unless a worker was spawned after the shutdown began
   (QueueInner.draining, settle_tracked, settle_abandoned).                  *)
THEOREM AcceptedIsKept == Spec => []NothingLost
<1>1. IInv => NothingLost
  BY KeptIsHeld
<1> QED
  BY <1>1, QueueInvariant, PTL

(* A reply Cancelled or Timeout is never given to an entry the executor saw,
   as long as no worker died or was spawned late (run_entry).                *)
THEOREM RepliesAreTrue == Spec => []NeverDenied
<1>1. IInv => NeverDenied
  BY CalmIsTrue
<1> QED
  BY <1>1, QueueInvariant, PTL

-----------------------------------------------------------------------------
(* One life for each entry *)

(* What is executed or being settled has no reply yet, and neither has the
   entry the final drain settles next.                                       *)
AnswerOK(w) ==
    /\ worker[w].pc \in {"exec", "settle"} => ~IsSet(worker[w].entry)
    /\ worker[w].pc \in {"loop", "parked"} => draining = <<>> \/ ~IsSet(Head(draining))
AnswerInv ==
    ~late => /\ \A w \in Workers : AnswerOK(w)
             /\ join.pc = "settle" => ~IsSet(join.entry)

(* What Popped leaves begins with an entry without reply. *)
LEMMA PoppedHead ==
  ASSUME NEW q \in Seq(Entries), NEW rep
  PROVE  Popped(q, rep) = <<>> \/ rep[Head(Popped(q, rep))] = Unset
<1> DEFINE keep == {i \in DOMAIN q : rep[q[i]] = Unset}
           least == CHOOSE i \in keep : \A j \in keep : i <= j
<1>0. DOMAIN q = 1 .. Len(q) /\ Len(q) \in Nat
  OBVIOUS
<1>1. CASE keep = {}
  <2>1. Popped(q, rep) = SubSeq(q, Len(q) + 1, Len(q))
    BY <1>1 DEF Popped
  <2> QED
    BY <1>0, <2>1
<1>2. CASE keep # {}
  <2>1. Popped(q, rep) = SubSeq(q, (least - 1) + 1, Len(q))
    BY <1>2 DEF Popped
  <2>2. keep \subseteq Nat
    BY <1>0
  <2>3. \E m \in keep : \A j \in keep : m <= j
    <3> HIDE DEF keep
    <3> QED
      BY <1>2, <2>2, LeastExists
  <2>4. least \in keep
    <3> HIDE DEF keep
    <3> QED
      BY <2>3
  <2>5. least \in 1 .. Len(q) /\ rep[q[least]] = Unset
    BY <1>0, <2>4
  <2> HIDE DEF least
  <2>6. Popped(q, rep) = SubSeq(q, least, Len(q))
    BY <1>0, <2>1, <2>5
  <2> HIDE DEF keep
  <2>7. Head(SubSeq(q, least, Len(q))) = q[least]
    BY <1>0, <2>5
  <2> QED
    BY <2>5, <2>6, <2>7
<1> QED
  BY <1>1, <1>2

(* The head of two lists is that of the first, if there is one. *)
LEMMA HeadConcat ==
  ASSUME NEW p \in Seq(Entries), NEW q \in Seq(Entries), p # <<>>
  PROVE  p \o q \in Seq(Entries) /\ p \o q # <<>> /\ Head(p \o q) = Head(p)
OBVIOUS

(* The final drain settles the head of draining, or what waited. *)
LEMMA DrainHead ==
  ASSUME TypeInv, NEW w \in Workers, Drain(w)
  PROVE  \/ Becomes(w, "settle", Head(draining), "Cancelled", "draining", <<>>) /\ draining # <<>>
         \/ \E e \in Queued : Becomes(w, "settle", e, "Cancelled", "draining", <<>>)
         \/ /\ draining' = draining
            /\ \E p \in {"returned", "parked"} : Becomes(w, p, None, Unset, "nowhere", <<>>)
<1>1. CASE Drained = <<>>
  BY <1>1, StepFacts DEF Drain, At
<1>2. CASE Drained # <<>>
  <2>1. Becomes(w, "settle", Head(Drained), "Cancelled", "draining", <<>>)
    BY <1>2, StepFacts DEF Drain, Tracked
  <2>2. /\ Drained \in Seq(Entries)
        /\ \A x : InSeq(x, Drained) <=> InSeq(x, draining) \/ x \in Queued
    BY DrainedFacts
  <2>3. CASE draining = <<>>
    <3>1. InSeq(Head(Drained), Drained)
      BY <1>2, <2>2, InTail
    <3>2. Head(Drained) \in Queued
      BY <2>2, <2>3, <3>1 DEF InSeq
    <3> QED
      BY <2>1, <3>2
  <2>4. CASE draining # <<>>
    <3>0. /\ waiting[0] \in Seq(Entries) /\ waiting[1] \in Seq(Entries)
          /\ waiting[2] \in Seq(Entries) /\ waiting[3] \in Seq(Entries)
          /\ draining \in Seq(Entries)
      BY DEF TypeInv, TypeOK, Prios
    <3>1. PICK a : a = draining \o waiting[0]
      OBVIOUS
    <3>2. a \in Seq(Entries) /\ a # <<>> /\ Head(a) = Head(draining)
      BY <2>4, <3>0, <3>1, HeadConcat
    <3>3. PICK b : b = a \o waiting[1]
      OBVIOUS
    <3>4. b \in Seq(Entries) /\ b # <<>> /\ Head(b) = Head(draining)
      BY <3>0, <3>2, <3>3, HeadConcat
    <3>5. PICK c : c = b \o waiting[2]
      OBVIOUS
    <3>6. c \in Seq(Entries) /\ c # <<>> /\ Head(c) = Head(draining)
      BY <3>0, <3>4, <3>5, HeadConcat
    <3>7. Head(c \o waiting[3]) = Head(draining)
      BY <3>0, <3>6, HeadConcat
    <3>8. Drained = c \o waiting[3]
      BY <3>1, <3>3, <3>5 DEF Drained
    <3> QED
      BY <2>1, <2>4, <3>7, <3>8
  <2> QED
    BY <2>3, <2>4
<1> QED
  BY <1>1, <1>2

(* A spawned worker holds nothing. *)
LEMMA AnswerSpawn ==
  ASSUME TypeInv, AnswerInv, EnsureWorker, UNCHANGED <<draining, reply, join>>
  PROVE  AnswerInv'
<1>1. CASE UNCHANGED <<worker, handle, late>>
  BY <1>1 DEF AnswerInv, AnswerOK, IsSet
<1>2. CASE \E w \in Workers :
              /\ Becomes(w, "spawned", None, Unset, "nowhere", <<>>)
              /\ late' = (late \/ flag)
  <2>1. PICK w \in Workers :
              /\ Becomes(w, "spawned", None, Unset, "nowhere", <<>>)
              /\ late' = (late \/ flag)
    BY <1>2
  <2> SUFFICES ASSUME ~late'
               PROVE  /\ \A v \in Workers : AnswerOK(v)'
                      /\ join'.pc = "settle" => ~IsSet(join.entry)'
    BY DEF AnswerInv
  <2>2. ~late
    BY <2>1
  <2>3. \A v \in Workers \ {w} : AnswerOK(v)'
    BY <2>1, <2>2 DEF AnswerInv, AnswerOK, IsSet, Becomes
  <2>4. AnswerOK(w)'
    BY <2>1 DEF AnswerOK, Becomes
  <2>5. join'.pc = "settle" => ~IsSet(join.entry)'
    BY <2>2 DEF AnswerInv, IsSet
  <2> QED
    BY <2>3, <2>4, <2>5
<1> QED
  BY <1>1, <1>2, SpawnDoes

(* Every step keeps what is executed or settled without a reply. *)
LEMMA AnswerStep ==
  ASSUME IInv, AnswerInv, [Next]_vars
  PROVE  AnswerInv'
<1> USE QueueAssumption DEF At, Tracked, Finished
<1>0. /\ TypeInv /\ ShapeInv /\ TouchInv /\ HandInv /\ draining \in Seq(Entries)
      /\ reply \in [Entries -> RunResults \cup {Unset}]
  BY DEF IInv, TypeInv, TypeOK
<1>a. ~late => \A v, w \in Workers : ~Finished(v) /\ ~Finished(w) => v = w
  BY OthersEnded
<1>b. ~late /\ join.pc \notin {"none", "closing"} =>
         \A v \in Workers : ~Finished(v) => join.pc = "waiting" /\ v = join.entry
  BY OthersEnded
<1>c. \A e \in Entries : e \in Queued => ~IsSet(e)
  BY <1>0 DEF TouchInv, Untouched
<1>d. ASSUME NEW w \in Workers, ~Finished(w), UNCHANGED <<join, late>>,
             \A x \in Entries : x # worker[w].entry => reply'[x] = reply[x],
             \A v \in Workers \ {w} : worker'[v] = worker[v],
             ~late => AnswerOK(w)'
      PROVE  AnswerInv'
  <2> SUFFICES ASSUME ~late
               PROVE  /\ \A v \in Workers : AnswerOK(v)'
                      /\ join.pc = "settle" => ~IsSet(join.entry)'
    BY <1>d DEF AnswerInv
  <2>1. \A v \in Workers \ {w} : AnswerOK(v)'
    BY <1>a, <1>d DEF AnswerOK
  <2>2. join.pc # "settle"
    BY <1>b, <1>d
  <2> QED
    BY <1>d, <2>1, <2>2
<1>1. CASE UNCHANGED <<draining, worker, join, reply, late>>
  BY <1>1 DEF AnswerInv, AnswerOK, IsSet
<1>2. ASSUME NEW e \in Entries, Enqueue(e) \/ Cancel(e) \/ Expire(e) \/ Age(e)
      PROVE  UNCHANGED <<draining, worker, join, reply, late>>
  BY <1>2 DEF Enqueue, Cancel, Expire, Age, lockVars
<1>3. ASSUME NEW w \in Workers, StartExecutor(w)
      PROVE  UNCHANGED <<draining, worker, join, reply, late>>
  BY <1>3 DEF StartExecutor, lockVars
<1>4. ASSUME CooldownEnds \/ SupervisorSees \/ ShutdownEngine
      PROVE  UNCHANGED <<draining, worker, join, reply, late>>
  BY <1>4 DEF CooldownEnds, SupervisorSees, ShutdownEngine, lockVars
<1>5. ASSUME NEW e \in Entries, EnqueueNotify(e)
      PROVE  AnswerInv'
  <2>1. UNCHANGED <<draining, reply, join>> /\ EnsureWorker
    BY <1>5 DEF EnqueueNotify, lockVars
  <2> QED
    BY <1>0, <2>1, AnswerSpawn
<1>6. ASSUME SupervisorRestarts
      PROVE  AnswerInv'
  <2>1. UNCHANGED <<draining, reply, join>> /\ EnsureWorker
    BY <1>6 DEF SupervisorRestarts, lockVars
  <2> QED
    BY <1>0, <2>1, AnswerSpawn
<1>7. ASSUME NEW e \in Entries, Renew(e)
      PROVE  AnswerInv'
  <2>1. /\ UNCHANGED <<draining, worker, join, late>>
        /\ reply' = [reply EXCEPT ![e] = Unset]
    BY <1>7 DEF Renew, lockVars
  <2>2. \A x \in Entries : ~IsSet(x) => ~IsSet(x)'
    BY <1>0, <2>1 DEF IsSet
  <2>3. draining # <<>> => Head(draining) \in Entries
    BY <1>0, InTail
  <2>4. \A v \in Workers : worker[v].pc \in {"exec", "settle"} => worker[v].entry \in Entries
    BY <1>0 DEF ShapeInv, WorkerShape
  <2>5. join.pc = "settle" => join.entry \in Entries
    BY <1>0 DEF ShapeInv, JoinShape
  <2> SUFFICES ASSUME ~late
               PROVE  /\ \A v \in Workers : AnswerOK(v)'
                      /\ join.pc = "settle" => ~IsSet(join.entry)'
    BY <2>1 DEF AnswerInv
  <2>6. ASSUME NEW v \in Workers PROVE AnswerOK(v)'
    <3>1. AnswerOK(v)
      BY DEF AnswerInv
    <3>2. worker[v].pc \in {"exec", "settle"} => ~IsSet(worker[v].entry)'
      <4>1. PICK x : x = worker[v].entry
        OBVIOUS
      <4>2. worker[v].pc \in {"exec", "settle"} => ~IsSet(x)'
        BY <2>2, <2>4, <3>1, <4>1 DEF AnswerOK
      <4> QED
        BY <2>1, <4>1, <4>2 DEF IsSet
    <3>3. worker[v].pc \in {"loop", "parked"} => draining = <<>> \/ ~IsSet(Head(draining))'
      <4>1. PICK x : x = Head(draining)
        OBVIOUS
      <4>2. worker[v].pc \in {"loop", "parked"} => draining = <<>> \/ ~IsSet(x)'
        BY <2>2, <2>3, <3>1, <4>1 DEF AnswerOK
      <4> QED
        BY <2>1, <4>1, <4>2 DEF IsSet
    <3> QED
      BY <2>1, <3>2, <3>3 DEF AnswerOK
  <2>7. join.pc = "settle" => ~IsSet(join.entry)'
    <3>1. PICK x : x = join.entry
      OBVIOUS
    <3>2. join.pc = "settle" => ~IsSet(x)'
      BY <2>2, <2>5, <3>1 DEF AnswerInv
    <3> QED
      BY <2>1, <3>1, <3>2 DEF IsSet
  <2> QED
    BY <2>6, <2>7
<1>8. ASSUME NEW w \in Workers, Adopt(w)
      PROVE  AnswerInv'
  <2>1. AnswerOK(w)'
    BY <1>0, <1>8, AdoptDoes DEF AnswerOK, Becomes, IsSet
  <2> QED
    BY <1>0, <1>8, <1>d, <2>1, AdoptDoes DEF Becomes
<1>9. ASSUME NEW w \in Workers, AdoptNext(w)
      PROVE  AnswerInv'
  <2>0. PICK t : t = worker[w].todo
    OBVIOUS
  <2>1. ASSUME ~late PROVE AnswerOK(w)'
    <3>1. draining = <<>>
      BY <1>0, <1>9, <2>0, <2>1, AdoptNextDoes DEF HandInv, HandOK
    <3> QED
      BY <1>0, <1>9, <2>0, <3>1, AdoptNextDoes DEF AnswerOK, Becomes, IsSet
  <2> QED
    BY <1>0, <1>9, <1>d, <2>0, <2>1, AdoptNextDoes DEF Becomes
<1>10. ASSUME NEW w \in Workers, Drain(w)
      PROVE  AnswerInv'
  <2>0. /\ worker[w].pc = "loop" /\ UNCHANGED <<join, late, reply>>
        /\ \A v \in Workers \ {w} : worker'[v] = worker[v]
    BY <1>0, <1>10, DrainDoes DEF Becomes
  <2>1. ASSUME ~late PROVE AnswerOK(w)'
    <3>1. draining = <<>> \/ ~IsSet(Head(draining))
      BY <2>0, <2>1 DEF AnswerInv, AnswerOK
    <3>2. CASE Becomes(w, "settle", Head(draining), "Cancelled", "draining", <<>>) /\ draining # <<>>
      BY <2>0, <3>1, <3>2 DEF AnswerOK, Becomes, IsSet
    <3>3. CASE \E e \in Queued : Becomes(w, "settle", e, "Cancelled", "draining", <<>>)
      <4>1. PICK e \in Queued : Becomes(w, "settle", e, "Cancelled", "draining", <<>>)
        BY <3>3
      <4>2. e \in Entries
        BY <1>0, <4>1 DEF Queued, TypeInv, TypeOK
      <4> QED
        BY <1>c, <2>0, <4>1, <4>2 DEF AnswerOK, Becomes, IsSet
    <3>4. CASE /\ draining' = draining
               /\ \E p \in {"returned", "parked"} : Becomes(w, p, None, Unset, "nowhere", <<>>)
      BY <2>0, <3>1, <3>4 DEF AnswerOK, Becomes, IsSet
    <3> QED
      BY <1>0, <1>10, <3>2, <3>3, <3>4, DrainHead
  <2> QED
    BY <1>d, <2>0, <2>1
<1>11. ASSUME NEW w \in Workers, Pick(w)
      PROVE  AnswerInv'
  <2>0. /\ worker[w].pc = "loop" /\ UNCHANGED <<join, late, reply>>
        /\ \A v \in Workers \ {w} : worker'[v] = worker[v]
    BY <1>0, <1>11, PickDoes DEF Becomes
  <2>1. AnswerOK(w)'
    BY <1>0, <1>11, <1>c, PickDoes DEF AnswerOK, Becomes, IsSet
  <2> QED
    BY <1>d, <2>0, <2>1
<1>12. ASSUME NEW w \in Workers, Park(w) \/ Wake(w)
      PROVE  AnswerInv'
  <2>1. /\ UNCHANGED <<draining, join, reply, late>> /\ worker[w].pc \in {"loop", "parked"}
        /\ \E p \in {"loop", "parked"} : Becomes(w, p, None, Unset, "nowhere", <<>>)
    BY <1>0, <1>12, StepFacts DEF Park, Wake, lockVars
  <2>2. ~late => AnswerOK(w)'
    BY <2>1 DEF AnswerInv, AnswerOK, IsSet, Becomes
  <2> QED
    BY <1>d, <2>1, <2>2 DEF Becomes
<1>13. ASSUME NEW w \in Workers, ExecutorAnswers(w) \/ ExecutionTimesOut(w) \/
             ExecutionCancelled(w)
      PROVE  AnswerInv'
  <2>1. /\ UNCHANGED <<draining, join, reply, late>> /\ worker[w].pc = "exec"
        /\ worker'[w].pc = "settle" /\ worker'[w].entry = worker[w].entry
        /\ \A v \in Workers \ {w} : worker'[v] = worker[v]
    BY <1>0, <1>13, RanDoes DEF Becomes
  <2>2. ~late => AnswerOK(w)'
    BY <2>1 DEF AnswerInv, AnswerOK, IsSet
  <2> QED
    BY <1>d, <2>1, <2>2
<1>14. ASSUME NEW w \in Workers, SettleEntry(w)
      PROVE  AnswerInv'
  <2>0. PICK e : e = worker[w].entry
    OBVIOUS
  <2>1. /\ worker[w].pc = "settle" /\ UNCHANGED <<join, late>>
        /\ \A x \in Entries : x # e => reply'[x] = reply[x]
        /\ worker'[w].pc \in {"loop", "adopt"}
        /\ \A v \in Workers \ {w} : worker'[v] = worker[v]
        /\ \/ worker[w].kept = "running" /\ draining' = draining
           \/ draining' = Popped(draining, reply')
    BY <1>0, <1>14, <2>0, SettleDoes DEF Becomes
  <2>2. ASSUME ~late PROVE draining' = <<>> \/ ~IsSet(Head(draining))'
    <3>1. CASE worker[w].kept = "running" /\ draining' = draining
      BY <1>0, <2>1, <2>2, <3>1 DEF HandInv, HandOK
    <3>2. CASE draining' = Popped(draining, reply')
      <4>1. PICK rep : rep = reply'
        OBVIOUS
      <4>2. Popped(draining, rep) = <<>> \/ rep[Head(Popped(draining, rep))] = Unset
        BY <1>0, PoppedHead
      <4> QED
        BY <3>2, <4>1, <4>2 DEF IsSet
    <3> QED
      BY <2>1, <3>1, <3>2
  <2>3. ~late => AnswerOK(w)'
    BY <2>1, <2>2 DEF AnswerOK
  <2> QED
    BY <1>d, <2>0, <2>1, <2>3
<1>15. ASSUME NEW w \in Workers, Panic(w)
      PROVE  AnswerInv'
  <2>1. /\ UNCHANGED <<draining, join, reply, late>> /\ worker[w].pc \in {"exec", "settle"}
        /\ Becomes(w, "dead", None, Unset, "nowhere", <<>>)
    BY <1>0, <1>15, StepFacts DEF Panic, lockVars
  <2>2. AnswerOK(w)'
    BY <2>1 DEF AnswerOK, Becomes
  <2> QED
    BY <1>d, <2>1, <2>2 DEF Becomes
<1>16. ASSUME ShutdownQueue \/ JoinTakes \/ JoinReturns
      PROVE  AnswerInv'
  <2>1. UNCHANGED <<draining, worker, reply, late>> /\ join'.pc # "settle"
    BY <1>16, TaskFields DEF ShutdownQueue, JoinTakes, JoinReturns, lockVars
  <2> QED
    BY <2>1 DEF AnswerInv, AnswerOK, IsSet
<1>17. ASSUME JoinNext
      PROVE  AnswerInv'
  <2>0. PICK t : t = join.todo
    OBVIOUS
  <2>1. /\ UNCHANGED <<draining, worker, reply, late>>
        /\ join'.pc = "settle" => ~IsSet(join'.entry)
    BY <1>0, <1>17, <2>0, JoinNextDoes
  <2> QED
    BY <2>1 DEF AnswerInv, AnswerOK, IsSet
<1>18. ASSUME JoinSettle
      PROVE  AnswerInv'
  <2>0. PICK e : e = join.entry
    OBVIOUS
  <2>1. /\ UNCHANGED <<worker, late>> /\ join.pc = "settle" /\ join'.pc = "next"
    BY <1>0, <1>18, <2>0, JoinSettleDoes
  <2>2. ~late => \A v \in Workers : Finished(v)
    BY <1>b, <2>1
  <2> QED
    BY <2>1, <2>2 DEF AnswerInv, AnswerOK
<1>19. ASSUME JoinAbandons
      PROVE  AnswerInv'
  <2>1. PICK w \in Workers :
           /\ join.pc = "waiting" /\ UNCHANGED late /\ join'.pc = "next"
           /\ w = join.entry /\ worker'[w].pc \in {"dead", "aborted"}
           /\ \A v \in Workers \ {w} : worker'[v] = worker[v]
    BY <1>0, <1>19, AbandonDoes
  <2>2. ~late => \A v \in Workers : worker'[v].pc \in {"none", "returned", "aborted", "dead"}
    BY <1>b, <2>1
  <2> QED
    BY <2>1, <2>2 DEF AnswerInv, AnswerOK
<1>20. CASE UNCHANGED vars
  BY <1>1, <1>20 DEF vars
<1> QED
  BY <1>1, <1>2, <1>3, <1>4, <1>5, <1>6, <1>7, <1>8, <1>9, <1>10, <1>11, <1>12, <1>13,
     <1>14, <1>15, <1>16, <1>17, <1>18, <1>19, <1>20 DEF Next, WorkerStep, JoinStep

(* What a step does to the replies, and whom a worker takes up. *)
LEMMA LifeStep ==
  ASSUME IInv, AnswerInv, [Next]_vars, ~late
  PROVE  /\ \A x \in Entries : IsSet(x) => reply'[x] = reply[x] \/ call'[x] = "idle"
         /\ \A v \in Workers : worker[v].pc # "exec" /\ worker'[v].pc = "exec" =>
               worker'[v].entry \notin started /\ ~IsSet(worker'[v].entry)
<1> DEFINE Stands == \A x \in Entries : IsSet(x) => reply'[x] = reply[x] \/ call'[x] = "idle"
           Fresh == \A v \in Workers : worker[v].pc # "exec" /\ worker'[v].pc = "exec" =>
                       worker'[v].entry \notin started /\ ~IsSet(worker'[v].entry)
<1> SUFFICES Stands /\ Fresh
  OBVIOUS
<1>0. /\ TypeInv /\ ShapeInv /\ TouchInv /\ call \in [Entries -> {"idle", "pushed", "in"}]
      /\ reply \in [Entries -> RunResults \cup {Unset}]
  BY DEF IInv, TypeInv, TypeOK
<1>1. CASE UNCHANGED <<worker, reply>>
  BY <1>1
<1>2. ASSUME NEW e \in Entries, Enqueue(e) \/ Cancel(e) \/ Expire(e) \/ Age(e)
      PROVE  UNCHANGED <<worker, reply>>
  BY <1>2 DEF Enqueue, Cancel, Expire, Age
<1>3. ASSUME NEW w \in Workers, StartExecutor(w)
      PROVE  UNCHANGED <<worker, reply>>
  BY <1>3 DEF StartExecutor
<1>4. ASSUME CooldownEnds \/ SupervisorSees \/ ShutdownEngine \/ ShutdownQueue \/ JoinTakes
             \/ JoinReturns \/ JoinNext
      PROVE  UNCHANGED <<worker, reply>>
  BY <1>4 DEF CooldownEnds, SupervisorSees, ShutdownEngine, ShutdownQueue, JoinTakes,
     JoinReturns, JoinNext
<1>5. ASSUME (\E e \in Entries : EnqueueNotify(e)) \/ SupervisorRestarts
      PROVE  Stands /\ Fresh
  <2>1. UNCHANGED reply /\ EnsureWorker
    BY <1>5 DEF EnqueueNotify, SupervisorRestarts
  <2>2. UNCHANGED worker \/ \E w \in Workers : Becomes(w, "spawned", None, Unset, "nowhere", <<>>)
    BY <1>0, <2>1, SpawnDoes
  <2> QED
    BY <2>1, <2>2 DEF Becomes
<1>6. ASSUME NEW e \in Entries, Renew(e)
      PROVE  Stands /\ Fresh
  <2>1. /\ UNCHANGED worker /\ reply' = [reply EXCEPT ![e] = Unset]
        /\ call' = [call EXCEPT ![e] = "idle"]
    BY <1>6 DEF Renew
  <2>2. Stands
    BY <1>0, <2>1
  <2> QED
    BY <2>1, <2>2
<1>7. ASSUME NEW w \in Workers, Adopt(w) \/ AdoptNext(w) \/ Drain(w)
      PROVE  Stands /\ Fresh
  <2>1. UNCHANGED reply /\ worker'[w].pc # "exec" /\ \A v \in Workers \ {w} : worker'[v] = worker[v]
    <3>1. PICK t : t = worker[w].todo
      OBVIOUS
    <3> QED
      BY <1>0, <1>7, <3>1, AdoptDoes, AdoptNextDoes, DrainDoes DEF Becomes
  <2> QED
    BY <2>1
<1>8. ASSUME NEW w \in Workers, Pick(w)
      PROVE  Stands /\ Fresh
  <2>1. PICK e \in Entries :
           /\ e \in Queued
           /\ worker'[w].entry = e /\ \A v \in Workers \ {w} : worker'[v] = worker[v]
    BY <1>0, <1>8, PickDoes DEF Becomes
  <2>2. UNCHANGED reply /\ ~IsSet(e) /\ e \notin started
    BY <1>0, <1>8, <2>1, PickDoes DEF TouchInv, Untouched
  <2> QED
    BY <2>1, <2>2
<1>9. ASSUME NEW w \in Workers, Park(w) \/ Wake(w) \/ Panic(w)
      PROVE  Stands /\ Fresh
  <2>1. /\ UNCHANGED reply
        /\ \E p \in {"loop", "parked", "dead"} : Becomes(w, p, None, Unset, "nowhere", <<>>)
    BY <1>0, <1>9, StepFacts DEF Park, Wake, Panic, At
  <2> QED
    BY <2>1 DEF Becomes
<1>10. ASSUME NEW w \in Workers, ExecutorAnswers(w) \/ ExecutionTimesOut(w) \/
             ExecutionCancelled(w)
      PROVE  Stands /\ Fresh
  BY <1>0, <1>10, RanDoes DEF Becomes
<1>11. ASSUME NEW w \in Workers, SettleEntry(w)
      PROVE  Stands /\ Fresh
  <2>0. PICK e : e = worker[w].entry
    OBVIOUS
  <2>1. /\ worker[w].pc = "settle" /\ \A x \in Entries : x # e => reply'[x] = reply[x]
        /\ worker'[w].pc # "exec" /\ \A v \in Workers \ {w} : worker'[v] = worker[v]
    BY <1>0, <1>11, <2>0, SettleDoes DEF Becomes
  <2>2. ~IsSet(e)
    BY <2>0, <2>1 DEF AnswerInv, AnswerOK
  <2> QED
    BY <2>1, <2>2
<1>12. ASSUME JoinSettle
      PROVE  Stands /\ Fresh
  <2>0. PICK e : e = join.entry
    OBVIOUS
  <2>1. /\ UNCHANGED worker /\ join.pc = "settle"
        /\ \A x \in Entries : x # e => reply'[x] = reply[x]
    BY <1>0, <1>12, <2>0, JoinSettleDoes
  <2>2. ~IsSet(e)
    BY <2>0, <2>1 DEF AnswerInv
  <2> QED
    BY <2>1, <2>2
<1>13. ASSUME JoinAbandons
      PROVE  Stands /\ Fresh
  <2>1. PICK w : w = join.entry
    OBVIOUS
  <2>2. UNCHANGED reply /\ worker'[w].pc # "exec" /\ \A v \in Workers \ {w} : worker'[v] = worker[v]
    BY <1>0, <1>13, <2>1, AbandonDoes
  <2> QED
    BY <2>2
<1>14. CASE UNCHANGED vars
  BY <1>1, <1>14 DEF vars
<1> QED
  BY <1>1, <1>2, <1>3, <1>4, <1>5, <1>6, <1>7, <1>8, <1>9, <1>10, <1>11, <1>12, <1>13,
     <1>14 DEF Next, WorkerStep, JoinStep

(* A worker executes only what was never started and never answered, and no
   reply is overwritten by the worker that drains, by the one that replaces
   it or by join, as long as none was spawned after the shutdown began
   (settle_tracked, worker_loop, settle_abandoned).                          *)
THEOREM EntriesLiveOnce == Spec => OneLife
<1>1. Init => AnswerInv
  <2>1. At("none").pc = "none"
    BY TaskFields DEF At
  <2> QED
    BY <2>1 DEF Init, AnswerInv, AnswerOK
<1>2. IInv /\ AnswerInv /\ [Next]_vars => AnswerInv'
  BY AnswerStep
<1>3. IInv /\ AnswerInv /\ [Next]_vars =>
        [~late =>
           /\ \A e \in Entries : IsSet(e) => reply'[e] = reply[e] \/ call'[e] = "idle"
           /\ \A w \in Workers : worker[w].pc # "exec" /\ worker'[w].pc = "exec" =>
                 worker'[w].entry \notin started /\ ~IsSet(worker'[w].entry)]_vars
  BY LifeStep
<1> QED
  BY <1>1, <1>2, <1>3, QueueInvariant, PTL DEF Spec, OneLife
=============================================================================
