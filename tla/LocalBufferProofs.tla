------------------------- MODULE LocalBufferProofs -------------------------
(***************************************************************************)
(* Proofs about LocalBuffer, for every number of callers, messages, rows,  *)
(* every window and disk size and every number of faults, in three parts:  *)
(* types and what the operators return; the inductive invariant of the     *)
(* window over the database and of the rows in flight; the back pressure,  *)
(* where the byte counter follows the rows on disk and every blocked push  *)
(* keeps its place in the waiting queue.                                   *)
(***************************************************************************)
EXTENDS LocalBuffer, TLAPS, SequenceTheorems, FiniteSetTheorems

(* A strictly ascending sequence of numbers. *)
Ascends(q) == \A i, j \in DOMAIN q : i < j => q[i] < q[j]

-----------------------------------------------------------------------------
(* Sequences and finite sets *)

(* Sets of row numbers are finite. *)
LEMMA SeqsFinite ==
  ASSUME NEW S \in SUBSET Seqs
  PROVE  IsFiniteSet(S) /\ Cardinality(S) \in Nat
<1>1. MaxSeq \in Int
  BY BoundsAssumption
<1>2. IsFiniteSet(Seqs)
  BY <1>1, FS_Interval DEF Seqs
<1> QED
  BY <1>2, FS_Subset, FS_CardinalityType

(* Ascending(S): the elements of S from the lowest to the highest. *)
LEMMA AscendingProperties ==
  ASSUME NEW S, IsFiniteSet(S), NEW f \in Ascending(S)
  PROVE  /\ f \in Seq(S)
         /\ Len(f) = Cardinality(S)
         /\ Range(f) = S
         /\ Ascends(f)
<1>1. Cardinality(S) \in Nat
  BY FS_CardinalityType
<1>2. f \in [1 .. Cardinality(S) -> S]
  BY DEF Ascending
<1>3. f \in Seq(S)
  BY <1>1, <1>2
<1>4. Len(f) = Cardinality(S)
  BY <1>1, <1>2, <1>3
<1>5. Range(f) = S
  BY <1>2 DEF Range, Ascending
<1>6. Ascends(f)
  BY DEF Ascends, Ascending
<1> QED
  BY <1>3, <1>4, <1>5, <1>6

(* Without(q, S): the elements of q outside S, in order. *)
LEMMA WithoutProperties ==
  ASSUME NEW T, NEW q \in Seq(T), NEW S, NEW r \in Without(q, S)
  PROVE  /\ r \in Seq(T)
         /\ Range(r) = Range(q) \ S
         /\ Len(r) <= Len(q)
         /\ T \subseteq Int /\ Ascends(q) => Ascends(r)
<1> DEFINE K == {i \in DOMAIN q : q[i] \notin S}
<1>1. Len(q) \in Nat /\ DOMAIN q = 1 .. Len(q)
  OBVIOUS
<1>2. IsFiniteSet(DOMAIN q) /\ Cardinality(DOMAIN q) = Len(q)
  BY <1>1, FS_Interval
<1>3. IsFiniteSet(K) /\ Cardinality(K) <= Len(q) /\ Cardinality(K) \in Nat
  BY <1>2, FS_Subset, FS_CardinalityType
<1>4. PICK f \in Ascending(K) : r = [i \in DOMAIN f |-> q[f[i]]]
  BY DEF Without
<1>4a. \A k \in K : k \in DOMAIN q /\ q[k] \notin S
  OBVIOUS
<1>4b. \A k \in DOMAIN q : q[k] \notin S => k \in K
  OBVIOUS
<1> HIDE DEF K
<1>5. f \in Seq(K) /\ Len(f) = Cardinality(K) /\ Range(f) = K /\ Ascends(f)
  BY <1>3, <1>4, AscendingProperties
<1>6. DOMAIN f = 1 .. Cardinality(K) /\ \A i \in DOMAIN f : f[i] \in K
  BY <1>3, <1>4 DEF Ascending
<1>7. r \in Seq(T) /\ Len(r) = Cardinality(K) /\ DOMAIN r = DOMAIN f
  <2>1. \A i \in DOMAIN f : r[i] \in T
    BY <1>1, <1>4, <1>4a, <1>6
  <2>2. r \in [1 .. Cardinality(K) -> T]
    BY <2>1, <1>4, <1>6
  <2> QED
    BY <2>2, <1>3, <1>4
<1>8. Range(r) = Range(q) \ S
  <2>1. ASSUME NEW x \in Range(r) PROVE x \in Range(q) \ S
    BY <1>4, <1>4a, <1>6, <1>7 DEF Range
  <2>2. ASSUME NEW x \in Range(q) \ S PROVE x \in Range(r)
    <3>1. PICK k \in DOMAIN q : x = q[k]
      BY DEF Range
    <3>2. k \in Range(f)
      BY <3>1, <1>4b, <1>5
    <3>3. PICK i \in DOMAIN f : f[i] = k
      BY <3>2 DEF Range
    <3> QED
      BY <3>1, <3>3, <1>4, <1>7 DEF Range
  <2> QED
    BY <2>1, <2>2
<1>9. ASSUME T \subseteq Int, Ascends(q) PROVE Ascends(r)
  BY <1>9, <1>1, <1>4, <1>4a, <1>5, <1>6, <1>7 DEF Ascends
<1> QED
  BY <1>3, <1>7, <1>8, <1>9

(* The n lowest rows, in order. *)
LEMMA PageProperties ==
  ASSUME NEW rows \in SUBSET Seqs, NEW n \in Nat, NEW p \in Page(rows, n)
  PROVE  /\ p \in Seq(Seqs)
         /\ Ascends(p)
         /\ Range(p) \subseteq rows
         /\ \A s \in Range(p), t \in rows \ Range(p) : s < t
         /\ Len(p) <= n
         /\ Len(p) < n => Range(p) = rows
<1>1. PICK S \in Lowest(rows, n) : p \in Ascending(S)
  BY DEF Page
<1>2. S \in SUBSET rows /\ S \in SUBSET Seqs
  BY DEF Lowest
<1>3. /\ IsFiniteSet(S) /\ Cardinality(S) \in Nat
      /\ IsFiniteSet(rows) /\ Cardinality(rows) \in Nat
  BY <1>2, SeqsFinite
<1>4. p \in Seq(S) /\ Len(p) = Cardinality(S) /\ Range(p) = S /\ Ascends(p)
  BY <1>1, <1>3, AscendingProperties
<1>5. p \in Seq(Seqs)
  BY <1>2, <1>4, SeqMonotonic
<1>6. Cardinality(S) = IF Cardinality(rows) < n THEN Cardinality(rows) ELSE n
  BY DEF Lowest
<1>7. Cardinality(S) < n => S = rows
  BY <1>2, <1>3, <1>6, FS_Subset
<1>8. \A s \in S, t \in rows \ S : s < t
  BY DEF Lowest
<1> QED
  BY <1>2, <1>3, <1>4, <1>5, <1>6, <1>7, <1>8

(* Putting a record back at its place keeps the queue ascending. *)
LEMMA ReinsertProperties ==
  ASSUME NEW q \in Seq(Seqs), NEW s \in Seqs, NEW r \in Reinsert(q, s)
  PROVE  /\ r \in Seq(Seqs)
         /\ Len(r) = Len(q) + 1
         /\ Range(r) = Range(q) \cup {s}
         /\ Ascends(q) /\ s \notin Range(q) => Ascends(r)
<1>1. PICK p \in 1 .. Len(q) + 1 :
         /\ \A i \in 1 .. p - 1 : q[i] <= s
         /\ p <= Len(q) => q[p] > s
         /\ r = SubSeq(q, 1, p - 1) \o <<s>> \o SubSeq(q, p, Len(q))
  BY DEF Reinsert
<1> DEFINE a == SubSeq(q, 1, p - 1)
           b == SubSeq(q, p, Len(q))
<1>2. Len(q) \in Nat /\ DOMAIN q = 1 .. Len(q) /\ \A i \in 1 .. Len(q) : q[i] \in Seqs
  OBVIOUS
<1>3. a \in Seq(Seqs) /\ Len(a) = p - 1 /\ \A i \in 1 .. p - 1 : a[i] = q[i]
  BY <1>2, SubSeqProperties
<1>4. b \in Seq(Seqs) /\ Len(b) = Len(q) - p + 1
        /\ \A i \in 1 .. Len(q) - p + 1 : b[i] = q[p + i - 1]
  BY <1>2, SubSeqProperties
<1>5. <<s>> \in Seq(Seqs) /\ Len(<<s>>) = 1 /\ <<s>>[1] = s
  OBVIOUS
<1> HIDE DEF a, b
<1>6. a \o <<s>> \in Seq(Seqs) /\ Len(a \o <<s>>) = p
        /\ \A i \in 1 .. p : (a \o <<s>>)[i] = IF i < p THEN q[i] ELSE s
  BY <1>3, <1>5, ConcatProperties
<1>7. r = (a \o <<s>>) \o b
  BY <1>1 DEF a, b
<1>8. r \in Seq(Seqs) /\ Len(r) = Len(q) + 1
  <2>1. r \in Seq(Seqs) /\ Len(r) = Len(a \o <<s>>) + Len(b)
    BY <1>4, <1>6, <1>7, ConcatProperties
  <2>2. Len(r) = p + (Len(q) - p + 1)
    BY <2>1, <1>4, <1>6
  <2>3. p + (Len(q) - p + 1) = Len(q) + 1
    BY <1>2
  <2> QED
    BY <2>1, <2>2, <2>3
<1>9. \A i \in 1 .. Len(q) + 1 :
        r[i] = IF i < p THEN q[i] ELSE IF i = p THEN s ELSE q[i - 1]
  <2> SUFFICES ASSUME NEW i \in 1 .. Len(q) + 1
               PROVE  r[i] = IF i < p THEN q[i] ELSE IF i = p THEN s ELSE q[i - 1]
    OBVIOUS
  <2>1. r[i] = IF i <= p THEN (a \o <<s>>)[i] ELSE b[i - p]
    BY <1>2, <1>4, <1>6, <1>7, ConcatProperties
  <2>2. CASE i <= p
    BY <2>1, <2>2, <1>6, <1>2
  <2>3. CASE i > p
    <3>1. i - p \in 1 .. Len(q) - p + 1
      BY <2>3, <1>2
    <3>2. b[i - p] = q[p + (i - p) - 1]
      BY <3>1, <1>4
    <3> QED
      BY <3>2, <2>1, <2>3, <1>2
  <2> QED
    BY <2>2, <2>3, <1>2
<1>10. Range(r) = Range(q) \cup {s}
  <2>0. DOMAIN r = 1 .. Len(q) + 1
    BY <1>8
  <2>1. ASSUME NEW x \in Range(r) PROVE x \in Range(q) \cup {s}
    <3>1. PICK i \in 1 .. Len(q) + 1 : x = r[i]
      BY <2>0 DEF Range
    <3> QED
      BY <3>1, <1>9, <1>2 DEF Range
  <2>2. s \in Range(r)
    BY <2>0, <1>9, <1>2 DEF Range
  <2>3. ASSUME NEW x \in Range(q) PROVE x \in Range(r)
    <3>1. PICK i \in 1 .. Len(q) : x = q[i]
      BY <1>2 DEF Range
    <3>2. CASE i < p
      BY <3>1, <3>2, <2>0, <1>9, <1>2 DEF Range
    <3>3. CASE i >= p
      <4>1. r[i + 1] = q[i]
        BY <3>3, <1>9, <1>2
      <4> QED
        BY <4>1, <3>1, <2>0, <1>2 DEF Range
    <3> QED
      BY <3>2, <3>3, <1>2
  <2> QED
    BY <2>1, <2>2, <2>3
<1>11. ASSUME Ascends(q), s \notin Range(q) PROVE Ascends(r)
  <2> SUFFICES ASSUME NEW i \in 1 .. Len(q) + 1, NEW j \in 1 .. Len(q) + 1, i < j
               PROVE  r[i] < r[j]
    BY <1>8 DEF Ascends
  <2>1. \A k, l \in 1 .. Len(q) : k < l => q[k] < q[l]
    BY <1>11, <1>2 DEF Ascends
  <2>2. \A k \in 1 .. Len(q) : q[k] # s /\ q[k] \in Int
    BY <1>11, <1>2 DEF Range, Seqs
  <2>3. \A k \in 1 .. Len(q) : (k < p => q[k] < s) /\ (k >= p => s < q[k])
    BY <2>1, <2>2, <1>1, <1>2 DEF Seqs
  <2>4. CASE i < p /\ j < p
    BY <2>4, <2>1, <1>9, <1>2
  <2>5. CASE i < p /\ j = p
    BY <2>5, <2>3, <1>9, <1>2
  <2>6. CASE i < p /\ j > p
    <3>1. r[i] = q[i] /\ r[j] = q[j - 1] /\ i \in 1 .. Len(q) /\ j - 1 \in 1 .. Len(q)
      BY <2>6, <1>9, <1>2
    <3>2. q[i] < s /\ s < q[j - 1]
      BY <3>1, <2>6, <2>3
    <3> QED
      BY <3>1, <3>2, <2>2 DEF Seqs
  <2>7. CASE i = p /\ j > p
    BY <2>7, <2>3, <1>9, <1>2
  <2>8. CASE i > p /\ j > p
    BY <2>8, <2>1, <1>9, <1>2
  <2> QED
    BY <2>4, <2>5, <2>6, <2>7, <2>8, <1>2
<1> QED
  BY <1>8, <1>10, <1>11

(* The head of an ascending queue is its lowest element. *)
LEMMA HeadTail ==
  ASSUME NEW q \in Seq(Seqs), q # <<>>, Ascends(q)
  PROVE  /\ Head(q) \in Seqs
         /\ Tail(q) \in Seq(Seqs)
         /\ Len(Tail(q)) = Len(q) - 1
         /\ Ascends(Tail(q))
         /\ Range(q) = Range(Tail(q)) \cup {Head(q)}
         /\ \A x \in Range(Tail(q)) : Head(q) < x
<1>1. Len(q) \in Nat \ {0} /\ DOMAIN q = 1 .. Len(q) /\ Head(q) = q[1]
  BY EmptySeq
<1>2. /\ Head(q) \in Seqs /\ Tail(q) \in Seq(Seqs) /\ Len(Tail(q)) = Len(q) - 1
      /\ \A i \in 1 .. Len(q) - 1 : Tail(q)[i] = q[i + 1]
  BY HeadTailProperties
<1>3. DOMAIN Tail(q) = 1 .. Len(q) - 1
  BY <1>1, <1>2
<1>4. Ascends(Tail(q))
  BY <1>1, <1>2, <1>3 DEF Ascends
<1>5. \A x \in Range(Tail(q)) : Head(q) < x
  BY <1>1, <1>2, <1>3 DEF Ascends, Range
<1>6. Range(q) = Range(Tail(q)) \cup {Head(q)}
  <2>1. ASSUME NEW x \in Range(q) PROVE x \in Range(Tail(q)) \cup {Head(q)}
    <3>1. PICK i \in 1 .. Len(q) : x = q[i]
      BY <1>1 DEF Range
    <3>2. CASE i = 1
      BY <3>1, <3>2, <1>1
    <3>3. CASE i > 1
      <4>1. i - 1 \in 1 .. Len(q) - 1 /\ Tail(q)[i - 1] = q[(i - 1) + 1]
        BY <3>3, <1>1, <1>2
      <4>2. (i - 1) + 1 = i
        OBVIOUS
      <4> QED
        BY <4>1, <4>2, <3>1, <1>3 DEF Range
    <3> QED
      BY <3>2, <3>3
  <2>2. ASSUME NEW x \in Range(Tail(q)) PROVE x \in Range(q)
    BY <1>1, <1>2, <1>3 DEF Range
  <2>3. Head(q) \in Range(q)
    BY <1>1 DEF Range
  <2> QED
    BY <2>1, <2>2, <2>3
<1> QED
  BY <1>2, <1>4, <1>5, <1>6

-----------------------------------------------------------------------------
(* Type correctness *)

(* record_cost of stored rows is a number. *)
LEMMA CostOfType ==
  ASSUME TypeOK, NEW rows \in SUBSET Seqs, \A s \in rows : msgOf[s] \in Msgs
  PROVE  CostOf(rows) \in Nat
<1> DEFINE Bytes == {{s} \X (1 .. Cost[msgOf[s]]) : s \in rows}
<1>1. IsFiniteSet(rows)
  BY SeqsFinite
<1>2. IsFiniteSet(Bytes)
  <2> DEFINE f == [s \in rows |-> {s} \X (1 .. Cost[msgOf[s]])]
  <2>1. f \in Surjection(rows, Bytes)
    BY DEF Surjection
  <2> QED
    BY <2>1, <1>1, FS_Surjection
<1>3. ASSUME NEW b \in Bytes PROVE IsFiniteSet(b)
  <2>1. PICK s \in rows : b = {s} \X (1 .. Cost[msgOf[s]])
    OBVIOUS
  <2>2. IsFiniteSet({s})
    BY FS_Singleton
  <2>3. IsFiniteSet(1 .. Cost[msgOf[s]])
    BY CostAssumption, FS_Interval
  <2> QED
    BY <2>1, <2>2, <2>3, FS_Product
<1>4. IsFiniteSet(UNION Bytes)
  BY <1>2, <1>3, FS_UNION
<1> QED
  BY <1>4, FS_CardinalityType DEF CostOf, BytesOf

(* Type correctness is inductive together with the numbering of the rows    *)
(* and the correspondence of commands and calls.                            *)
TypeInv == TypeOK /\ RowsNumbered /\ CommandsAreCalls

(* The handled command is the first of the channel and its sender, if it is *)
(* still there, is blocked in it.                                           *)
LEMMA DispatchFacts ==
  ASSUME TypeInv, NEW o, Dispatch(o)
  PROVE  /\ chan # <<>> /\ Head(chan) \in Cmds /\ Head(chan).op = o
         /\ chan' \in Seq(Cmds)
         /\ DOMAIN chan' = 1 .. Len(chan) - 1
         /\ \A i \in DOMAIN chan' : i + 1 \in DOMAIN chan /\ chan'[i] = chan[i + 1]
         /\ pc' = "confirm" /\ progress' = FALSE
         /\ o = "push" => Head(chan).msg \in Msgs
         /\ Head(chan).by # Gone =>
               /\ Head(chan).by \in Clients
               /\ call[Head(chan).by].op = o
               /\ call[Head(chan).by].seq = Head(chan).seq
         /\ o \notin {"push", "next"} => Head(chan).by # Gone
<1>1. chan # <<>> /\ chan \in Seq(Cmds)
  BY DEF Dispatch, TypeInv, CommandsAreCalls, TypeOK, CallerType
<1>2. /\ Len(chan) \in Nat \ {0} /\ DOMAIN chan = 1 .. Len(chan)
      /\ Head(chan) = chan[1] /\ Head(chan) \in Cmds
  BY <1>1, EmptySeq
<1>3. /\ Tail(chan) \in Seq(Cmds) /\ Len(Tail(chan)) = Len(chan) - 1
      /\ \A i \in 1 .. Len(chan) - 1 : Tail(chan)[i] = chan[i + 1]
  BY <1>1, HeadTailProperties
<1>4. chan' = Tail(chan) /\ pc' = "confirm" /\ progress' = FALSE /\ Head(chan).op = o
  BY DEF Dispatch
<1>5. DOMAIN chan' = 1 .. Len(chan) - 1
  BY <1>2, <1>3, <1>4
<1>6. \A i \in DOMAIN chan' : i + 1 \in DOMAIN chan /\ chan'[i] = chan[i + 1]
  BY <1>2, <1>3, <1>4, <1>5
<1>7. /\ o = "push" => Head(chan).msg \in Msgs
      /\ Head(chan).by # Gone =>
            call[Head(chan).by].op = o /\ call[Head(chan).by].seq = Head(chan).seq
      /\ o \notin {"push", "next"} => Head(chan).by # Gone
  BY <1>2, <1>4 DEF TypeInv, CommandsAreCalls
<1>8. Head(chan).by # Gone => Head(chan).by \in Clients
  BY <1>2 DEF Cmds
<1> QED
  BY <1>1, <1>2, <1>3, <1>4, <1>5, <1>6, <1>7, <1>8

(* Handling a command touches the call of its sender only. *)
LEMMA CommandsAfterDispatch ==
  ASSUME TypeInv, NEW o, Dispatch(o),
         \A c \in Clients : c # Head(chan).by =>
             call'[c].op = call[c].op /\ call'[c].seq = call[c].seq
  PROVE  CommandsAreCalls'
<1>1. /\ DOMAIN chan' = 1 .. Len(chan) - 1
      /\ \A i \in DOMAIN chan' : i + 1 \in DOMAIN chan /\ chan'[i] = chan[i + 1]
      /\ pc' = "confirm"
  BY DispatchFacts
<1>2. /\ chan # <<>> /\ chan \in Seq(Cmds) /\ Len(chan) \in Nat
      /\ 1 \in DOMAIN chan /\ Head(chan) = chan[1]
      /\ \A i \in DOMAIN chan : chan[i] \in Cmds
  <2>1. chan # <<>> /\ chan \in Seq(Cmds)
    BY DispatchFacts DEF TypeInv, TypeOK, CallerType
  <2> QED
    BY <2>1, EmptySeq
<1>3. SUFFICES ASSUME NEW i \in DOMAIN chan'
               PROVE  /\ chan'[i].op = "push" => chan'[i].msg \in Msgs
                      /\ IF chan'[i].by = Gone
                         THEN chan'[i].op \in {"push", "next"}
                         ELSE /\ call'[chan'[i].by].op = chan'[i].op
                              /\ call'[chan'[i].by].seq = chan'[i].seq
                      /\ \A j \in DOMAIN chan' :
                            i # j /\ chan'[i].by # Gone => chan'[j].by # chan'[i].by
  BY <1>1 DEF CommandsAreCalls
<1>4. i + 1 \in DOMAIN chan /\ chan'[i] = chan[i + 1] /\ i \in Nat \ {0}
  BY <1>1, <1>2
<1>5. /\ chan'[i].op = "push" => chan'[i].msg \in Msgs
      /\ \A j \in DOMAIN chan' :
            i # j /\ chan'[i].by # Gone => chan'[j].by # chan'[i].by
  BY <1>1, <1>2, <1>4 DEF TypeInv, CommandsAreCalls
<1>6. CASE chan[i + 1].by = Gone
  BY <1>4, <1>5, <1>6 DEF TypeInv, CommandsAreCalls
<1>7. CASE chan[i + 1].by # Gone
  <2>1. chan[i + 1].by # Head(chan).by
    BY <1>2, <1>4, <1>7 DEF TypeInv, CommandsAreCalls
  <2>2. chan[i + 1].by \in Clients
    BY <1>2, <1>4, <1>7 DEF Cmds
  <2>3. /\ call[chan[i + 1].by].op = chan[i + 1].op
        /\ call[chan[i + 1].by].seq = chan[i + 1].seq
    BY <1>4, <1>7 DEF TypeInv, CommandsAreCalls
  <2> QED
    BY <2>1, <2>2, <2>3, <1>4, <1>5, <1>7
<1> QED
  BY <1>6, <1>7

(* A step that leaves the channel alone and touches only calls that have no *)
(* command in it.                                                           *)
LEMMA CommandsUntouched ==
  ASSUME TypeInv, chan' = chan, pc' = "cmd" => pc = "cmd" \/ chan # <<>>,
         \A c \in Clients : call[c].op \in Ops =>
             call'[c].op = call[c].op /\ call'[c].seq = call[c].seq
  PROVE  CommandsAreCalls'
<1>1. chan \in Seq(Cmds) /\ \A i \in DOMAIN chan : chan[i] \in Cmds
  BY DEF TypeInv, TypeOK, CallerType
<1>2. \A i \in DOMAIN chan : chan[i].by # Gone =>
        chan[i].by \in Clients /\ call[chan[i].by].op \in Ops
  BY <1>1 DEF Cmds, TypeInv, CommandsAreCalls
<1> QED
  BY <1>1, <1>2 DEF TypeInv, CommandsAreCalls

(* The initial state has its types. *)
LEMMA TypeInvInit ==
  Init => TypeInv
<1> SUFFICES ASSUME Init PROVE TypeInv
  OBVIOUS
<1>1. MaxSeq \in Nat /\ MaxFaults \in Nat
  BY BoundsAssumption
<1>2. IdleCall \in Calls
  BY DEF IdleCall, Calls
<1>3. TypeOK
  <2>1. /\ call \in [Clients -> Calls] /\ holds \in [Clients -> SUBSET Seqs]
        /\ chan \in Seq(Cmds)
    BY <1>2 DEF Init
  <2>2. mem \in Seq(Seqs) /\ pending \in Seq(Msgs)
    BY DEF Init
  <2>3. /\ msgOf \in [Seqs -> Msgs \cup {NoMsg}]
        /\ confirm \in [Seqs -> {"none", "waiting", "taken", "closed"}]
    BY DEF Init
  <2>4. loadErr \in BOOLEAN /\ progress \in BOOLEAN
    BY DEF Init
  <2>5. /\ seqCtr \in 0 .. MaxSeq /\ lastLoaded \in 0 .. MaxSeq
        /\ recoverWm \in 0 .. MaxSeq /\ bytes \in Nat /\ faults \in 0 .. MaxFaults
    BY <1>1 DEF Init
  <2>6. /\ disk \subseteq Seqs /\ sent \subseteq Seqs /\ out \subseteq Seqs
        /\ aged \subseteq Msgs /\ promised \subseteq Msgs /\ inflight \subseteq Seqs
        /\ pc = "down"
    BY DEF Init
  <2> QED
    BY <2>1, <2>2, <2>3, <2>4, <2>5, <2>6 DEF TypeOK, DiskType, WorkerType, CallerType, HistoryType
<1>4. RowsNumbered /\ CommandsAreCalls
  BY <1>1 DEF Init, RowsNumbered, CommandsAreCalls
<1> QED
  BY <1>3, <1>4 DEF TypeInv

(* The number of faults stays within its bound. *)
LEMMA FaultType ==
  ASSUME TypeInv, Fault
  PROVE  faults' \in 0 .. MaxFaults
BY BoundsAssumption DEF Fault, TypeInv, TypeOK, HistoryType

(* Calls that return become idle, the others stay. *)
LEMMA ReturnType ==
  ASSUME TypeInv, NEW cs, Return(cs)
  PROVE  /\ call' \in [Clients -> Calls]
         /\ \A c \in Clients : call'[c] = IF c \in cs THEN IdleCall ELSE call[c]
<1>1. IdleCall \in Calls
  BY DEF IdleCall, Calls
<1> QED
  BY <1>1 DEF Return, TypeInv, TypeOK, CallerType

(* Pruning only removes waiters. *)
LEMMA PrunedType ==
  ASSUME TypeInv, NEW p \in Pruned
  PROVE  p \in Seq(Msgs) /\ Len(p) <= Len(pending) /\ Range(p) \subseteq Range(pending)
BY WithoutProperties DEF Pruned, TypeInv, TypeOK, WorkerType

(* An insert keeps the types and the numbering of rows. *)
LEMMA InsertRowType ==
  ASSUME TypeInv, NEW m \in Msgs, InsertRow(m)
  PROVE  /\ seqCtr' = seqCtr + 1 /\ seqCtr' \in Seqs /\ seqCtr' \in 0 .. MaxSeq
         /\ disk' \subseteq Seqs /\ msgOf' \in [Seqs -> Msgs \cup {NoMsg}]
         /\ sent' \subseteq Seqs /\ out' \subseteq Seqs
         /\ mem' \in Seq(Seqs) /\ bytes' \in Nat
         /\ RowsNumbered'
<1>1. seqCtr \in 0 .. MaxSeq /\ MaxSeq \in Nat /\ seqCtr < MaxSeq /\ seqCtr' = seqCtr + 1
  BY BoundsAssumption DEF InsertRow, TypeInv, TypeOK, DiskType
<1>2. seqCtr' \in Seqs /\ seqCtr' \in 0 .. MaxSeq
  BY <1>1 DEF Seqs
<1>3. /\ disk' = disk \cup {seqCtr'} /\ msgOf' = [msgOf EXCEPT ![seqCtr'] = m]
      /\ sent' = sent /\ out' = out /\ lastLoaded' = lastLoaded
      /\ bytes' = bytes + Cost[m]
      /\ mem' = mem \/ mem' = Append(mem, seqCtr')
  BY DEF InsertRow
<1>4. /\ disk' \subseteq Seqs /\ msgOf' \in [Seqs -> Msgs \cup {NoMsg}]
      /\ sent' \subseteq Seqs /\ out' \subseteq Seqs
  BY <1>2, <1>3 DEF TypeInv, TypeOK, DiskType, HistoryType
<1>5. mem' \in Seq(Seqs)
  BY <1>2, <1>3 DEF TypeInv, TypeOK, WorkerType
<1>6. bytes' \in Nat
  BY <1>3, CostAssumption DEF TypeInv, TypeOK, WorkerType
<1>7. RowsNumbered'
  <2>1. disk' \subseteq 1 .. seqCtr'
    BY <1>1, <1>3 DEF TypeInv, RowsNumbered
  <2>2. lastLoaded' <= seqCtr'
    BY <1>1, <1>3 DEF TypeInv, RowsNumbered, TypeOK, WorkerType
  <2>3. \A s \in disk' : msgOf'[s] \in Msgs
    BY <1>2, <1>3 DEF TypeInv, RowsNumbered, TypeOK, DiskType
  <2> QED
    BY <2>1, <2>2, <2>3 DEF RowsNumbered
<1> QED
  BY <1>1, <1>2, <1>4, <1>5, <1>6, <1>7

(* A delete keeps the types and the numbering of rows. *)
LEMMA DeleteRowsType ==
  ASSUME TypeInv, NEW rows \in SUBSET Seqs, DeleteRows(rows),
         UNCHANGED <<seqCtr, lastLoaded>>
  PROVE  /\ disk' \subseteq Seqs /\ msgOf' \in [Seqs -> Msgs \cup {NoMsg}]
         /\ sent' \subseteq Seqs /\ out' \subseteq Seqs
         /\ aged' \subseteq Msgs /\ promised' \subseteq Msgs
         /\ RowsNumbered'
<1>1. /\ disk' \subseteq Seqs /\ sent' \subseteq Seqs /\ out' \subseteq Seqs
      /\ aged' \subseteq Msgs /\ promised' \subseteq Msgs
  BY DEF DeleteRows, TypeInv, TypeOK, DiskType, HistoryType
<1>2. msgOf' \in [Seqs -> Msgs \cup {NoMsg}]
  BY DEF DeleteRows, TypeInv, TypeOK, DiskType
<1>3. \A s \in disk' : s \in disk /\ msgOf'[s] = msgOf[s]
  BY DEF DeleteRows, TypeInv, TypeOK, DiskType
<1> QED
  BY <1>1, <1>2, <1>3 DEF TypeInv, RowsNumbered

(* The byte count after a delete is a number. *)
LEMMA FreedType ==
  ASSUME TypeInv, NEW rows \in SUBSET Seqs, \A s \in rows : msgOf[s] \in Msgs
  PROVE  Freed(rows) \in Nat
<1>1. CostOf(rows) \in Nat
  BY CostOfType DEF TypeInv
<1>2. bytes \in Nat
  BY DEF TypeInv, TypeOK, WorkerType
<1> QED
  BY <1>1, <1>2 DEF Freed

(* What a handled command does to the channel and, when only its sender     *)
(* gets an answer, to the calls.                                            *)
LEMMA AnsweredType ==
  ASSUME TypeInv, NEW o, Dispatch(o), Return({Head(chan).by}), holds' = holds
  PROVE  CallerType' /\ CommandsAreCalls'
<1>1. /\ call' \in [Clients -> Calls]
      /\ \A c \in Clients : c # Head(chan).by => call'[c] = call[c]
  BY ReturnType
<1>2. chan' \in Seq(Cmds) /\ CommandsAreCalls'
  BY <1>1, DispatchFacts, CommandsAfterDispatch
<1> QED
  BY <1>1, <1>2 DEF CallerType, TypeInv, TypeOK

(* Steps that leave the table keep the numbering of rows. *)
LEMMA RowsUntouched ==
  ASSUME TypeInv, UNCHANGED <<disk, msgOf, seqCtr, lastLoaded>>
  PROVE  RowsNumbered'
BY DEF TypeInv, RowsNumbered

(* The maintenance pass.                                                    *)
LEMMA MaintenanceType ==
  ASSUME TypeInv, Maintenance
  PROVE  TypeInv'
<1>1. CASE \E s \in Seqs : ConfirmTaken(s)
  <2>1. DiskType' /\ HistoryType'
    BY <1>1 DEF ConfirmTaken, TypeInv, TypeOK, DiskType, HistoryType, diskVars
  <2>2. WorkerType'
    BY <1>1 DEF ConfirmTaken, TypeInv, TypeOK, WorkerType, winVars
  <2>3. CallerType' /\ CommandsAreCalls'
    BY <1>1, CommandsUntouched DEF ConfirmTaken, TypeInv, TypeOK, CallerType, callVars
  <2>4. RowsNumbered'
    BY <1>1, RowsUntouched DEF ConfirmTaken, diskVars, winVars
  <2> QED
    BY <2>1, <2>2, <2>3, <2>4 DEF TypeInv, TypeOK
<1>2. CASE \E s \in Seqs : ConfirmClosed(s)
  <2>1. DiskType' /\ HistoryType'
    BY <1>2 DEF ConfirmClosed, TypeInv, TypeOK, DiskType, HistoryType, diskVars
  <2>2. WorkerType'
    <3>1. PICK s \in Seqs : ConfirmClosed(s)
      BY <1>2
    <3>2. mem' \in Seq(Seqs) /\ inflight' \subseteq Seqs
      BY <3>1, ReinsertProperties DEF ConfirmClosed, Requeue, TypeInv, TypeOK, WorkerType
    <3>3. progress' \in BOOLEAN
      BY <3>1 DEF ConfirmClosed
    <3> QED
      BY <3>1, <3>2, <3>3 DEF ConfirmClosed, TypeInv, TypeOK, WorkerType
  <2>3. CallerType' /\ CommandsAreCalls'
    BY <1>2, CommandsUntouched DEF ConfirmClosed, TypeInv, TypeOK, CallerType, callVars
  <2>4. RowsNumbered'
    BY <1>2, RowsUntouched DEF ConfirmClosed, diskVars, winVars
  <2> QED
    BY <2>1, <2>2, <2>3, <2>4 DEF TypeInv, TypeOK
<1>3. CASE ConfirmDone
  <2>1. DiskType' /\ HistoryType'
    BY <1>3 DEF ConfirmDone, TypeInv, TypeOK, DiskType, HistoryType, diskVars
  <2>2. WorkerType'
    BY <1>3 DEF ConfirmDone, TypeInv, TypeOK, WorkerType, winVars
  <2>3. CallerType' /\ CommandsAreCalls'
    BY <1>3, CommandsUntouched DEF ConfirmDone, TypeInv, TypeOK, CallerType, callVars
  <2>4. RowsNumbered'
    BY <1>3, RowsUntouched DEF ConfirmDone, diskVars, winVars
  <2> QED
    BY <2>1, <2>2, <2>3, <2>4 DEF TypeInv, TypeOK
<1>4. CASE CleanupExpired
  <2>0. Expired \in SUBSET Seqs /\ \A s \in Expired : msgOf[s] \in Msgs
    BY DEF Expired, Queued, Range, TypeInv, TypeOK, WorkerType, DiskType
  <2>1. DiskType' /\ HistoryType'
    <3>1. Expired \in SUBSET Seqs
      BY <2>0
    <3> QED
      BY <3>1, <1>4, DeleteRowsType DEF CleanupExpired, TypeInv, TypeOK, DiskType, HistoryType
  <2>2. WorkerType'
    <3>1. mem' \in Seq(Seqs)
      BY <1>4, WithoutProperties DEF CleanupExpired, TypeInv, TypeOK, WorkerType
    <3>2. bytes' \in Nat
      BY <2>0, <1>4, FreedType DEF CleanupExpired
    <3>3. progress' \in BOOLEAN
      BY <1>4 DEF CleanupExpired
    <3> QED
      BY <3>1, <3>2, <3>3, <1>4 DEF CleanupExpired, TypeInv, TypeOK, WorkerType
  <2>3. CallerType' /\ CommandsAreCalls'
    BY <1>4, CommandsUntouched DEF CleanupExpired, TypeInv, TypeOK, CallerType, callVars
  <2>4. RowsNumbered'
    BY <2>0, <1>4, DeleteRowsType DEF CleanupExpired
  <2> QED
    BY <2>1, <2>2, <2>3, <2>4 DEF TypeInv, TypeOK
<1>5. CASE CleanupFails
  <2>1. DiskType' /\ HistoryType'
    BY <1>5, FaultType DEF CleanupFails, TypeInv, TypeOK, DiskType, HistoryType, diskVars
  <2>2. WorkerType'
    BY <1>5 DEF CleanupFails, TypeInv, TypeOK, WorkerType, winVars
  <2>3. CallerType' /\ CommandsAreCalls'
    BY <1>5, CommandsUntouched DEF CleanupFails, TypeInv, TypeOK, CallerType, callVars
  <2>4. RowsNumbered'
    BY <1>5, RowsUntouched DEF CleanupFails, diskVars, winVars
  <2> QED
    BY <2>1, <2>2, <2>3, <2>4 DEF TypeInv, TypeOK
<1>6. CASE LoadMore
  <2>0. PICK page \in Page(AboveWatermark, MemoryRecords - Held) :
          /\ mem' = mem \o page
          /\ lastLoaded' = IF page = <<>> THEN lastLoaded ELSE page[Len(page)]
    BY <1>6 DEF LoadMore
  <2>0a. page \in Seq(Seqs) /\ Range(page) \subseteq disk
    <3>1. AboveWatermark \in SUBSET Seqs /\ AboveWatermark \subseteq disk
      BY DEF AboveWatermark, TypeInv, TypeOK, DiskType
    <3>2. Cardinality(inflight) \in Nat /\ Len(mem) \in Nat
      BY SeqsFinite DEF TypeInv, TypeOK, WorkerType
    <3>3. MemoryRecords - Held \in Nat
      BY <3>2, <1>6, ConfigAssumption DEF LoadMore, Held
    <3> QED
      BY <3>1, <3>3, PageProperties
  <2>0b. page # <<>> => page[Len(page)] \in disk
    BY <2>0a, EmptySeq DEF Range
  <2>1. DiskType' /\ HistoryType'
    BY <1>6 DEF LoadMore, TypeInv, TypeOK, DiskType, HistoryType, diskVars
  <2>2. WorkerType'
    <3>1. mem' \in Seq(Seqs)
      BY <2>0, <2>0a, ConcatProperties DEF TypeInv, TypeOK, WorkerType
    <3>2. lastLoaded' \in 0 .. MaxSeq
      BY <2>0, <2>0b DEF TypeInv, TypeOK, WorkerType, DiskType, Seqs
    <3>3. loadErr' \in BOOLEAN
      BY <1>6 DEF LoadMore
    <3> QED
      BY <3>1, <3>2, <3>3, <1>6 DEF LoadMore, TypeInv, TypeOK, WorkerType
  <2>3. CallerType' /\ CommandsAreCalls'
    BY <1>6, CommandsUntouched DEF LoadMore, TypeInv, TypeOK, CallerType, callVars
  <2>4. RowsNumbered'
    <3>0. (\A d \in disk : d <= seqCtr) /\ lastLoaded <= seqCtr
      BY DEF TypeInv, RowsNumbered, TypeOK, DiskType
    <3>0a. page # <<>> => page[Len(page)] <= seqCtr
      BY <2>0b, <3>0
    <3>1. lastLoaded' <= seqCtr'
      BY <2>0, <3>0, <3>0a, <1>6 DEF LoadMore, diskVars
    <3> QED
      BY <3>1, <1>6 DEF LoadMore, diskVars, TypeInv, RowsNumbered
  <2> QED
    BY <2>1, <2>2, <2>3, <2>4 DEF TypeInv, TypeOK
<1>7. CASE LoadSkipped
  <2>1. DiskType' /\ HistoryType'
    BY <1>7 DEF LoadSkipped, TypeInv, TypeOK, DiskType, HistoryType, diskVars
  <2>2. WorkerType'
    BY <1>7 DEF LoadSkipped, TypeInv, TypeOK, WorkerType, winVars
  <2>3. CallerType' /\ CommandsAreCalls'
    BY <1>7, CommandsUntouched DEF LoadSkipped, TypeInv, TypeOK, CallerType, callVars
  <2>4. RowsNumbered'
    BY <1>7, RowsUntouched DEF LoadSkipped, diskVars, winVars
  <2> QED
    BY <2>1, <2>2, <2>3, <2>4 DEF TypeInv, TypeOK
<1>8. CASE LoadFails
  <2>1. DiskType' /\ HistoryType'
    BY <1>8, FaultType DEF LoadFails, TypeInv, TypeOK, DiskType, HistoryType, diskVars
  <2>2. WorkerType'
    BY <1>8 DEF LoadFails, TypeInv, TypeOK, WorkerType, winVars
  <2>3. CallerType' /\ CommandsAreCalls'
    BY <1>8, CommandsUntouched DEF LoadFails, TypeInv, TypeOK, CallerType, callVars
  <2>4. RowsNumbered'
    BY <1>8, RowsUntouched DEF LoadFails, diskVars, winVars
  <2> QED
    BY <2>1, <2>2, <2>3, <2>4 DEF TypeInv, TypeOK
<1>9. CASE FlushPendingPush
  <2>0. PICK m \in Msgs : /\ InsertRow(m) /\ promised' \subseteq promised \cup {m}
                          /\ Return(Waiters(m))
    <3>1. Head(pending) \in Msgs
      BY <1>9 DEF FlushPendingPush, TypeInv, TypeOK, WorkerType
    <3> QED
      BY <3>1, <1>9 DEF FlushPendingPush
  <2>1. DiskType' /\ HistoryType'
    BY <2>0, <1>9, InsertRowType DEF FlushPendingPush, TypeInv, TypeOK, DiskType, HistoryType
  <2>2. WorkerType'
    <3>1. pending' \in Seq(Msgs)
      BY <1>9, HeadTailProperties DEF FlushPendingPush, TypeInv, TypeOK, WorkerType
    <3>2. inflight' = inflight /\ lastLoaded' = lastLoaded /\ recoverWm' = recoverWm
            /\ loadErr' = loadErr /\ confirm' = confirm
      BY <2>0 DEF InsertRow
    <3>3. progress' \in BOOLEAN
      BY <1>9 DEF FlushPendingPush
    <3> QED
      BY <2>0, <3>1, <3>2, <3>3, <1>9, InsertRowType DEF FlushPendingPush, TypeInv, TypeOK, WorkerType
  <2>3. CallerType' /\ CommandsAreCalls'
    <3>1. /\ call' \in [Clients -> Calls]
          /\ \A c \in Clients : call[c].op \in Ops => call'[c] = call[c]
      BY <2>0, ReturnType DEF Waiters, Ops
    <3>2. CommandsAreCalls'
      BY <3>1, <1>9, CommandsUntouched DEF FlushPendingPush
    <3> QED
      BY <3>1, <3>2, <1>9 DEF FlushPendingPush, TypeInv, TypeOK, CallerType
  <2>4. RowsNumbered'
    BY <2>0, InsertRowType
  <2> QED
    BY <2>1, <2>2, <2>3, <2>4 DEF TypeInv, TypeOK
<1>10. CASE FlushFails
  <2>1. DiskType' /\ HistoryType'
    BY <1>10, FaultType DEF FlushFails, TypeInv, TypeOK, DiskType, HistoryType, diskVars
  <2>2. WorkerType'
    <3>1. pending' \in Seq(Msgs)
      BY <1>10, HeadTailProperties DEF FlushFails, TypeInv, TypeOK, WorkerType
    <3> QED
      BY <3>1, <1>10 DEF FlushFails, TypeInv, TypeOK, WorkerType, winVars
  <2>3. CallerType' /\ CommandsAreCalls'
    <3>1. /\ call' \in [Clients -> Calls]
          /\ \A c \in Clients : call[c].op \in Ops => call'[c] = call[c]
      BY <1>10, ReturnType DEF FlushFails, Waiters, Ops
    <3>2. CommandsAreCalls'
      BY <3>1, <1>10, CommandsUntouched DEF FlushFails
    <3> QED
      BY <3>1, <3>2, <1>10 DEF FlushFails, TypeInv, TypeOK, CallerType
  <2>4. RowsNumbered'
    BY <1>10, RowsUntouched DEF FlushFails, diskVars, winVars
  <2> QED
    BY <2>1, <2>2, <2>3, <2>4 DEF TypeInv, TypeOK
<1>11. CASE FlushDone
  <2>1. DiskType' /\ HistoryType'
    BY <1>11 DEF FlushDone, TypeInv, TypeOK, DiskType, HistoryType, diskVars
  <2>2. WorkerType'
    BY <1>11 DEF FlushDone, TypeInv, TypeOK, WorkerType, winVars
  <2>3. CallerType' /\ CommandsAreCalls'
    BY <1>11, CommandsUntouched DEF FlushDone, TypeInv, TypeOK, CallerType, callVars
  <2>4. RowsNumbered'
    BY <1>11, RowsUntouched DEF FlushDone, diskVars, winVars
  <2> QED
    BY <2>1, <2>2, <2>3, <2>4 DEF TypeInv, TypeOK
<1>12. CASE RecvCmd
  <2>1. DiskType' /\ HistoryType'
    BY <1>12 DEF RecvCmd, TypeInv, TypeOK, DiskType, HistoryType, diskVars
  <2>2. WorkerType'
    BY <1>12 DEF RecvCmd, TypeInv, TypeOK, WorkerType, winVars
  <2>3. CallerType' /\ CommandsAreCalls'
    BY <1>12, CommandsUntouched DEF RecvCmd, TypeInv, TypeOK, CallerType, callVars
  <2>4. RowsNumbered'
    BY <1>12, RowsUntouched DEF RecvCmd, diskVars, winVars
  <2> QED
    BY <2>1, <2>2, <2>3, <2>4 DEF TypeInv, TypeOK
<1>13. CASE RecvTimeout
  <2>1. DiskType' /\ HistoryType'
    BY <1>13 DEF RecvTimeout, TypeInv, TypeOK, DiskType, HistoryType, diskVars
  <2>2. WorkerType'
    BY <1>13 DEF RecvTimeout, TypeInv, TypeOK, WorkerType, winVars
  <2>3. CallerType' /\ CommandsAreCalls'
    BY <1>13, CommandsUntouched DEF RecvTimeout, TypeInv, TypeOK, CallerType, callVars
  <2>4. RowsNumbered'
    BY <1>13, RowsUntouched DEF RecvTimeout, diskVars, winVars
  <2> QED
    BY <2>1, <2>2, <2>3, <2>4 DEF TypeInv, TypeOK
<1> QED
  BY <1>1, <1>2, <1>3, <1>4, <1>5, <1>6, <1>7, <1>8, <1>9, <1>10, <1>11, <1>12, <1>13 DEF Maintenance

(* The commands.                                                            *)
LEMMA CommandType ==
  ASSUME TypeInv, Command
  PROVE  TypeInv'
<1>1. CASE PushKnown
  <2>1. DiskType' /\ HistoryType'
    BY <1>1, DispatchFacts DEF PushKnown, TypeInv, TypeOK, DiskType, HistoryType, diskVars
  <2>2. WorkerType'
    <3>1. pending' \in Seq(Msgs)
      BY <1>1, PrunedType DEF PushKnown
    <3> QED
      BY <3>1, <1>1, DispatchFacts DEF PushKnown, TypeInv, TypeOK, WorkerType, winVars
  <2>3. CallerType' /\ CommandsAreCalls'
    BY <1>1, AnsweredType DEF PushKnown
  <2>4. RowsNumbered'
    BY <1>1, RowsUntouched DEF PushKnown, diskVars, winVars
  <2> QED
    BY <2>1, <2>2, <2>3, <2>4 DEF TypeInv, TypeOK
<1>2. CASE PushJoins
  <2>1. DiskType' /\ HistoryType'
    BY <1>2 DEF PushJoins, TypeInv, TypeOK, DiskType, HistoryType, diskVars
  <2>2. WorkerType'
    <3>1. pending' \in Seq(Msgs)
      BY <1>2, PrunedType DEF PushJoins
    <3> QED
      BY <3>1, <1>2, DispatchFacts DEF PushJoins, TypeInv, TypeOK, WorkerType, winVars
  <2>3. CallerType' /\ CommandsAreCalls'
    <3>1. Head(chan) \in Cmds /\ Head(chan).msg \in Msgs
      BY <1>2, DispatchFacts DEF PushJoins
    <3>2. Call("wait", Head(chan).msg, 0) \in Calls
      BY <3>1 DEF Call, Calls
    <3>3. /\ call' \in [Clients -> Calls]
          /\ \A c \in Clients : c # Head(chan).by => call'[c] = call[c]
      BY <3>2, <1>2 DEF PushJoins, TypeInv, TypeOK, CallerType
    <3>4. chan' \in Seq(Cmds) /\ CommandsAreCalls'
      BY <3>3, <1>2, DispatchFacts, CommandsAfterDispatch DEF PushJoins
    <3> QED
      BY <3>3, <3>4, <1>2 DEF PushJoins, TypeInv, TypeOK, CallerType, winVars
  <2>4. RowsNumbered'
    BY <1>2, RowsUntouched DEF PushJoins, diskVars, winVars
  <2> QED
    BY <2>1, <2>2, <2>3, <2>4 DEF TypeInv, TypeOK
<1>3. CASE PushWaits
  <2>1. DiskType' /\ HistoryType'
    BY <1>3 DEF PushWaits, TypeInv, TypeOK, DiskType, HistoryType, diskVars
  <2>2. WorkerType'
    <3>1. PICK p \in Pruned : pending' = Append(p, Head(chan).msg)
      BY <1>3 DEF PushWaits
    <3>1a. p \in Seq(Msgs) /\ Head(chan).msg \in Msgs
      BY <1>3, PrunedType, DispatchFacts DEF PushWaits
    <3>2. pending' \in Seq(Msgs)
      BY <3>1, <3>1a
    <3> QED
      BY <3>2, <1>3, DispatchFacts DEF PushWaits, TypeInv, TypeOK, WorkerType, winVars
  <2>3. CallerType' /\ CommandsAreCalls'
    <3>1. Head(chan) \in Cmds /\ Head(chan).msg \in Msgs
      BY <1>3, DispatchFacts DEF PushWaits
    <3>2. Call("wait", Head(chan).msg, 0) \in Calls
      BY <3>1 DEF Call, Calls
    <3>3. /\ call' \in [Clients -> Calls]
          /\ \A c \in Clients : c # Head(chan).by => call'[c] = call[c]
      BY <3>2, <1>3 DEF PushWaits, TypeInv, TypeOK, CallerType
    <3>4. chan' \in Seq(Cmds) /\ CommandsAreCalls'
      BY <3>3, <1>3, DispatchFacts, CommandsAfterDispatch DEF PushWaits
    <3> QED
      BY <3>3, <3>4, <1>3 DEF PushWaits, TypeInv, TypeOK, CallerType, winVars
  <2>4. RowsNumbered'
    BY <1>3, RowsUntouched DEF PushWaits, diskVars, winVars
  <2> QED
    BY <2>1, <2>2, <2>3, <2>4 DEF TypeInv, TypeOK
<1>4. CASE PushStored
  <2>0. PICK m \in Msgs : InsertRow(m) /\ promised' \subseteq promised \cup {m}
    BY <1>4, DispatchFacts DEF PushStored
  <2>1. DiskType' /\ HistoryType'
    BY <2>0, <1>4, InsertRowType DEF PushStored, TypeInv, TypeOK, DiskType, HistoryType
  <2>2. WorkerType'
    <3>1. pending' \in Seq(Msgs)
      BY <1>4, PrunedType DEF PushStored
    <3>2. inflight' = inflight /\ lastLoaded' = lastLoaded /\ recoverWm' = recoverWm
            /\ loadErr' = loadErr /\ confirm' = confirm
      BY <2>0 DEF InsertRow
    <3> QED
      BY <2>0, <3>1, <3>2, <1>4, InsertRowType, DispatchFacts DEF PushStored, TypeInv, TypeOK, WorkerType
  <2>3. CallerType' /\ CommandsAreCalls'
    BY <1>4, AnsweredType DEF PushStored
  <2>4. RowsNumbered'
    BY <2>0, InsertRowType
  <2> QED
    BY <2>1, <2>2, <2>3, <2>4 DEF TypeInv, TypeOK
<1>5. CASE PushRefused
  <2>1. DiskType' /\ HistoryType'
    BY <1>5 DEF PushRefused, TypeInv, TypeOK, DiskType, HistoryType, diskVars
  <2>2. WorkerType'
    <3>1. pending' \in Seq(Msgs)
      BY <1>5, PrunedType DEF PushRefused
    <3> QED
      BY <3>1, <1>5, DispatchFacts DEF PushRefused, TypeInv, TypeOK, WorkerType, winVars
  <2>3. CallerType' /\ CommandsAreCalls'
    BY <1>5, AnsweredType DEF PushRefused
  <2>4. RowsNumbered'
    BY <1>5, RowsUntouched DEF PushRefused, diskVars, winVars
  <2> QED
    BY <2>1, <2>2, <2>3, <2>4 DEF TypeInv, TypeOK
<1>6. CASE PushFails
  <2>1. DiskType' /\ HistoryType'
    BY <1>6, FaultType DEF PushFails, TypeInv, TypeOK, DiskType, HistoryType, diskVars
  <2>2. WorkerType'
    <3>1. pending' \in Seq(Msgs)
      BY <1>6, PrunedType DEF PushFails
    <3> QED
      BY <3>1, <1>6, DispatchFacts DEF PushFails, TypeInv, TypeOK, WorkerType, winVars
  <2>3. CallerType' /\ CommandsAreCalls'
    BY <1>6, AnsweredType DEF PushFails
  <2>4. RowsNumbered'
    BY <1>6, RowsUntouched DEF PushFails, diskVars, winVars
  <2> QED
    BY <2>1, <2>2, <2>3, <2>4 DEF TypeInv, TypeOK
<1>7. CASE NextEmpty
  <2>1. DiskType' /\ HistoryType'
    BY <1>7 DEF NextEmpty, TypeInv, TypeOK, DiskType, HistoryType, diskVars
  <2>2. WorkerType'
    BY <1>7, DispatchFacts DEF NextEmpty, TypeInv, TypeOK, WorkerType, winVars
  <2>3. CallerType' /\ CommandsAreCalls'
    BY <1>7, AnsweredType DEF NextEmpty
  <2>4. RowsNumbered'
    BY <1>7, RowsUntouched DEF NextEmpty, diskVars, winVars
  <2> QED
    BY <2>1, <2>2, <2>3, <2>4 DEF TypeInv, TypeOK
<1>8. CASE NextOffered
  <2>0. Head(mem) \in Seqs /\ Tail(mem) \in Seq(Seqs)
    BY <1>8, HeadTailProperties DEF NextOffered, TypeInv, TypeOK, WorkerType
  <2>1. DiskType' /\ HistoryType'
    BY <2>0, <1>8 DEF NextOffered, TypeInv, TypeOK, DiskType, HistoryType
  <2>2. WorkerType'
    BY <2>0, <1>8, DispatchFacts DEF NextOffered, TypeInv, TypeOK, WorkerType
  <2>3. CallerType' /\ CommandsAreCalls'
    <3> DEFINE s == Head(mem)
               r == [op |-> "offered", msg |-> msgOf[s], seq |-> s, replayed |-> Replayed(s)]
    <3>1. r \in Calls
      <4>1. Replayed(s) \in BOOLEAN
        BY DEF Replayed
      <4>2. msgOf[s] \in Msgs \cup {NoMsg}
        BY <2>0 DEF TypeInv, TypeOK, DiskType
      <4> QED
        BY <4>1, <4>2, <2>0 DEF Calls
    <3>2. call' = [call EXCEPT ![Head(chan).by] = r]
      BY <1>8 DEF NextOffered
    <3> HIDE DEF r
    <3>3. /\ call' \in [Clients -> Calls]
          /\ \A c \in Clients : c # Head(chan).by => call'[c] = call[c]
      BY <3>1, <3>2 DEF TypeInv, TypeOK, CallerType
    <3>4. chan' \in Seq(Cmds) /\ CommandsAreCalls'
      BY <3>3, <1>8, DispatchFacts, CommandsAfterDispatch DEF NextOffered
    <3> QED
      BY <3>3, <3>4, <1>8 DEF NextOffered, TypeInv, TypeOK, CallerType
  <2>4. RowsNumbered'
    BY <1>8, RowsUntouched DEF NextOffered, diskVars, winVars
  <2> QED
    BY <2>1, <2>2, <2>3, <2>4 DEF TypeInv, TypeOK
<1>9. CASE NextUndelivered
  <2>0. Head(mem) \in Seqs /\ Tail(mem) \in Seq(Seqs)
    BY <1>9, HeadTailProperties DEF NextUndelivered, TypeInv, TypeOK, WorkerType
  <2>1. DiskType' /\ HistoryType'
    BY <2>0, <1>9 DEF NextUndelivered, TypeInv, TypeOK, DiskType, HistoryType
  <2>2. WorkerType'
    <3>1. mem' \in Seq(Seqs)
      BY <2>0, <1>9, ReinsertProperties DEF NextUndelivered
    <3> QED
      BY <3>1, <1>9, DispatchFacts DEF NextUndelivered, TypeInv, TypeOK, WorkerType
  <2>3. CallerType' /\ CommandsAreCalls'
    BY <1>9, DispatchFacts, CommandsAfterDispatch DEF NextUndelivered, TypeInv, TypeOK, CallerType
  <2>4. RowsNumbered'
    BY <1>9, RowsUntouched DEF NextUndelivered, diskVars, winVars
  <2> QED
    BY <2>1, <2>2, <2>3, <2>4 DEF TypeInv, TypeOK
<1>10. CASE NextFails
  <2>1. DiskType' /\ HistoryType'
    BY <1>10, FaultType DEF NextFails, TypeInv, TypeOK, DiskType, HistoryType, diskVars
  <2>2. WorkerType'
    BY <1>10, DispatchFacts DEF NextFails, TypeInv, TypeOK, WorkerType, winVars
  <2>3. CallerType' /\ CommandsAreCalls'
    BY <1>10, AnsweredType DEF NextFails
  <2>4. RowsNumbered'
    BY <1>10, RowsUntouched DEF NextFails, diskVars, winVars
  <2> QED
    BY <2>1, <2>2, <2>3, <2>4 DEF TypeInv, TypeOK
<1>11. CASE AckDeletes
  <2> DEFINE row == {Head(chan).seq} \cap disk
  <2>0. /\ row \in SUBSET Seqs /\ row \cap inflight \in SUBSET Seqs
        /\ \A s \in row \cap inflight : msgOf[s] \in Msgs
    BY DEF TypeInv, TypeOK, DiskType, RowsNumbered
  <2>0a. /\ DeleteRows(row) /\ inflight' = inflight \ row
         /\ bytes' = Freed(row \cap inflight)
    BY <1>11 DEF AckDeletes
  <2> HIDE DEF row
  <2>1. DiskType' /\ HistoryType'
    BY <2>0, <2>0a, <1>11, DeleteRowsType DEF AckDeletes, TypeInv, TypeOK, DiskType, HistoryType
  <2>2. WorkerType'
    <3>1. bytes' \in Nat
      BY <2>0, <2>0a, FreedType
    <3> QED
      BY <2>0a, <3>1, <1>11, DispatchFacts DEF AckDeletes, TypeInv, TypeOK, WorkerType
  <2>3. CallerType' /\ CommandsAreCalls'
    <3>1. call' \in [Clients -> Calls] /\ \A c \in Clients : c # Head(chan).by => call'[c] = call[c]
      BY <1>11, ReturnType DEF AckDeletes
    <3>2. chan' \in Seq(Cmds) /\ CommandsAreCalls'
      BY <3>1, <1>11, DispatchFacts, CommandsAfterDispatch DEF AckDeletes
    <3>3. holds' \in [Clients -> SUBSET Seqs]
      BY <1>11 DEF AckDeletes, TypeInv, TypeOK, CallerType
    <3> QED
      BY <3>1, <3>2, <3>3 DEF CallerType
  <2>4. RowsNumbered'
    BY <2>0, <2>0a, <1>11, DeleteRowsType DEF AckDeletes
  <2> QED
    BY <2>1, <2>2, <2>3, <2>4 DEF TypeInv, TypeOK
<1>12. CASE AckFails
  <2>1. DiskType' /\ HistoryType'
    BY <1>12, FaultType DEF AckFails, TypeInv, TypeOK, DiskType, HistoryType, diskVars
  <2>2. WorkerType'
    BY <1>12, DispatchFacts DEF AckFails, TypeInv, TypeOK, WorkerType, winVars
  <2>3. CallerType' /\ CommandsAreCalls'
    BY <1>12, AnsweredType DEF AckFails
  <2>4. RowsNumbered'
    BY <1>12, RowsUntouched DEF AckFails, diskVars, winVars
  <2> QED
    BY <2>1, <2>2, <2>3, <2>4 DEF TypeInv, TypeOK
<1>13. CASE RequeueRecord
  <2>1. DiskType' /\ HistoryType'
    BY <1>13 DEF RequeueRecord, TypeInv, TypeOK, DiskType, HistoryType, diskVars
  <2>2. WorkerType'
    <3>1. mem' \in Seq(Seqs) /\ inflight' \subseteq Seqs
      BY <1>13, ReinsertProperties DEF RequeueRecord, Requeue, TypeInv, TypeOK, WorkerType
    <3> QED
      BY <3>1, <1>13, DispatchFacts DEF RequeueRecord, TypeInv, TypeOK, WorkerType
  <2>3. CallerType' /\ CommandsAreCalls'
    <3>1. call' \in [Clients -> Calls] /\ \A c \in Clients : c # Head(chan).by => call'[c] = call[c]
      BY <1>13, ReturnType DEF RequeueRecord
    <3>2. chan' \in Seq(Cmds) /\ CommandsAreCalls'
      BY <3>1, <1>13, DispatchFacts, CommandsAfterDispatch DEF RequeueRecord
    <3>3. holds' \in [Clients -> SUBSET Seqs]
      BY <1>13 DEF RequeueRecord, TypeInv, TypeOK, CallerType
    <3> QED
      BY <3>1, <3>2, <3>3 DEF CallerType
  <2>4. RowsNumbered'
    BY <1>13, RowsUntouched DEF RequeueRecord, diskVars, winVars
  <2> QED
    BY <2>1, <2>2, <2>3, <2>4 DEF TypeInv, TypeOK
<1>14. CASE Shutdown
  <2>1. DiskType' /\ HistoryType'
    BY <1>14 DEF Shutdown, TypeInv, TypeOK, DiskType, HistoryType, diskVars
  <2>2. WorkerType'
    BY <1>14 DEF Shutdown, TypeInv, TypeOK, WorkerType, winVars
  <2>3. CallerType' /\ CommandsAreCalls'
    <3>1. call' \in [Clients -> Calls]
      BY <1>14, ReturnType DEF Shutdown
    <3> QED
      BY <3>1, <1>14 DEF Shutdown, TypeInv, TypeOK, CallerType, CommandsAreCalls
  <2>4. RowsNumbered'
    BY <1>14, RowsUntouched DEF Shutdown, diskVars, winVars
  <2> QED
    BY <2>1, <2>2, <2>3, <2>4 DEF TypeInv, TypeOK
<1> QED
  BY <1>1, <1>2, <1>3, <1>4, <1>5, <1>6, <1>7, <1>8, <1>9, <1>10, <1>11, <1>12, <1>13, <1>14 DEF Command

(* The callers. *)
LEMMA CallerTypeStep ==
  ASSUME TypeInv, Caller
  PROVE  TypeInv'
<1>1. ASSUME NEW c \in Clients, NEW o \in Ops, NEW m \in Msgs \cup {NoMsg},
             NEW s \in Seqs \cup {0}, o = "push" => m \in Msgs, Send(c, o, m, s)
      PROVE  TypeInv'
  <2>1. Cmd(o, m, s, c) \in Cmds /\ Call(o, m, s) \in Calls
    BY DEF Cmd, Cmds, Call, Calls
  <2>2. /\ chan' = Append(chan, Cmd(o, m, s, c)) /\ call' = [call EXCEPT ![c] = Call(o, m, s)]
        /\ call[c].op = "idle" /\ pc' = pc /\ holds' = holds
    BY <1>1 DEF Send, CanSend
  <2>3. chan \in Seq(Cmds) /\ call \in [Clients -> Calls]
    BY DEF TypeInv, TypeOK, CallerType
  <2>4. CallerType'
    BY <2>1, <2>2, <2>3 DEF CallerType, TypeInv, TypeOK
  <2>5. CommandsAreCalls'
    <3>1. \A i \in DOMAIN chan : chan[i] \in Cmds /\ chan[i].by # c
      <4>1. \A i \in DOMAIN chan : chan[i] \in Cmds
        BY <2>3
      <4>2. \A i \in DOMAIN chan : chan[i].op # "idle"
        BY <4>1 DEF Cmds, Ops
      <4>3. \A i \in DOMAIN chan : chan[i].by # Gone => call[chan[i].by].op = chan[i].op
        BY DEF TypeInv, CommandsAreCalls
      <4> QED
        BY <4>1, <4>2, <4>3, <2>2, ClientsAssumption
    <3>2. /\ DOMAIN chan' = 1 .. Len(chan) + 1 /\ DOMAIN chan = 1 .. Len(chan)
          /\ Len(chan) \in Nat /\ chan' # <<>>
          /\ \A i \in 1 .. Len(chan) : chan'[i] = chan[i]
          /\ chan'[Len(chan) + 1] = Cmd(o, m, s, c)
      BY <2>1, <2>2, <2>3
    <3>3. c # Gone
      BY <1>1, ClientsAssumption
    <3>4. \A d \in Clients \ {c} : call'[d] = call[d]
      BY <2>2, <2>3
    <3>5. call'[c].op = o /\ call'[c].seq = s
      BY <2>2, <2>3 DEF Call
    <3>6. ASSUME NEW i \in 1 .. Len(chan)
          PROVE  /\ chan'[i].op = "push" => chan'[i].msg \in Msgs
                 /\ IF chan'[i].by = Gone
                    THEN chan'[i].op \in {"push", "next"}
                    ELSE /\ call'[chan'[i].by].op = chan'[i].op
                         /\ call'[chan'[i].by].seq = chan'[i].seq
                 /\ \A j \in 1 .. Len(chan) + 1 :
                       i # j /\ chan'[i].by # Gone => chan'[j].by # chan'[i].by
      <4>1. chan'[i] = chan[i] /\ chan[i] \in Cmds /\ chan[i].by # c
        BY <3>1, <3>2
      <4>2. chan[i].by # Gone => chan[i].by \in Clients \ {c}
        BY <4>1 DEF Cmds
      <4>3. Cmd(o, m, s, c).by = c
        BY DEF Cmd
      <4> QED
        BY <4>1, <4>2, <4>3, <3>2, <3>4 DEF TypeInv, CommandsAreCalls
    <3>7. /\ Cmd(o, m, s, c).op = "push" => Cmd(o, m, s, c).msg \in Msgs
          /\ Cmd(o, m, s, c).by = c /\ Cmd(o, m, s, c).op = o /\ Cmd(o, m, s, c).seq = s
      BY <1>1 DEF Cmd
    <3>8. \A j \in 1 .. Len(chan) : chan'[j].by # c
      BY <3>1, <3>2
    <3> QED
      BY <3>2, <3>3, <3>5, <3>6, <3>7, <3>8 DEF CommandsAreCalls
  <2>6. DiskType' /\ HistoryType'
    BY <1>1 DEF Send, TypeInv, TypeOK, DiskType, HistoryType, diskVars
  <2>7. WorkerType'
    BY <1>1 DEF Send, TypeInv, TypeOK, WorkerType, winVars
  <2>8. RowsNumbered'
    BY <1>1, RowsUntouched DEF Send, diskVars, winVars
  <2> QED
    BY <2>4, <2>5, <2>6, <2>7, <2>8 DEF TypeInv, TypeOK
<1>2. ASSUME NEW c \in Pushers, NEW m \in Msgs, CallPush(c, m)
      PROVE  TypeInv'
  BY <1>1, <1>2, ClientsAssumption DEF CallPush, Ops
<1>3. ASSUME NEW c \in Takers, CallNext(c)
      PROVE  TypeInv'
  BY <1>1, <1>3, ClientsAssumption DEF CallNext, Ops
<1>4. ASSUME NEW c \in Takers, NEW s \in Seqs, CallAck(c, s) \/ CallRequeue(c, s)
      PROVE  TypeInv'
  BY <1>1, <1>4, ClientsAssumption DEF CallAck, CallRequeue, Ops
<1>5. ASSUME NEW c \in Closers, CallShutdown(c)
      PROVE  TypeInv'
  BY <1>1, <1>5, ClientsAssumption DEF CallShutdown, Ops
<1>6. ASSUME NEW c \in Clients, TakeReply(c)
      PROVE  TypeInv'
  <2>1. IdleCall \in Calls
    BY DEF IdleCall, Calls
  <2>2. call' \in [Clients -> Calls] /\ \A d \in Clients : call[d].op \in Ops => call'[d] = call[d]
    BY <2>1, <1>6 DEF TakeReply, Ops, TypeInv, TypeOK, CallerType
  <2>3. CommandsAreCalls'
    BY <2>2, <1>6, CommandsUntouched DEF TakeReply
  <2>4. holds' \in [Clients -> SUBSET Seqs]
    <3>1. call[c] \in Calls /\ call[c].op = "offered"
      BY <1>6 DEF TakeReply, TypeInv, TypeOK, CallerType
    <3>2. call[c].seq \in Seqs
      BY <3>1 DEF Calls, Ops
    <3> QED
      BY <3>2, <1>6 DEF TakeReply, TypeInv, TypeOK, CallerType
  <2>5. CallerType'
    BY <2>2, <2>4, <1>6 DEF TakeReply, TypeInv, TypeOK, CallerType
  <2>6. DiskType' /\ HistoryType'
    BY <1>6 DEF TakeReply, TypeInv, TypeOK, DiskType, HistoryType, diskVars
  <2>7. WorkerType'
    BY <1>6 DEF TakeReply, TypeInv, TypeOK, WorkerType, winVars
  <2>8. RowsNumbered'
    BY <1>6, RowsUntouched DEF TakeReply, diskVars, winVars
  <2> QED
    BY <2>3, <2>5, <2>6, <2>7, <2>8 DEF TypeInv, TypeOK
<1>7. ASSUME NEW c \in Clients, Cancel(c)
      PROVE  TypeInv'
  <2>1. IdleCall \in Calls
    BY DEF IdleCall, Calls
  <2>2. call' \in [Clients -> Calls] /\ \A d \in Clients \ {c} : call'[d] = call[d]
    BY <2>1, <1>7 DEF Cancel, TypeInv, TypeOK, CallerType
  <2>3. chan \in Seq(Cmds) /\ Len(chan) \in Nat /\ DOMAIN chan = 1 .. Len(chan)
    BY DEF TypeInv, TypeOK, CallerType
  <2>4. DOMAIN chan' = DOMAIN chan /\ chan' \in Seq(Cmds)
    <3>1. \A i \in DOMAIN chan : chan[i] \in Cmds /\ [chan[i] EXCEPT !.by = Gone] \in Cmds
      <4>1. \A i \in DOMAIN chan : chan[i] \in Cmds
        BY <2>3
      <4>2. \A x \in Cmds : [x EXCEPT !.by = Gone] \in Cmds
        BY DEF Cmds
      <4> QED
        BY <4>1, <4>2
    <3>2. chan' = [i \in 1 .. Len(chan) |->
                     IF chan[i].by = c THEN [chan[i] EXCEPT !.by = Gone] ELSE chan[i]]
      BY <1>7, <2>3 DEF Cancel
    <3> QED
      BY <2>3, <3>1, <3>2
  <2>5. \A i \in DOMAIN chan :
          /\ chan[i].by = c => chan'[i].by = Gone /\ chan'[i].op = chan[i].op
                                /\ chan'[i].msg = chan[i].msg
          /\ chan[i].by # c => chan'[i] = chan[i]
    <3>1. \A i \in DOMAIN chan : chan[i] \in Cmds
      BY <2>3
    <3>2. \A i \in DOMAIN chan :
            chan'[i] = IF chan[i].by = c THEN [chan[i] EXCEPT !.by = Gone] ELSE chan[i]
      BY <1>7 DEF Cancel
    <3> QED
      BY <3>1, <3>2 DEF Cmds
  <2>6. CommandsAreCalls'
    <3>1. pc' = pc /\ call[c].op \in {"push", "wait", "next", "offered"}
      BY <1>7 DEF Cancel
    <3>2. chan' # <<>> <=> chan # <<>>
      BY <2>3, <2>4
    <3>3. \A i \in DOMAIN chan : chan[i] \in Cmds
      BY <2>3
    <3>4. \A i \in DOMAIN chan : chan[i].by = c =>
             /\ chan[i].op = call[c].op /\ chan[i].op \in Ops
             /\ chan[i].by # Gone
      BY <3>3, ClientsAssumption DEF TypeInv, CommandsAreCalls, Cmds
    <3>5. \A i \in DOMAIN chan : chan[i].by = c => chan[i].op \in {"push", "next"}
      BY <3>1, <3>4 DEF Ops
    <3>6. \A i \in DOMAIN chan : chan[i].by # c /\ chan[i].by # Gone =>
             chan[i].by \in Clients \ {c}
      BY <3>3 DEF Cmds
    <3> QED
      BY <3>1, <3>2, <3>5, <3>6, <2>2, <2>4, <2>5 DEF TypeInv, CommandsAreCalls
  <2>7. CallerType'
    BY <2>2, <2>4, <1>7 DEF Cancel, TypeInv, TypeOK, CallerType
  <2>8. DiskType' /\ HistoryType'
    BY <1>7 DEF Cancel, TypeInv, TypeOK, DiskType, HistoryType, diskVars
  <2>9. WorkerType'
    BY <1>7 DEF Cancel, TypeInv, TypeOK, WorkerType, winVars
  <2>10. RowsNumbered'
    BY <1>7, RowsUntouched DEF Cancel, diskVars, winVars
  <2> QED
    BY <2>6, <2>7, <2>8, <2>9, <2>10 DEF TypeInv, TypeOK
<1> QED
  BY <1>2, <1>3, <1>4, <1>5, <1>6, <1>7 DEF Caller

(* Opening keeps the types. *)
LEMMA OpenType ==
  ASSUME TypeInv, Open
  PROVE  TypeInv'
<1>1. disk \in SUBSET Seqs /\ \A s \in disk : s <= seqCtr
  BY DEF TypeInv, TypeOK, DiskType, RowsNumbered
<1>2. MemoryRecords \in Nat /\ MaxSeq \in Nat
  BY ConfigAssumption, BoundsAssumption
<1>3. mem' \in Seq(Seqs) /\ Range(mem') \subseteq disk
  BY <1>1, <1>2, PageProperties DEF Open
<1>4. lastLoaded' \in disk \cup {0}
  <2>1. CASE mem' = <<>>
    BY <2>1 DEF Open
  <2>2. CASE mem' # <<>>
    <3>1. Len(mem') \in DOMAIN mem'
      BY <2>2, <1>3, EmptySeq
    <3> QED
      BY <3>1, <2>2, <1>3 DEF Open, Range
  <2> QED
    BY <2>1, <2>2
<1>5. bytes' \in Nat
  BY <1>1, CostOfType DEF Open, TypeInv, RowsNumbered
<1>6. DiskType' /\ HistoryType' /\ CallerType'
  BY DEF Open, TypeInv, TypeOK, DiskType, HistoryType, CallerType, diskVars, callVars
<1>7. WorkerType'
  <2>1. lastLoaded' \in 0 .. MaxSeq /\ recoverWm' \in 0 .. MaxSeq
    BY <1>1, <1>2, <1>4 DEF Open, Seqs
  <2>2. pending' \in Seq(Msgs) /\ inflight' \subseteq Seqs
    BY DEF Open
  <2>3. confirm' \in [Seqs -> {"none", "waiting", "taken", "closed"}]
    BY DEF Open
  <2>4. loadErr' \in BOOLEAN /\ progress' \in BOOLEAN
    BY DEF Open
  <2>5. pc' = "confirm"
    BY DEF Open
  <2> QED
    BY <2>1, <2>2, <2>3, <2>4, <2>5, <1>3, <1>5 DEF WorkerType
<1>8. CommandsAreCalls'
  BY CommandsUntouched DEF Open, callVars
<1>9. RowsNumbered'
  <2>1. lastLoaded' <= seqCtr
    BY <1>1, <1>4 DEF TypeInv, TypeOK, DiskType
  <2> QED
    BY <2>1 DEF Open, diskVars, TypeInv, RowsNumbered
<1> QED
  BY <1>6, <1>7, <1>8, <1>9 DEF TypeInv, TypeOK

(* The end of the process keeps the types. *)
LEMMA ProcessEndsType ==
  ASSUME TypeInv, ProcessEnds, faults' \in 0 .. MaxFaults
  PROVE  TypeInv'
<1>1. IdleCall \in Calls
  BY DEF IdleCall, Calls
<1>2. DiskType' /\ HistoryType'
  BY DEF ProcessEnds, TypeInv, TypeOK, DiskType, HistoryType, diskVars
<1>3. WorkerType'
  <2>1. /\ mem' \in Seq(Seqs) /\ pending' \in Seq(Msgs) /\ inflight' \subseteq Seqs
        /\ pc' = "down"
    BY DEF ProcessEnds
  <2>2. lastLoaded' \in 0 .. MaxSeq /\ recoverWm' \in 0 .. MaxSeq /\ bytes' \in Nat
    BY BoundsAssumption DEF ProcessEnds
  <2>3. confirm' \in [Seqs -> {"none", "waiting", "taken", "closed"}]
    BY DEF ProcessEnds
  <2>4. loadErr' \in BOOLEAN /\ progress' \in BOOLEAN
    BY DEF ProcessEnds
  <2> QED
    BY <2>1, <2>2, <2>3, <2>4 DEF WorkerType
<1>4. CallerType'
  <2>1. call' \in [Clients -> Calls]
    BY <1>1 DEF ProcessEnds
  <2>2. holds' \in [Clients -> SUBSET Seqs] /\ chan' \in Seq(Cmds)
    BY DEF ProcessEnds
  <2> QED
    BY <2>1, <2>2 DEF CallerType
<1>5. CommandsAreCalls'
  BY DEF ProcessEnds, CommandsAreCalls
<1>6. RowsNumbered'
  BY DEF ProcessEnds, diskVars, TypeInv, RowsNumbered, TypeOK, DiskType
<1> QED
  BY <1>2, <1>3, <1>4, <1>5, <1>6 DEF TypeInv, TypeOK

(* Aging keeps the types. *)
LEMMA AgeType ==
  ASSUME TypeInv, NEW m \in Msgs, Age(m)
  PROVE  TypeInv'
<1>1. DiskType' /\ HistoryType'
  BY DEF Age, TypeInv, TypeOK, DiskType, HistoryType
<1>2. WorkerType'
  BY DEF Age, TypeInv, TypeOK, WorkerType, winVars
<1>3. CallerType' /\ CommandsAreCalls'
  BY CommandsUntouched DEF Age, TypeInv, TypeOK, CallerType, callVars
<1>4. RowsNumbered'
  BY RowsUntouched DEF Age, winVars
<1> QED
  BY <1>1, <1>2, <1>3, <1>4 DEF TypeInv, TypeOK

(* Every step keeps the types. *)
LEMMA TypeInvStep ==
  TypeInv /\ [Next]_vars => TypeInv'
<1> SUFFICES ASSUME TypeInv, [Next]_vars PROVE TypeInv'
  OBVIOUS
<1>1. CASE Open
  BY <1>1, OpenType
<1>2. CASE Maintenance
  BY <1>2, MaintenanceType
<1>3. CASE Command
  BY <1>3, CommandType
<1>4. CASE Caller
  BY <1>4, CallerTypeStep
<1>5. CASE \E m \in Msgs : Age(m)
  BY <1>5, AgeType
<1>6. CASE Crash
  BY <1>6, FaultType, ProcessEndsType DEF Crash
<1>7. CASE Exit
  BY <1>7, ProcessEndsType DEF Exit, TypeInv, TypeOK, HistoryType
<1>8. CASE UNCHANGED vars
  <2>1. DiskType' /\ HistoryType'
    BY <1>8 DEF vars, TypeInv, TypeOK, DiskType, HistoryType
  <2>2. WorkerType'
    BY <1>8 DEF vars, TypeInv, TypeOK, WorkerType
  <2>3. CallerType' /\ CommandsAreCalls' /\ RowsNumbered'
    BY <1>8, CommandsUntouched, RowsUntouched DEF vars, TypeInv, TypeOK, CallerType
  <2> QED
    BY <2>1, <2>2, <2>3 DEF TypeInv, TypeOK
<1> QED
  BY <1>1, <1>2, <1>3, <1>4, <1>5, <1>6, <1>7, <1>8 DEF Next

(* The worker, the database and the callers never leave their types: in     *)
(* particular every handled command has a sender that is blocked in it or   *)
(* has gone, and the byte counter never goes negative.                      *)
THEOREM TypeCorrect ==
  Spec => []TypeOK
<1>1. Spec => []TypeInv
  BY TypeInvInit, TypeInvStep, PTL DEF Spec
<1>2. TypeInv => TypeOK
  BY DEF TypeInv
<1> QED
  BY <1>1, <1>2, PTL

-----------------------------------------------------------------------------
(* The inductive invariant: the window over the database is sound, the      *)
(* backlog outside it can always be found again, and every row in flight    *)
(* has exactly one owner.                                                   *)

WindowInv == WindowSound /\ BacklogAbove /\ WindowFilled

OwnerInv == SettlesOwn /\ DeliveriesRegistered /\ HoldsExclusive /\ InflightOwned

IInv == TypeInv /\ WindowInv /\ OwnerInv /\ DownIsEmpty

-----------------------------------------------------------------------------
(* The window *)

(* The sizes of the window are numbers. *)
LEMMA HeldType ==
  ASSUME TypeInv
  PROVE  /\ Len(mem) \in Nat /\ Cardinality(inflight) \in Nat /\ Held \in Nat
         /\ MemoryRecords \in Nat \ {0} /\ IsFiniteSet(inflight)
<1>1. Len(mem) \in Nat
  BY DEF TypeInv, TypeOK, WorkerType
<1>2. IsFiniteSet(inflight) /\ Cardinality(inflight) \in Nat
  BY SeqsFinite DEF TypeInv, TypeOK, WorkerType
<1> QED
  BY <1>1, <1>2, ConfigAssumption DEF Held

(* Steps that leave the window keep what is said of it. *)
LEMMA WindowUntouched ==
  ASSUME WindowInv, UNCHANGED <<disk, mem, inflight, lastLoaded>>,
         pc' \in {"flush", "recv", "cmd"} /\ ~loadErr' =>
            \/ pc \in {"flush", "recv", "cmd"} /\ ~loadErr
            \/ Held >= MemoryRecords
  PROVE  WindowInv'
<1>1. Queued' = Queued /\ Loaded' = Loaded /\ Held' = Held
  BY DEF Queued, Loaded, Held
<1>2. WindowSound'
  BY <1>1 DEF WindowInv, WindowSound
<1>3. BacklogAbove'
  BY <1>1 DEF WindowInv, BacklogAbove
<1>4. WindowFilled'
  BY <1>1 DEF WindowInv, WindowFilled
<1> QED
  BY <1>2, <1>3, <1>4 DEF WindowInv

(* A record goes back to its place in the send queue: the window holds the  *)
(* same rows.                                                               *)
LEMMA RequeueWindow ==
  ASSUME TypeInv, WindowInv, NEW s \in Seqs, Requeue(s),
         UNCHANGED <<disk, lastLoaded, loadErr>>,
         pc' \in {"flush", "recv", "cmd"} => pc \in {"flush", "recv", "cmd"}
  PROVE  WindowInv' /\ Loaded' = Loaded
<1>1. s \in inflight /\ inflight' = inflight \ {s} /\ mem' \in Reinsert(mem, s)
  BY DEF Requeue
<1>2. mem \in Seq(Seqs) /\ Ascends(mem) /\ s \notin Range(mem)
  BY <1>1 DEF TypeInv, TypeOK, WorkerType, WindowInv, WindowSound, Ascends, Queued
<1>3. /\ mem' \in Seq(Seqs) /\ Len(mem') = Len(mem) + 1
      /\ Range(mem') = Range(mem) \cup {s} /\ Ascends(mem')
  BY <1>1, <1>2, ReinsertProperties
<1>4. Cardinality(inflight') = Cardinality(inflight) - 1
  BY <1>1, HeldType, FS_RemoveElement
<1>5. Loaded' = Loaded /\ Queued' \cap inflight' = {}
  BY <1>1, <1>2, <1>3 DEF Loaded, Queued, WindowInv, WindowSound
<1>6. Held' = Held
  BY <1>3, <1>4, HeldType DEF Held
<1>7. WindowSound'
  BY <1>3, <1>5, <1>6 DEF WindowInv, WindowSound, Ascends
<1>8. BacklogAbove' /\ WindowFilled'
  BY <1>5, <1>6 DEF WindowInv, BacklogAbove, WindowFilled
<1> QED
  BY <1>5, <1>7, <1>8 DEF WindowInv

(* cleanup_expired deletes rows of the send queue only. *)
LEMMA CleanupWindow ==
  ASSUME TypeInv, WindowInv, CleanupExpired
  PROVE  WindowInv'
<1>1. /\ disk' = disk \ Expired /\ mem' \in Without(mem, Expired)
      /\ inflight' = inflight /\ lastLoaded' = lastLoaded /\ pc' = "load"
  BY DEF CleanupExpired, DeleteRows
<1>2. mem \in Seq(Seqs) /\ Ascends(mem) /\ Seqs \subseteq Int
  BY DEF TypeInv, TypeOK, WorkerType, WindowInv, WindowSound, Ascends, Seqs
<1>3. /\ mem' \in Seq(Seqs) /\ Range(mem') = Range(mem) \ Expired
      /\ Len(mem') <= Len(mem) /\ Ascends(mem')
  BY <1>1, <1>2, WithoutProperties
<1>4. Expired \cap inflight = {}
  BY DEF Expired, WindowInv, WindowSound
<1>5. Queued' = Queued \ Expired /\ Loaded' = Loaded \ Expired
  BY <1>1, <1>3, <1>4 DEF Queued, Loaded
<1>6. Held' <= MemoryRecords
  <2>1. Len(mem') \in Nat
    BY <1>3
  <2> QED
    BY <2>1, <1>1, <1>3, HeldType DEF Held, WindowInv, WindowSound
<1>7. WindowSound'
  BY <1>1, <1>3, <1>5, <1>6 DEF WindowInv, WindowSound, Ascends
<1>8. BacklogAbove'
  BY <1>1, <1>5 DEF WindowInv, BacklogAbove
<1>9. WindowFilled'
  BY <1>1 DEF WindowFilled
<1> QED
  BY <1>7, <1>8, <1>9 DEF WindowInv

(* load_more continues where the window ends. *)
LEMMA LoadWindow ==
  ASSUME TypeInv, WindowInv, LoadMore
  PROVE  WindowInv'
<1>1. PICK page \in Page(AboveWatermark, MemoryRecords - Held) :
        /\ mem' = mem \o page
        /\ lastLoaded' = IF page = <<>> THEN lastLoaded ELSE page[Len(page)]
  BY DEF LoadMore
<1>2. disk' = disk /\ inflight' = inflight /\ Held < MemoryRecords
  BY DEF LoadMore, diskVars
<1> DEFINE rows == AboveWatermark
<1>3. /\ rows \in SUBSET Seqs /\ rows \subseteq disk
      /\ \A s \in rows, h \in Loaded : h < s
      /\ \A u \in disk \ Loaded : u \in rows
  <2>1. disk \subseteq Seqs /\ Loaded \subseteq disk
    BY DEF TypeInv, TypeOK, DiskType, WindowInv, WindowSound
  <2>2. rows \subseteq disk /\ \A s \in rows, h \in Loaded : s > h
    BY DEF AboveWatermark
  <2>3. \A u \in disk \ Loaded : u > lastLoaded /\ \A h \in Loaded : h < u
    BY DEF WindowInv, BacklogAbove
  <2>4. \A s, h \in Seqs : s > h <=> h < s
    BY DEF Seqs
  <2>5. \A u \in disk \ Loaded : u \in rows
    BY <2>1, <2>3, <2>4 DEF AboveWatermark
  <2> QED
    BY <2>1, <2>2, <2>4, <2>5
<1>4. MemoryRecords - Held \in Nat
  BY <1>2, HeldType
<1>5. /\ page \in Seq(Seqs) /\ Ascends(page) /\ Range(page) \subseteq rows
      /\ \A s \in Range(page), t \in rows \ Range(page) : s < t
      /\ Len(page) <= MemoryRecords - Held
      /\ Len(page) < MemoryRecords - Held => Range(page) = rows
  BY <1>1, <1>3, <1>4, PageProperties
<1> HIDE DEF rows
<1>6. /\ mem \in Seq(Seqs) /\ Ascends(mem) /\ Len(mem) \in Nat /\ Len(page) \in Nat
      /\ \A i \in 1 .. Len(mem) : mem[i] \in Seqs
      /\ \A i \in 1 .. Len(page) : page[i] \in Seqs
  BY <1>5 DEF TypeInv, TypeOK, WorkerType, WindowInv, WindowSound, Ascends
<1>7. /\ mem' \in Seq(Seqs) /\ Len(mem') = Len(mem) + Len(page)
      /\ \A i \in 1 .. Len(mem) + Len(page) :
            mem'[i] = IF i <= Len(mem) THEN mem[i] ELSE page[i - Len(mem)]
  BY <1>1, <1>5, <1>6, ConcatProperties
<1>8. Range(mem') = Range(mem) \cup Range(page)
  BY <1>1, <1>5, <1>6, RangeConcatenation
<1>9. Loaded' = Loaded \cup Range(page) /\ Queued' = Queued \cup Range(page)
  BY <1>2, <1>8 DEF Loaded, Queued
<1>10. Held' = Held + Len(page)
  BY <1>2, <1>6, <1>7, HeldType DEF Held
<1>11. Ascends(mem')
  <2>1. SUFFICES ASSUME NEW i \in 1 .. Len(mem) + Len(page),
                        NEW j \in 1 .. Len(mem) + Len(page), i < j
                 PROVE  mem'[i] < mem'[j]
    BY <1>6, <1>7 DEF Ascends
  <2>2. CASE j <= Len(mem)
    BY <2>1, <2>2, <1>6, <1>7 DEF Ascends
  <2>3. CASE i <= Len(mem) /\ j > Len(mem)
    <3>1. mem'[i] = mem[i] /\ mem[i] \in Loaded
      BY <2>3, <1>6, <1>7 DEF Loaded, Queued, Range
    <3>2. j - Len(mem) \in DOMAIN page /\ mem'[j] = page[j - Len(mem)]
      BY <2>3, <1>5, <1>6, <1>7
    <3>3. page[j - Len(mem)] \in rows
      BY <3>2, <1>5 DEF Range
    <3> QED
      BY <3>1, <3>2, <3>3, <1>3
  <2>4. CASE i > Len(mem)
    <3>1. /\ i - Len(mem) \in DOMAIN page /\ j - Len(mem) \in DOMAIN page
          /\ i - Len(mem) < j - Len(mem)
          /\ mem'[i] = page[i - Len(mem)] /\ mem'[j] = page[j - Len(mem)]
      BY <2>1, <2>4, <1>5, <1>6, <1>7
    <3> QED
      BY <3>1, <1>5 DEF Ascends
  <2> QED
    BY <2>2, <2>3, <2>4, <1>6
<1>12. Range(page) \cap Loaded = {}
  <2>1. \A s \in Seqs : ~(s < s)
    BY DEF Seqs
  <2> QED
    BY <2>1, <1>3, <1>5
<1>13. WindowSound'
  <2>1. Queued' \cap inflight' = {}
    BY <1>2, <1>9, <1>12 DEF Loaded, WindowInv, WindowSound
  <2>2. Loaded' \subseteq disk'
    BY <1>2, <1>3, <1>5, <1>9 DEF WindowInv, WindowSound
  <2>3. Held' <= MemoryRecords
    BY <1>4, <1>5, <1>6, <1>10, HeldType
  <2> QED
    BY <2>1, <2>2, <2>3, <1>11 DEF WindowSound, Ascends
<1>14. BacklogAbove'
  <2>1. SUFFICES ASSUME NEW u \in disk \ (Loaded \cup Range(page))
                 PROVE  u > lastLoaded' /\ \A h \in Loaded \cup Range(page) : h < u
    BY <1>2, <1>9 DEF BacklogAbove
  <2>2. u \in rows /\ u > lastLoaded /\ u \in Seqs
    BY <1>3 DEF WindowInv, BacklogAbove
  <2>3. \A h \in Loaded \cup Range(page) : h < u
    BY <2>2, <1>3, <1>5
  <2>4. CASE page = <<>>
    BY <2>2, <2>3, <2>4, <1>1
  <2>5. CASE page # <<>>
    <3>1. Len(page) \in 1 .. Len(page)
      BY <2>5, <1>5, <1>6, EmptySeq
    <3>2. lastLoaded' \in Range(page)
      BY <3>1, <2>5, <1>1, <1>5 DEF Range
    <3>3. lastLoaded' \in Seqs
      BY <3>2, <1>3, <1>5
    <3> QED
      BY <3>2, <3>3, <2>2, <2>3 DEF Seqs
  <2> QED
    BY <2>4, <2>5
<1>15. WindowFilled'
  <2>1. CASE Len(page) < MemoryRecords - Held
    BY <2>1, <1>2, <1>3, <1>5, <1>9 DEF WindowFilled
  <2>2. CASE Len(page) = MemoryRecords - Held
    BY <2>2, <1>10, HeldType DEF WindowFilled
  <2> QED
    BY <2>1, <2>2, <1>4, <1>5, <1>6
<1> QED
  BY <1>13, <1>14, <1>15 DEF WindowInv

(* A new row has the highest local_seq.  It enters the send queue only when *)
(* nothing is left outside the window.                                      *)
LEMMA InsertWindow ==
  ASSUME TypeInv, WindowInv, NEW m \in Msgs, InsertRow(m),
         pc \in {"flush", "cmd"}
  PROVE  WindowInv'
<1> DEFINE n == seqCtr + 1
<1>1. /\ disk' = disk \cup {n} /\ inflight' = inflight /\ lastLoaded' = lastLoaded
      /\ loadErr' = loadErr
      /\ mem' = IF WindowOpen THEN Append(mem, n) ELSE mem
  BY DEF InsertRow
<1>2. n \in Seqs /\ seqCtr' = n
  BY InsertRowType
<1>3. /\ \A s \in disk : s < n
      /\ lastLoaded < n
      /\ \A h \in Loaded : h < n
  <2>1. seqCtr \in Nat /\ lastLoaded \in Nat /\ lastLoaded <= seqCtr
    BY DEF TypeInv, TypeOK, DiskType, WorkerType, RowsNumbered
  <2>2. \A s \in disk : s \in 1 .. seqCtr
    BY DEF TypeInv, RowsNumbered
  <2>3. Loaded \subseteq disk
    BY DEF WindowInv, WindowSound
  <2> QED
    BY <2>1, <2>2, <2>3
<1>3a. n \notin disk /\ n \notin Loaded
  BY <1>2, <1>3 DEF Seqs
<1>4. mem \in Seq(Seqs) /\ Ascends(mem) /\ Len(mem) \in Nat
  BY DEF TypeInv, TypeOK, WorkerType, WindowInv, WindowSound, Ascends
<1>5. CASE WindowOpen
  <2>1. disk \subseteq Loaded /\ Held < MemoryRecords
    BY <1>5, HeldType DEF WindowOpen, WindowInv, WindowFilled
  <2> HIDE DEF n
  <2>2. /\ mem' = Append(mem, n) /\ Len(mem') = Len(mem) + 1
        /\ \A i \in 1 .. Len(mem) : mem'[i] = mem[i]
        /\ mem'[Len(mem) + 1] = n
    BY <1>1, <1>2, <1>4, <1>5
  <2>3. DOMAIN mem' = 1 .. Len(mem) + 1 /\ DOMAIN mem = 1 .. Len(mem)
    BY <1>2, <1>4, <2>2
  <2>4. Range(mem') = Range(mem) \cup {n}
    <3>1. \A x \in Range(mem') : x \in Range(mem) \cup {n}
      BY <1>4, <2>2, <2>3 DEF Range
    <3>2. \A x \in Range(mem) : x \in Range(mem')
      BY <1>4, <2>2, <2>3 DEF Range
    <3>3. n \in Range(mem')
      BY <1>4, <2>2, <2>3 DEF Range
    <3> QED
      BY <3>1, <3>2, <3>3
  <2>5. Queued' = Queued \cup {n} /\ Loaded' = Loaded \cup {n}
    BY <1>1, <2>4 DEF Queued, Loaded
  <2>6. Held' = Held + 1
    BY <1>1, <2>2, HeldType DEF Held
  <2>7. Ascends(mem')
    <3>1. \A i \in 1 .. Len(mem) : mem[i] < n
      BY <1>3, <1>4 DEF Loaded, Queued, Range
    <3>2. SUFFICES ASSUME NEW i \in 1 .. Len(mem) + 1, NEW j \in 1 .. Len(mem) + 1, i < j
                   PROVE  mem'[i] < mem'[j]
      BY <2>3 DEF Ascends
    <3>3. CASE j = Len(mem) + 1
      <4>1. i \in 1 .. Len(mem)
        BY <3>2, <3>3, <1>4
      <4> QED
        BY <4>1, <3>1, <3>3, <2>2
    <3>4. CASE j # Len(mem) + 1
      <4>1. i \in 1 .. Len(mem) /\ j \in 1 .. Len(mem)
        BY <3>2, <3>4, <1>4
      <4> QED
        BY <4>1, <3>2, <1>4, <2>2, <2>3 DEF Ascends
    <3> QED
      BY <3>3, <3>4
  <2>8. WindowSound'
    <3>1. Queued' \cap inflight' = {}
      BY <1>1, <1>3a, <2>5 DEF Loaded, WindowInv, WindowSound
    <3>2. Loaded' \subseteq disk'
      BY <1>1, <2>5 DEF WindowInv, WindowSound
    <3>3. Held' <= MemoryRecords
      BY <2>1, <2>6, HeldType
    <3> QED
      BY <3>1, <3>2, <3>3, <2>7 DEF WindowSound, Ascends
  <2>9. BacklogAbove' /\ WindowFilled'
    BY <1>1, <2>1, <2>5 DEF BacklogAbove, WindowFilled
  <2> QED
    BY <2>8, <2>9 DEF WindowInv
<1>6. CASE ~WindowOpen
  <2>1. Queued' = Queued /\ Loaded' = Loaded /\ Held' = Held
    BY <1>1, <1>6 DEF Queued, Loaded, Held
  <2>2. loadErr \/ Held >= MemoryRecords
    BY <1>6, HeldType DEF WindowOpen
  <2> HIDE DEF n
  <2>3. WindowSound'
    BY <1>1, <1>6, <2>1 DEF WindowInv, WindowSound
  <2>4. BacklogAbove'
    <3>1. n > lastLoaded
      BY <1>2, <1>3 DEF Seqs, TypeInv, TypeOK, WorkerType
    <3> QED
      BY <3>1, <1>1, <1>3, <2>1 DEF WindowInv, BacklogAbove
  <2>5. WindowFilled'
    BY <1>1, <2>1, <2>2 DEF WindowFilled
  <2> QED
    BY <2>3, <2>4, <2>5 DEF WindowInv
<1> QED
  BY <1>5, <1>6

(* handle_next moves the lowest row that is not in flight. *)
LEMMA OfferedWindow ==
  ASSUME TypeInv, WindowInv, NextOffered
  PROVE  /\ WindowInv'
         /\ Head(mem) \in disk /\ Head(mem) \notin inflight
         /\ inflight' = inflight \cup {Head(mem)}
         /\ \A t \in disk \ inflight : Head(mem) <= t
<1> DEFINE s == Head(mem)
<1>1. /\ mem # <<>> /\ mem' = Tail(mem) /\ inflight' = inflight \cup {s}
      /\ disk' = disk /\ lastLoaded' = lastLoaded /\ pc' = "confirm"
  BY DEF NextOffered, Dispatch
<1>2. mem \in Seq(Seqs) /\ Ascends(mem)
  BY DEF TypeInv, TypeOK, WorkerType, WindowInv, WindowSound, Ascends
<1>3. /\ s \in Seqs /\ Tail(mem) \in Seq(Seqs) /\ Len(Tail(mem)) = Len(mem) - 1
      /\ Ascends(Tail(mem)) /\ Range(mem) = Range(Tail(mem)) \cup {s}
      /\ \A x \in Range(Tail(mem)) : s < x
  BY <1>1, <1>2, HeadTail
<1> HIDE DEF s
<1>4. s \in Queued /\ s \notin inflight /\ s \in disk /\ s \in Loaded
  BY <1>3 DEF Queued, Loaded, WindowInv, WindowSound
<1>5. Cardinality(inflight') = Cardinality(inflight) + 1
  BY <1>1, <1>4, HeldType, FS_AddElement
<1>6. Loaded' = Loaded /\ Held' = Held
  <2>1. Loaded' = Loaded
    BY <1>1, <1>3 DEF Loaded, Queued
  <2>2. Held' = Held
    BY <1>1, <1>3, <1>5, HeldType DEF Held
  <2> QED
    BY <2>1, <2>2
<1>7. WindowSound'
  <2>1. \A x \in Range(Tail(mem)) : x # s
    <3>1. \A x \in Seqs : ~(x < x)
      BY DEF Seqs
    <3> QED
      BY <3>1, <1>3
  <2>2. Queued' \cap inflight' = {}
    BY <1>1, <1>3, <2>1 DEF Queued, WindowInv, WindowSound
  <2>3. Ascends(mem')
    BY <1>1, <1>3
  <2>4. Held' <= MemoryRecords /\ Loaded' \subseteq disk'
    BY <1>1, <1>6 DEF WindowInv, WindowSound
  <2> QED
    BY <2>2, <2>3, <2>4 DEF WindowSound, Ascends
<1>8. BacklogAbove' /\ WindowFilled'
  BY <1>1, <1>6 DEF WindowInv, BacklogAbove, WindowFilled
<1>9. \A t \in disk \ inflight : s <= t
  <2>1. disk \subseteq Seqs
    BY DEF TypeInv, TypeOK, DiskType
  <2>2. ASSUME NEW t \in disk \ inflight, t \in Queued PROVE s <= t
    BY <2>1, <2>2, <1>3 DEF Queued, Seqs
  <2>3. ASSUME NEW t \in disk \ inflight, t \notin Queued PROVE s <= t
    <3>1. s < t
      BY <2>3, <1>4 DEF Loaded, WindowInv, BacklogAbove
    <3> QED
      BY <3>1, <2>1, <1>3 DEF Seqs
  <2> QED
    BY <2>2, <2>3
<1> QED
  BY <1>1, <1>4, <1>7, <1>8, <1>9 DEF WindowInv, s

(* A reply that cannot be delivered leaves the window as it was. *)
LEMMA UndeliveredWindow ==
  ASSUME TypeInv, WindowInv, NextUndelivered
  PROVE  WindowInv'
<1> DEFINE s == Head(mem)
<1>1. /\ mem # <<>> /\ mem' \in Reinsert(Tail(mem), s) /\ inflight' = inflight
      /\ disk' = disk /\ lastLoaded' = lastLoaded /\ pc' = "confirm"
  BY DEF NextUndelivered, Dispatch
<1>2. mem \in Seq(Seqs) /\ Ascends(mem)
  BY DEF TypeInv, TypeOK, WorkerType, WindowInv, WindowSound, Ascends
<1>3. /\ s \in Seqs /\ Tail(mem) \in Seq(Seqs) /\ Len(Tail(mem)) = Len(mem) - 1
      /\ Ascends(Tail(mem)) /\ Range(mem) = Range(Tail(mem)) \cup {s}
      /\ \A x \in Range(Tail(mem)) : s < x
  BY <1>1, <1>2, HeadTail
<1> HIDE DEF s
<1>4. s \notin Range(Tail(mem))
  BY <1>3 DEF Seqs
<1>5. /\ mem' \in Seq(Seqs) /\ Len(mem') = Len(Tail(mem)) + 1
      /\ Range(mem') = Range(Tail(mem)) \cup {s} /\ Ascends(mem')
  BY <1>1, <1>3, <1>4, ReinsertProperties
<1>6. Queued' = Queued /\ Loaded' = Loaded
  BY <1>1, <1>3, <1>5 DEF Queued, Loaded
<1>7. Held' = Held
  BY <1>1, <1>3, <1>5, HeldType DEF Held
<1>8. WindowSound'
  BY <1>1, <1>5, <1>6, <1>7 DEF WindowInv, WindowSound, Ascends
<1>9. BacklogAbove' /\ WindowFilled'
  BY <1>1, <1>6, <1>7 DEF WindowInv, BacklogAbove, WindowFilled
<1> QED
  BY <1>8, <1>9 DEF WindowInv

(* handle_ack deletes a row that is in flight, or none. *)
LEMMA AckWindow ==
  ASSUME TypeInv, WindowInv, AckDeletes, Head(chan).seq \in disk => Head(chan).seq \in inflight
  PROVE  WindowInv'
<1> DEFINE row == {Head(chan).seq} \cap disk
<1>1. /\ disk' = disk \ row /\ inflight' = inflight \ row /\ mem' = mem
      /\ lastLoaded' = lastLoaded /\ pc' = "confirm"
  BY DEF AckDeletes, DeleteRows, Dispatch
<1>2. row \subseteq inflight
  OBVIOUS
<1> HIDE DEF row
<1>3. Queued' = Queued /\ Queued \cap row = {} /\ Loaded' = Loaded \ row
  BY <1>1, <1>2 DEF Queued, Loaded, WindowInv, WindowSound
<1>4. Held' <= Held /\ Held' \in Nat
  <2>1. inflight' \subseteq inflight
    BY <1>1
  <2>2. Cardinality(inflight') <= Cardinality(inflight) /\ Cardinality(inflight') \in Nat
    BY <2>1, HeldType, FS_Subset, FS_CardinalityType
  <2> QED
    BY <2>2, <1>1, HeldType DEF Held
<1>5. Held' <= MemoryRecords
  BY <1>4, HeldType DEF WindowInv, WindowSound
<1>6. WindowSound'
  BY <1>1, <1>3, <1>5 DEF WindowInv, WindowSound
<1>7. BacklogAbove' /\ WindowFilled'
  BY <1>1, <1>3 DEF WindowInv, BacklogAbove, WindowFilled
<1> QED
  BY <1>6, <1>7 DEF WindowInv

(* open_db loads the first page. *)
LEMMA OpenWindow ==
  ASSUME TypeInv, Open
  PROVE  WindowInv'
<1>1. /\ mem' \in Page(disk, MemoryRecords) /\ inflight' = {} /\ disk' = disk
      /\ lastLoaded' = IF mem' = <<>> THEN 0 ELSE mem'[Len(mem')]
      /\ pc' = "confirm"
  BY DEF Open, diskVars
<1>2. disk \in SUBSET Seqs /\ MemoryRecords \in Nat
  BY ConfigAssumption DEF TypeInv, TypeOK, DiskType
<1>3. /\ mem' \in Seq(Seqs) /\ Ascends(mem') /\ Range(mem') \subseteq disk
      /\ \A s \in Range(mem'), t \in disk \ Range(mem') : s < t
      /\ Len(mem') <= MemoryRecords
  BY <1>1, <1>2, PageProperties
<1>4. Loaded' = Range(mem') /\ Queued' = Range(mem')
  BY <1>1 DEF Loaded, Queued
<1>5. Held' = Len(mem')
  BY <1>1, <1>3, FS_EmptySet DEF Held
<1>6. WindowSound'
  BY <1>1, <1>3, <1>4, <1>5 DEF WindowSound, Ascends
<1>7. BacklogAbove'
  <2>1. SUFFICES ASSUME NEW u \in disk \ Range(mem') PROVE u > lastLoaded'
    BY <1>1, <1>3, <1>4 DEF BacklogAbove
  <2>2. u \in Seqs
    BY <1>2
  <2>3. CASE mem' = <<>>
    BY <2>2, <2>3, <1>1 DEF Seqs
  <2>4. CASE mem' # <<>>
    <3>1. Len(mem') \in DOMAIN mem'
      BY <2>4, <1>3, EmptySeq
    <3>2. lastLoaded' \in Range(mem')
      BY <3>1, <2>4, <1>1 DEF Range
    <3>3. lastLoaded' \in Seqs
      BY <3>2, <1>2, <1>3
    <3> QED
      BY <3>2, <3>3, <2>2, <1>3 DEF Seqs
  <2> QED
    BY <2>3, <2>4
<1>8. WindowFilled'
  BY <1>1 DEF WindowFilled
<1> QED
  BY <1>6, <1>7, <1>8 DEF WindowInv

(* The window is empty when the process has ended. *)
LEMMA ProcessEndsWindow ==
  ASSUME TypeInv, ProcessEnds
  PROVE  WindowInv'
<1>1. /\ mem' = <<>> /\ inflight' = {} /\ disk' = disk /\ lastLoaded' = 0 /\ pc' = "down"
  BY DEF ProcessEnds, diskVars
<1>2. Loaded' = {} /\ Queued' = {}
  BY <1>1 DEF Loaded, Queued, Range
<1>3. Held' = 0 /\ MemoryRecords \in Nat
  BY <1>1, FS_EmptySet, ConfigAssumption DEF Held
<1>4. WindowSound'
  BY <1>1, <1>2, <1>3 DEF WindowSound
<1>5. BacklogAbove'
  BY <1>1, <1>2 DEF BacklogAbove, TypeInv, TypeOK, DiskType, Seqs
<1>6. WindowFilled'
  BY <1>1 DEF WindowFilled
<1> QED
  BY <1>4, <1>5, <1>6 DEF WindowInv

-----------------------------------------------------------------------------
(* Owners *)

(* A step that leaves the deliveries alone, gives no reply of next and      *)
(* starts no settlement; rows may disappear and new ones appear.            *)
LEMMA OwnersUntouched ==
  ASSUME TypeInv, OwnerInv, UNCHANGED <<inflight, confirm, holds>>,
         seqCtr <= seqCtr' /\ seqCtr' \in Nat,
         \A s \in disk' : s \in disk \/ s > seqCtr,
         \A c \in Clients :
            \/ call'[c] = call[c]
            \/ call[c].op # "offered" /\ call'[c].op \notin {"offered", "ack", "requeue"}
  PROVE  OwnerInv'
<1>1. SettlesOwn'
  <2>1. SUFFICES ASSUME NEW c \in Clients, call'[c].op \in {"ack", "requeue"}
                 PROVE  \/ call'[c].seq \in holds[c]
                        \/ call'[c].seq <= seqCtr' /\ call'[c].seq \notin disk'
    BY DEF SettlesOwn
  <2>2. call'[c] = call[c] /\ call[c] \in Calls
    BY <2>1 DEF TypeInv, TypeOK, CallerType
  <2>3. call[c].seq \in Seqs \cup {0} /\ seqCtr \in Nat
    BY <2>2 DEF Calls, TypeInv, TypeOK, DiskType
  <2> QED
    BY <2>1, <2>2, <2>3 DEF OwnerInv, SettlesOwn, Seqs
<1>2. DeliveriesRegistered'
  BY DEF OwnerInv, DeliveriesRegistered
<1>3. HoldsExclusive'
  BY DEF OwnerInv, HoldsExclusive
<1>4. InflightOwned'
  BY DEF OwnerInv, InflightOwned
<1> QED
  BY <1>1, <1>2, <1>3, <1>4 DEF OwnerInv

(* A reply that was taken leaves its row with the caller. *)
LEMMA ConfirmTakenOwners ==
  ASSUME TypeInv, OwnerInv, NEW s \in Seqs, ConfirmTaken(s)
  PROVE  OwnerInv'
<1>1. /\ confirm[s] = "taken" /\ confirm' = [confirm EXCEPT ![s] = "none"]
      /\ UNCHANGED <<disk, seqCtr, inflight, call, holds>>
  BY DEF ConfirmTaken, diskVars, winVars, callVars
<1>2. \A t \in Seqs : confirm'[t] = IF t = s THEN "none" ELSE confirm[t]
  BY <1>1 DEF TypeInv, TypeOK, WorkerType
<1>3. SettlesOwn' /\ HoldsExclusive'
  BY <1>1 DEF OwnerInv, SettlesOwn, HoldsExclusive
<1>4. DeliveriesRegistered'
  BY <1>1, <1>2 DEF OwnerInv, DeliveriesRegistered
<1>5. InflightOwned'
  <2>1. inflight \subseteq Seqs
    BY DEF TypeInv, TypeOK, WorkerType
  <2> QED
    BY <2>1, <1>1, <1>2 DEF OwnerInv, InflightOwned
<1> QED
  BY <1>3, <1>4, <1>5 DEF OwnerInv

(* A reply nobody takes gives its row back. *)
LEMMA ConfirmClosedOwners ==
  ASSUME TypeInv, OwnerInv, NEW s \in Seqs, ConfirmClosed(s)
  PROVE  OwnerInv'
<1>1. /\ confirm[s] = "closed" /\ confirm' = [confirm EXCEPT ![s] = "none"]
      /\ inflight' = inflight \ {s}
      /\ UNCHANGED <<disk, seqCtr, call, holds>>
  BY DEF ConfirmClosed, Requeue, diskVars, callVars
<1>2. \A t \in Seqs : confirm'[t] = IF t = s THEN "none" ELSE confirm[t]
  BY <1>1 DEF TypeInv, TypeOK, WorkerType
<1>3. \A c \in Clients : s \notin holds[c]
  BY <1>1 DEF OwnerInv, DeliveriesRegistered
<1>4. SettlesOwn' /\ HoldsExclusive'
  BY <1>1, <1>3 DEF OwnerInv, SettlesOwn, HoldsExclusive
<1>5. DeliveriesRegistered'
  BY <1>1, <1>2 DEF OwnerInv, DeliveriesRegistered
<1>6. InflightOwned'
  <2>1. inflight \subseteq Seqs
    BY DEF TypeInv, TypeOK, WorkerType
  <2> QED
    BY <2>1, <1>1, <1>2 DEF OwnerInv, InflightOwned
<1> QED
  BY <1>4, <1>5, <1>6 DEF OwnerInv

(* A row that is offered belonged to nobody. *)
LEMMA OfferedOwners ==
  ASSUME TypeInv, WindowInv, OwnerInv, NextOffered
  PROVE  OwnerInv'
<1> DEFINE s == Head(mem)
           b == Head(chan).by
<1>1. s \in disk /\ s \notin inflight /\ inflight' = inflight \cup {s} /\ s \in Seqs
  BY OfferedWindow DEF TypeInv, TypeOK, DiskType
<1>2. /\ confirm' = [confirm EXCEPT ![s] = "waiting"]
      /\ call' = [call EXCEPT ![b] = [op |-> "offered", msg |-> msgOf[s], seq |-> s,
                                      replayed |-> Replayed(s)]]
      /\ UNCHANGED <<disk, seqCtr, holds>>
  BY DEF NextOffered
<1>3. b \in Clients /\ call[b].op = "next"
  BY DispatchFacts DEF NextOffered
<1> HIDE DEF s, b
<1>4. \A t \in Seqs : confirm'[t] = IF t = s THEN "waiting" ELSE confirm[t]
  BY <1>1, <1>2 DEF TypeInv, TypeOK, WorkerType
<1>5. /\ call'[b].op = "offered" /\ call'[b].seq = s
      /\ \A d \in Clients : d # b => call'[d] = call[d]
  BY <1>2, <1>3 DEF TypeInv, TypeOK, CallerType
<1>6. /\ \A c \in Clients : s \notin holds[c]
      /\ \A c \in Clients : ~(call[c].op = "offered" /\ call[c].seq = s)
  BY <1>1 DEF OwnerInv, HoldsExclusive, DeliveriesRegistered
<1>7. SettlesOwn'
  BY <1>2, <1>3, <1>5 DEF OwnerInv, SettlesOwn
<1>8. HoldsExclusive'
  BY <1>1, <1>2, <1>5, <1>6 DEF OwnerInv, HoldsExclusive
<1>9. DeliveriesRegistered'
  <2>1. \A t \in Seqs : confirm'[t] # "none" => t \in inflight'
    BY <1>1, <1>4 DEF OwnerInv, DeliveriesRegistered
  <2>2. \A t \in Seqs : confirm'[t] \in {"waiting", "closed"} =>
          \A c \in Clients : t \notin holds'[c]
    BY <1>2, <1>4, <1>6 DEF OwnerInv, DeliveriesRegistered
  <2>3. ASSUME NEW c \in Clients, call'[c].op = "offered"
        PROVE  /\ call'[c].seq \in Seqs
               /\ confirm'[call'[c].seq] = "waiting"
               /\ \A d \in Clients \ {c} :
                     ~(call'[d].op = "offered" /\ call'[d].seq = call'[c].seq)
    <3>1. CASE c = b
      BY <3>1, <1>1, <1>4, <1>5, <1>6
    <3>2. CASE c # b
      <4>1. call'[c] = call[c] /\ call[c].seq # s
        BY <3>2, <2>3, <1>5, <1>6
      <4> QED
        BY <4>1, <2>3, <1>4, <1>5 DEF OwnerInv, DeliveriesRegistered
    <3> QED
      BY <3>1, <3>2
  <2> QED
    BY <2>1, <2>2, <2>3 DEF DeliveriesRegistered
<1>10. InflightOwned'
  <2>1. inflight \subseteq Seqs
    BY DEF TypeInv, TypeOK, WorkerType
  <2>2. ASSUME NEW t \in inflight
        PROVE  \/ \E c \in Clients : t \in holds'[c]
               \/ confirm'[t] = "closed"
               \/ \E c \in Clients : call'[c].op = "offered" /\ call'[c].seq = t
    <3>1. t # s /\ confirm'[t] = confirm[t]
      BY <2>1, <1>1, <1>4
    <3>2. \A c \in Clients : call[c].op = "offered" => call'[c] = call[c]
      BY <1>3, <1>5
    <3> QED
      BY <3>1, <3>2, <1>2 DEF OwnerInv, InflightOwned
  <2> QED
    BY <2>2, <1>1, <1>3, <1>5 DEF InflightOwned
<1> QED
  BY <1>7, <1>8, <1>9, <1>10 DEF OwnerInv

(* The row of an ack or a requeue that still exists is held by its sender,  *)
(* its delivery has been confirmed, and nobody else has it.                 *)
LEMMA SettlingOwn ==
  ASSUME TypeInv, WindowInv, OwnerInv, NEW o \in {"ack", "requeue"}, Dispatch(o),
         Head(chan).seq \in disk
  PROVE  /\ Head(chan).by \in Clients
         /\ Head(chan).seq \in holds[Head(chan).by]
         /\ Head(chan).seq \in inflight
         /\ confirm[Head(chan).seq] = "none"
<1>1. /\ Head(chan).by \in Clients /\ call[Head(chan).by].op = o
      /\ call[Head(chan).by].seq = Head(chan).seq
  BY DispatchFacts
<1>2. Head(chan).seq \in holds[Head(chan).by]
  BY <1>1 DEF OwnerInv, SettlesOwn
<1>3. Head(chan).seq \in inflight /\ Head(chan).seq \in Seqs
  BY <1>1, <1>2 DEF OwnerInv, HoldsExclusive, TypeInv, TypeOK, DiskType
<1>4. confirm[Head(chan).seq] \notin {"waiting", "closed", "taken"}
  BY <1>1, <1>2, <1>3 DEF OwnerInv, DeliveriesRegistered, Dispatch, ConfirmsSettled
<1>5. confirm[Head(chan).seq] \in {"none", "waiting", "taken", "closed"}
  BY <1>3 DEF TypeInv, TypeOK, WorkerType
<1> QED
  BY <1>1, <1>2, <1>3, <1>4, <1>5

(* Settling a row ends its ownership: it leaves inflight (unless it was not *)
(* there) and the set its sender holds.                                     *)
LEMMA SettledOwners ==
  ASSUME TypeInv, WindowInv, OwnerInv, NEW o \in {"ack", "requeue"}, Dispatch(o),
         seqCtr' = seqCtr, disk' \subseteq disk, confirm' = confirm,
         inflight' = inflight \ {Head(chan).seq},
         holds' = [holds EXCEPT ![Head(chan).by] = @ \ {Head(chan).seq}],
         Return({Head(chan).by})
  PROVE  OwnerInv'
<1> DEFINE s == Head(chan).seq
           b == Head(chan).by
<1>1. b \in Clients
  BY DispatchFacts
<1>2. /\ s \in inflight => s \in disk
      /\ s \in disk => s \in holds[b] /\ s \in inflight /\ confirm[s] = "none"
  <2>1. inflight \subseteq disk
    BY DEF WindowInv, WindowSound, Loaded
  <2> QED
    BY <2>1, SettlingOwn
<1>3. /\ inflight' = inflight \ {s} /\ holds' = [holds EXCEPT ![b] = @ \ {s}]
  OBVIOUS
<1>4. \A c \in Clients : call'[c] = IF c = b THEN IdleCall ELSE call[c]
  BY ReturnType
<1>5. call[b].op \in {"ack", "requeue"}
  BY DispatchFacts
<1> HIDE DEF s, b
<1>6. holds'[b] = holds[b] \ {s} /\ \A c \in Clients \ {b} : holds'[c] = holds[c]
  BY <1>1, <1>3 DEF TypeInv, TypeOK, CallerType
<1>7. \A c \in Clients : s \notin holds'[c]
  <2>1. \A c \in Clients \ {b} : s \notin holds[c]
    BY <1>1, <1>2 DEF OwnerInv, HoldsExclusive
  <2> QED
    BY <2>1, <1>6
<1>8. SettlesOwn'
  <2>1. SUFFICES ASSUME NEW c \in Clients, call'[c].op \in {"ack", "requeue"}
                 PROVE  \/ call'[c].seq \in holds'[c]
                        \/ call'[c].seq <= seqCtr' /\ call'[c].seq \notin disk'
    BY DEF SettlesOwn
  <2>2. c # b /\ call'[c] = call[c]
    BY <2>1, <1>4 DEF IdleCall
  <2> QED
    BY <2>1, <2>2, <1>6 DEF OwnerInv, SettlesOwn
<1>9. HoldsExclusive'
  <2>1. SUFFICES ASSUME NEW c \in Clients, NEW t \in holds'[c]
                 PROVE  /\ t \in inflight'
                        /\ \A d \in Clients \ {c} : t \notin holds'[d]
                        /\ \A d \in Clients : call'[d].op = "offered" => call'[d].seq # t
    BY DEF HoldsExclusive
  <2>2. t \in holds[c] /\ t # s
    BY <1>6, <1>7
  <2>3. \A d \in Clients : call'[d].op = "offered" => call'[d] = call[d]
    BY <1>4 DEF IdleCall
  <2> QED
    BY <2>2, <2>3, <1>3, <1>6 DEF OwnerInv, HoldsExclusive
<1>10. DeliveriesRegistered'
  <2>1. \A t \in Seqs : confirm'[t] # "none" => t \in inflight'
    BY <1>2, <1>3 DEF OwnerInv, DeliveriesRegistered
  <2>2. \A t \in Seqs : confirm'[t] \in {"waiting", "closed"} =>
          \A c \in Clients : t \notin holds'[c]
    BY <1>6 DEF OwnerInv, DeliveriesRegistered
  <2>3. \A d \in Clients : call'[d].op = "offered" => call'[d] = call[d]
    BY <1>4 DEF IdleCall
  <2> QED
    BY <2>1, <2>2, <2>3 DEF OwnerInv, DeliveriesRegistered
<1>11. InflightOwned'
  <2>1. SUFFICES ASSUME NEW t \in inflight, t # s
                 PROVE  \/ \E c \in Clients : t \in holds'[c]
                        \/ confirm'[t] = "closed"
                        \/ \E c \in Clients : call'[c].op = "offered" /\ call'[c].seq = t
    BY <1>3 DEF InflightOwned
  <2>2. \A c \in Clients : call[c].op = "offered" => call'[c] = call[c]
    BY <1>4, <1>5
  <2>3. \A c \in Clients : t \in holds[c] => t \in holds'[c]
    BY <2>1, <1>6
  <2> QED
    BY <2>2, <2>3 DEF OwnerInv, InflightOwned
<1> QED
  BY <1>8, <1>9, <1>10, <1>11 DEF OwnerInv

(* A caller that takes its reply holds the row. *)
LEMMA TakeReplyOwners ==
  ASSUME TypeInv, OwnerInv, NEW c \in Clients, TakeReply(c)
  PROVE  OwnerInv'
<1> DEFINE s == call[c].seq
<1>1. /\ call[c].op = "offered" /\ s \in Seqs /\ confirm[s] = "waiting" /\ s \in inflight
      /\ \A d \in Clients : s \notin holds[d]
      /\ \A d \in Clients \ {c} : ~(call[d].op = "offered" /\ call[d].seq = s)
  BY DEF TakeReply, OwnerInv, DeliveriesRegistered
<1>2. /\ holds' = [holds EXCEPT ![c] = @ \cup {s}]
      /\ call' = [call EXCEPT ![c] = IdleCall]
      /\ confirm' = [confirm EXCEPT ![s] = "taken"]
      /\ UNCHANGED <<disk, seqCtr, inflight>>
  BY DEF TakeReply, diskVars, winVars
<1> HIDE DEF s
<1>3. /\ holds'[c] = holds[c] \cup {s} /\ \A d \in Clients \ {c} : holds'[d] = holds[d]
      /\ \A d \in Clients : call'[d] = IF d = c THEN IdleCall ELSE call[d]
  BY <1>2 DEF TypeInv, TypeOK, CallerType
<1>4. \A t \in Seqs : confirm'[t] = IF t = s THEN "taken" ELSE confirm[t]
  BY <1>1, <1>2 DEF TypeInv, TypeOK, WorkerType
<1>5. \A d \in Clients : call'[d].op # "idle" => d # c /\ call'[d] = call[d]
  BY <1>3 DEF IdleCall
<1>6. SettlesOwn'
  BY <1>2, <1>3, <1>5 DEF OwnerInv, SettlesOwn
<1>7. HoldsExclusive'
  <2>1. SUFFICES ASSUME NEW d \in Clients, NEW t \in holds'[d]
                 PROVE  /\ t \in inflight'
                        /\ \A e \in Clients \ {d} : t \notin holds'[e]
                        /\ \A e \in Clients : call'[e].op = "offered" => call'[e].seq # t
    BY DEF HoldsExclusive
  <2>2. CASE t = s
    BY <2>2, <1>1, <1>2, <1>3, <1>5
  <2>3. CASE t # s
    BY <2>3, <1>2, <1>3, <1>5 DEF OwnerInv, HoldsExclusive
  <2> QED
    BY <2>2, <2>3
<1>8. DeliveriesRegistered'
  <2>1. \A t \in Seqs : confirm'[t] # "none" => t \in inflight'
    BY <1>1, <1>2, <1>4 DEF OwnerInv, DeliveriesRegistered
  <2>2. \A t \in Seqs : confirm'[t] \in {"waiting", "closed"} =>
          \A d \in Clients : t \notin holds'[d]
    BY <1>3, <1>4 DEF OwnerInv, DeliveriesRegistered
  <2>3. ASSUME NEW d \in Clients, call'[d].op = "offered"
        PROVE  /\ call'[d].seq \in Seqs
               /\ confirm'[call'[d].seq] = "waiting"
               /\ \A e \in Clients \ {d} :
                     ~(call'[e].op = "offered" /\ call'[e].seq = call'[d].seq)
    <3>1. d # c /\ call'[d] = call[d] /\ call[d].seq # s
      BY <2>3, <1>1, <1>5
    <3> QED
      BY <3>1, <2>3, <1>4, <1>5 DEF OwnerInv, DeliveriesRegistered
  <2> QED
    BY <2>1, <2>2, <2>3 DEF DeliveriesRegistered
<1>9. InflightOwned'
  <2>1. SUFFICES ASSUME NEW t \in inflight
                 PROVE  \/ \E d \in Clients : t \in holds'[d]
                        \/ confirm'[t] = "closed"
                        \/ \E d \in Clients : call'[d].op = "offered" /\ call'[d].seq = t
    BY <1>2 DEF InflightOwned
  <2>2. CASE t = s
    BY <2>2, <1>3
  <2>3. CASE t # s
    <3>1. t \in Seqs /\ confirm'[t] = confirm[t]
      BY <2>3, <1>4 DEF TypeInv, TypeOK, WorkerType
    <3>2. \A d \in Clients : call[d].op = "offered" /\ call[d].seq = t => call'[d] = call[d]
      BY <2>3, <1>3 DEF s
    <3> QED
      BY <3>1, <3>2, <1>3 DEF OwnerInv, InflightOwned
  <2> QED
    BY <2>2, <2>3
<1> QED
  BY <1>6, <1>7, <1>8, <1>9 DEF OwnerInv

(* A caller that goes away leaves its row to the worker. *)
LEMMA CancelOwners ==
  ASSUME TypeInv, OwnerInv, NEW c \in Clients, Cancel(c)
  PROVE  OwnerInv'
<1>1. /\ call' = [call EXCEPT ![c] = IdleCall]
      /\ UNCHANGED <<disk, seqCtr, inflight, holds>>
      /\ call[c].op \notin {"ack", "requeue"}
  BY DEF Cancel, diskVars, winVars
<1>2. \A t \in Seqs : confirm'[t] = IF call[c].op = "offered" /\ call[c].seq = t
                                    THEN "closed" ELSE confirm[t]
  BY DEF Cancel
<1>3. \A d \in Clients : call'[d] = IF d = c THEN IdleCall ELSE call[d]
  BY <1>1 DEF TypeInv, TypeOK, CallerType
<1>4. \A d \in Clients : call'[d].op # "idle" => d # c /\ call'[d] = call[d]
  BY <1>3 DEF IdleCall
<1>5. SettlesOwn' /\ HoldsExclusive'
  BY <1>1, <1>4 DEF OwnerInv, SettlesOwn, HoldsExclusive
<1>6. DeliveriesRegistered'
  <2>1. \A t \in Seqs : confirm'[t] # confirm[t] =>
          call[c].op = "offered" /\ call[c].seq = t /\ confirm[t] = "waiting"
    BY <1>2 DEF OwnerInv, DeliveriesRegistered
  <2>2. \A t \in Seqs : confirm'[t] # "none" => t \in inflight'
    BY <2>1, <1>1 DEF OwnerInv, DeliveriesRegistered
  <2>3. \A t \in Seqs : confirm'[t] \in {"waiting", "closed"} =>
          \A d \in Clients : t \notin holds'[d]
    BY <2>1, <1>1 DEF OwnerInv, DeliveriesRegistered
  <2>4. ASSUME NEW d \in Clients, call'[d].op = "offered"
        PROVE  /\ call'[d].seq \in Seqs
               /\ confirm'[call'[d].seq] = "waiting"
               /\ \A e \in Clients \ {d} :
                     ~(call'[e].op = "offered" /\ call'[e].seq = call'[d].seq)
    <3>1. d # c /\ call'[d] = call[d]
      BY <2>4, <1>4
    <3>2. ~(call[c].op = "offered" /\ call[c].seq = call[d].seq)
      BY <3>1, <2>4 DEF OwnerInv, DeliveriesRegistered
    <3> QED
      BY <3>1, <3>2, <2>4, <1>2, <1>4 DEF OwnerInv, DeliveriesRegistered
  <2> QED
    BY <2>2, <2>3, <2>4 DEF DeliveriesRegistered
<1>7. InflightOwned'
  <2>1. SUFFICES ASSUME NEW t \in inflight
                 PROVE  \/ \E d \in Clients : t \in holds'[d]
                        \/ confirm'[t] = "closed"
                        \/ \E d \in Clients : call'[d].op = "offered" /\ call'[d].seq = t
    BY <1>1 DEF InflightOwned
  <2>2. t \in Seqs
    BY DEF TypeInv, TypeOK, WorkerType
  <2>3. CASE call[c].op = "offered" /\ call[c].seq = t
    BY <2>2, <2>3, <1>2
  <2>4. CASE ~(call[c].op = "offered" /\ call[c].seq = t)
    BY <2>2, <2>4, <1>1, <1>2, <1>3 DEF OwnerInv, InflightOwned
  <2> QED
    BY <2>3, <2>4
<1> QED
  BY <1>5, <1>6, <1>7 DEF OwnerInv

(* A caller sends a command: a settlement is of a row it holds or of one    *)
(* that is gone.                                                            *)
LEMMA SendOwners ==
  ASSUME TypeInv, OwnerInv, NEW c \in Clients, NEW o \in Ops, NEW m, NEW s,
         Send(c, o, m, s), o \in {"ack", "requeue"} => MaySettle(c, s)
  PROVE  OwnerInv'
<1>1. /\ call' = [call EXCEPT ![c] = Call(o, m, s)] /\ call[c].op = "idle"
      /\ UNCHANGED <<disk, seqCtr, inflight, confirm, holds>>
  BY DEF Send, CanSend, diskVars, winVars
<1>2. /\ \A d \in Clients : d # c => call'[d] = call[d]
      /\ call'[c].op = o /\ call'[c].seq = s
  BY <1>1 DEF TypeInv, TypeOK, CallerType, Call
<1>3. o # "offered"
  BY DEF Ops
<1>4. \A d \in Clients : call[d].op = "offered" \/ call'[d].op = "offered" => d # c /\ call'[d] = call[d]
  BY <1>1, <1>2, <1>3
<1>5. SettlesOwn'
  BY <1>1, <1>2 DEF OwnerInv, SettlesOwn, MaySettle
<1>6. DeliveriesRegistered'
  BY <1>1, <1>4 DEF OwnerInv, DeliveriesRegistered
<1>7. HoldsExclusive' /\ InflightOwned'
  BY <1>1, <1>4 DEF OwnerInv, HoldsExclusive, InflightOwned
<1> QED
  BY <1>5, <1>6, <1>7 DEF OwnerInv

(* Nothing is owned in a process that starts or has ended. *)
LEMMA NobodyOwns ==
  ASSUME inflight' = {}, confirm' = [s \in Seqs |-> "none"],
         \A c \in Clients : call'[c].op = "idle" /\ holds'[c] = {}
  PROVE  OwnerInv'
<1>1. SettlesOwn' /\ HoldsExclusive' /\ InflightOwned'
  BY DEF SettlesOwn, HoldsExclusive, InflightOwned
<1>2. DeliveriesRegistered'
  BY DEF DeliveriesRegistered
<1> QED
  BY <1>1, <1>2 DEF OwnerInv

-----------------------------------------------------------------------------
(* The inductive step *)

(* A running process: DownIsEmpty says nothing. *)
LEMMA UpIsUp ==
  ASSUME pc' # "down"
  PROVE  DownIsEmpty'
BY DEF DownIsEmpty

(* The maintenance pass keeps the invariant. *)
LEMMA MaintenanceInv ==
  ASSUME IInv, Maintenance
  PROVE  WindowInv' /\ OwnerInv' /\ DownIsEmpty'
<1>0. seqCtr \in Nat
  BY DEF IInv, TypeInv, TypeOK, DiskType
<1>1. ASSUME NEW s \in Seqs, ConfirmTaken(s)
      PROVE  WindowInv' /\ OwnerInv' /\ DownIsEmpty'
  <2>1. WindowInv'
    BY <1>1, WindowUntouched DEF ConfirmTaken, diskVars, winVars, IInv
  <2>2. OwnerInv'
    BY <1>1, ConfirmTakenOwners DEF IInv
  <2>3. DownIsEmpty'
    BY <1>1, UpIsUp DEF ConfirmTaken
  <2> QED
    BY <2>1, <2>2, <2>3
<1>2. ASSUME NEW s \in Seqs, ConfirmClosed(s)
      PROVE  WindowInv' /\ OwnerInv' /\ DownIsEmpty'
  <2>1. WindowInv'
    BY <1>2, RequeueWindow DEF ConfirmClosed, diskVars, IInv
  <2>2. OwnerInv'
    BY <1>2, ConfirmClosedOwners DEF IInv
  <2>3. DownIsEmpty'
    BY <1>2, UpIsUp DEF ConfirmClosed
  <2> QED
    BY <2>1, <2>2, <2>3
<1>3. CASE ConfirmDone
  <2>1. WindowInv'
    BY <1>3, WindowUntouched DEF ConfirmDone, diskVars, winVars, IInv
  <2>2. OwnerInv'
    BY <1>0, <1>3, OwnersUntouched DEF ConfirmDone, diskVars, winVars, callVars, IInv
  <2>3. DownIsEmpty'
    BY <1>3, UpIsUp DEF ConfirmDone
  <2> QED
    BY <2>1, <2>2, <2>3
<1>4. CASE CleanupExpired
  <2>1. WindowInv'
    BY <1>4, CleanupWindow DEF IInv
  <2>2. OwnerInv'
    <3>1. disk' \subseteq disk
      BY <1>4 DEF CleanupExpired, DeleteRows
    <3> QED
      BY <3>1, <1>0, <1>4, OwnersUntouched DEF CleanupExpired, callVars, IInv
  <2>3. DownIsEmpty'
    BY <1>4, UpIsUp DEF CleanupExpired
  <2> QED
    BY <2>1, <2>2, <2>3
<1>5. CASE CleanupFails
  <2>1. WindowInv'
    BY <1>5, WindowUntouched DEF CleanupFails, diskVars, winVars, IInv
  <2>2. OwnerInv'
    BY <1>0, <1>5, OwnersUntouched DEF CleanupFails, diskVars, winVars, callVars, IInv
  <2>3. DownIsEmpty'
    BY <1>5, UpIsUp DEF CleanupFails
  <2> QED
    BY <2>1, <2>2, <2>3
<1>6. CASE LoadMore
  <2>1. WindowInv'
    BY <1>6, LoadWindow DEF IInv
  <2>2. OwnerInv'
    BY <1>0, <1>6, OwnersUntouched DEF LoadMore, diskVars, winVars, callVars, IInv
  <2>3. DownIsEmpty'
    BY <1>6, UpIsUp DEF LoadMore
  <2> QED
    BY <2>1, <2>2, <2>3
<1>7. CASE LoadSkipped
  <2>1. WindowInv'
    BY <1>7, WindowUntouched DEF LoadSkipped, diskVars, winVars, IInv
  <2>2. OwnerInv'
    BY <1>0, <1>7, OwnersUntouched DEF LoadSkipped, diskVars, winVars, callVars, IInv
  <2>3. DownIsEmpty'
    BY <1>7, UpIsUp DEF LoadSkipped
  <2> QED
    BY <2>1, <2>2, <2>3
<1>8. CASE LoadFails
  <2>1. WindowInv'
    BY <1>8, WindowUntouched DEF LoadFails, diskVars, winVars, IInv
  <2>2. OwnerInv'
    BY <1>0, <1>8, OwnersUntouched DEF LoadFails, diskVars, winVars, callVars, IInv
  <2>3. DownIsEmpty'
    BY <1>8, UpIsUp DEF LoadFails
  <2> QED
    BY <2>1, <2>2, <2>3
<1>9. CASE FlushPendingPush
  <2>1. WindowInv'
    <3>1. Head(pending) \in Msgs
      BY <1>9 DEF FlushPendingPush, IInv, TypeInv, TypeOK, WorkerType
    <3> QED
      BY <3>1, <1>9, InsertWindow DEF FlushPendingPush, IInv
  <2>2. OwnerInv'
    <3>1. Head(pending) \in Msgs
      BY <1>9 DEF FlushPendingPush, IInv, TypeInv, TypeOK, WorkerType
    <3>2. /\ InsertRow(Head(pending)) /\ Return(Waiters(Head(pending))) /\ holds' = holds
      BY <1>9 DEF FlushPendingPush
    <3>3. /\ disk' = disk \cup {seqCtr + 1} /\ seqCtr' = seqCtr + 1
          /\ inflight' = inflight /\ confirm' = confirm
      BY <3>2 DEF InsertRow
    <3>4. \A c \in Clients : call'[c] # call[c] =>
            call[c].op # "offered" /\ call'[c].op = "idle"
      BY <3>2, ReturnType DEF Waiters, IdleCall, IInv
    <3> QED
      BY <1>0, <3>2, <3>3, <3>4, OwnersUntouched DEF IInv
  <2>3. DownIsEmpty'
    BY <1>9, UpIsUp DEF FlushPendingPush
  <2> QED
    BY <2>1, <2>2, <2>3
<1>10. CASE FlushFails
  <2>1. WindowInv'
    BY <1>10, WindowUntouched DEF FlushFails, diskVars, winVars, IInv
  <2>2. OwnerInv'
    <3>1. \A c \in Clients : call'[c] # call[c] =>
            call[c].op # "offered" /\ call'[c].op = "idle"
      BY <1>10, ReturnType DEF FlushFails, Waiters, IdleCall, IInv
    <3> QED
      BY <1>0, <3>1, <1>10, OwnersUntouched DEF FlushFails, diskVars, winVars, IInv
  <2>3. DownIsEmpty'
    BY <1>10, UpIsUp DEF FlushFails
  <2> QED
    BY <2>1, <2>2, <2>3
<1>11. CASE FlushDone
  <2>1. WindowInv'
    BY <1>11, WindowUntouched DEF FlushDone, diskVars, winVars, IInv
  <2>2. OwnerInv'
    BY <1>0, <1>11, OwnersUntouched DEF FlushDone, diskVars, winVars, callVars, IInv
  <2>3. DownIsEmpty'
    BY <1>11, UpIsUp DEF FlushDone
  <2> QED
    BY <2>1, <2>2, <2>3
<1>12. CASE RecvCmd
  <2>1. WindowInv'
    BY <1>12, WindowUntouched DEF RecvCmd, diskVars, winVars, IInv
  <2>2. OwnerInv'
    BY <1>0, <1>12, OwnersUntouched DEF RecvCmd, diskVars, winVars, callVars, IInv
  <2>3. DownIsEmpty'
    BY <1>12, UpIsUp DEF RecvCmd
  <2> QED
    BY <2>1, <2>2, <2>3
<1>13. CASE RecvTimeout
  <2>1. WindowInv'
    BY <1>13, WindowUntouched DEF RecvTimeout, diskVars, winVars, IInv
  <2>2. OwnerInv'
    BY <1>0, <1>13, OwnersUntouched DEF RecvTimeout, diskVars, winVars, callVars, IInv
  <2>3. DownIsEmpty'
    BY <1>13, UpIsUp DEF RecvTimeout
  <2> QED
    BY <2>1, <2>2, <2>3
<1> QED
  BY <1>1, <1>2, <1>3, <1>4, <1>5, <1>6, <1>7, <1>8, <1>9, <1>10, <1>11, <1>12, <1>13 DEF Maintenance

(* The sender of an answered command was not being offered a row. *)
LEMMA AnsweredCalls ==
  ASSUME TypeInv, NEW o \in Ops, Dispatch(o), Return({Head(chan).by})
  PROVE  \A c \in Clients : call'[c] # call[c] =>
            call[c].op # "offered" /\ call'[c].op = "idle"
<1>1. \A c \in Clients : call'[c] = IF c = Head(chan).by THEN IdleCall ELSE call[c]
  BY ReturnType
<1>2. ASSUME NEW c \in Clients, c = Head(chan).by
      PROVE  call[c].op # "offered"
  <2>1. call[c].op = o
    BY <1>2, DispatchFacts, ClientsAssumption
  <2> QED
    BY <2>1 DEF Ops
<1> QED
  BY <1>1, <1>2 DEF IdleCall

(* The handlers of commands keep the invariant. *)
LEMMA CommandInv ==
  ASSUME IInv, Command
  PROVE  WindowInv' /\ OwnerInv' /\ DownIsEmpty'
<1>0. seqCtr \in Nat
  BY DEF IInv, TypeInv, TypeOK, DiskType
<1>1. CASE PushKnown
  <2>1. WindowInv'
    BY <1>1, WindowUntouched DEF PushKnown, Dispatch, diskVars, winVars, IInv
  <2>2. OwnerInv'
    <3>1. \A c \in Clients : call'[c] # call[c] =>
            call[c].op # "offered" /\ call'[c].op = "idle"
      BY <1>1, AnsweredCalls DEF PushKnown, Ops, IInv
    <3> QED
      BY <1>0, <3>1, <1>1, OwnersUntouched DEF PushKnown, diskVars, winVars, IInv
  <2>3. DownIsEmpty'
    BY <1>1, UpIsUp DEF PushKnown, Dispatch
  <2> QED
    BY <2>1, <2>2, <2>3
<1>2. CASE PushJoins
  <2>1. WindowInv'
    BY <1>2, WindowUntouched DEF PushJoins, Dispatch, diskVars, winVars, IInv
  <2>2. OwnerInv'
    <3>0. Head(chan).by \in Clients => call[Head(chan).by].op = "push"
      BY <1>2, DispatchFacts, ClientsAssumption DEF PushJoins, IInv
    <3>1. \A c \in Clients : call'[c] # call[c] =>
            call[c].op # "offered" /\ call'[c].op = "wait"
      BY <3>0, <1>2 DEF PushJoins, Call
    <3> QED
      BY <1>0, <3>1, <1>2, OwnersUntouched DEF PushJoins, diskVars, winVars, IInv
  <2>3. DownIsEmpty'
    BY <1>2, UpIsUp DEF PushJoins, Dispatch
  <2> QED
    BY <2>1, <2>2, <2>3
<1>3. CASE PushWaits
  <2>1. WindowInv'
    BY <1>3, WindowUntouched DEF PushWaits, Dispatch, diskVars, winVars, IInv
  <2>2. OwnerInv'
    <3>0. Head(chan).by \in Clients => call[Head(chan).by].op = "push"
      BY <1>3, DispatchFacts, ClientsAssumption DEF PushWaits, IInv
    <3>1. \A c \in Clients : call'[c] # call[c] =>
            call[c].op # "offered" /\ call'[c].op = "wait"
      BY <3>0, <1>3 DEF PushWaits, Call
    <3> QED
      BY <1>0, <3>1, <1>3, OwnersUntouched DEF PushWaits, diskVars, winVars, IInv
  <2>3. DownIsEmpty'
    BY <1>3, UpIsUp DEF PushWaits, Dispatch
  <2> QED
    BY <2>1, <2>2, <2>3
<1>4. CASE PushStored
  <2>1. WindowInv'
    <3>1. Head(chan).msg \in Msgs
      BY <1>4, DispatchFacts DEF PushStored, IInv
    <3> QED
      BY <3>1, <1>4, InsertWindow DEF PushStored, Dispatch, IInv
  <2>2. OwnerInv'
    <3>1. /\ disk' = disk \cup {seqCtr + 1} /\ seqCtr' = seqCtr + 1
          /\ inflight' = inflight /\ confirm' = confirm /\ holds' = holds
      BY <1>4 DEF PushStored, InsertRow
    <3>2. \A c \in Clients : call'[c] # call[c] =>
            call[c].op # "offered" /\ call'[c].op = "idle"
      BY <1>4, AnsweredCalls DEF PushStored, Ops, IInv
    <3> QED
      BY <1>0, <3>1, <3>2, OwnersUntouched DEF IInv
  <2>3. DownIsEmpty'
    BY <1>4, UpIsUp DEF PushStored, Dispatch
  <2> QED
    BY <2>1, <2>2, <2>3
<1>5. CASE PushRefused
  <2>1. WindowInv'
    BY <1>5, WindowUntouched DEF PushRefused, Dispatch, diskVars, winVars, IInv
  <2>2. OwnerInv'
    <3>1. \A c \in Clients : call'[c] # call[c] =>
            call[c].op # "offered" /\ call'[c].op = "idle"
      BY <1>5, AnsweredCalls DEF PushRefused, Ops, IInv
    <3> QED
      BY <1>0, <3>1, <1>5, OwnersUntouched DEF PushRefused, diskVars, winVars, IInv
  <2>3. DownIsEmpty'
    BY <1>5, UpIsUp DEF PushRefused, Dispatch
  <2> QED
    BY <2>1, <2>2, <2>3
<1>6. CASE PushFails
  <2>1. WindowInv'
    BY <1>6, WindowUntouched DEF PushFails, Dispatch, diskVars, winVars, IInv
  <2>2. OwnerInv'
    <3>1. \A c \in Clients : call'[c] # call[c] =>
            call[c].op # "offered" /\ call'[c].op = "idle"
      BY <1>6, AnsweredCalls DEF PushFails, Ops, IInv
    <3> QED
      BY <1>0, <3>1, <1>6, OwnersUntouched DEF PushFails, diskVars, winVars, IInv
  <2>3. DownIsEmpty'
    BY <1>6, UpIsUp DEF PushFails, Dispatch
  <2> QED
    BY <2>1, <2>2, <2>3
<1>7. CASE NextEmpty
  <2>1. WindowInv'
    BY <1>7, WindowUntouched DEF NextEmpty, Dispatch, diskVars, winVars, IInv
  <2>2. OwnerInv'
    <3>1. \A c \in Clients : call'[c] # call[c] =>
            call[c].op # "offered" /\ call'[c].op = "idle"
      BY <1>7, AnsweredCalls DEF NextEmpty, Ops, IInv
    <3> QED
      BY <1>0, <3>1, <1>7, OwnersUntouched DEF NextEmpty, diskVars, winVars, IInv
  <2>3. DownIsEmpty'
    BY <1>7, UpIsUp DEF NextEmpty, Dispatch
  <2> QED
    BY <2>1, <2>2, <2>3
<1>8. CASE NextOffered
  <2>1. WindowInv'
    BY <1>8, OfferedWindow DEF IInv
  <2>2. OwnerInv'
    BY <1>8, OfferedOwners DEF IInv
  <2>3. DownIsEmpty'
    BY <1>8, UpIsUp DEF NextOffered, Dispatch
  <2> QED
    BY <2>1, <2>2, <2>3
<1>9. CASE NextUndelivered
  <2>1. WindowInv'
    BY <1>9, UndeliveredWindow DEF IInv
  <2>2. OwnerInv'
    BY <1>0, <1>9, OwnersUntouched DEF NextUndelivered, IInv
  <2>3. DownIsEmpty'
    BY <1>9, UpIsUp DEF NextUndelivered, Dispatch
  <2> QED
    BY <2>1, <2>2, <2>3
<1>10. CASE NextFails
  <2>1. WindowInv'
    BY <1>10, WindowUntouched DEF NextFails, Dispatch, diskVars, winVars, IInv
  <2>2. OwnerInv'
    <3>1. \A c \in Clients : call'[c] # call[c] =>
            call[c].op # "offered" /\ call'[c].op = "idle"
      BY <1>10, AnsweredCalls DEF NextFails, Ops, IInv
    <3> QED
      BY <1>0, <3>1, <1>10, OwnersUntouched DEF NextFails, diskVars, winVars, IInv
  <2>3. DownIsEmpty'
    BY <1>10, UpIsUp DEF NextFails, Dispatch
  <2> QED
    BY <2>1, <2>2, <2>3
<1>11. CASE AckDeletes
  <2>1. WindowInv'
    <3>1. Head(chan).seq \in disk => Head(chan).seq \in inflight
      BY <1>11, SettlingOwn DEF AckDeletes, IInv
    <3> QED
      BY <3>1, <1>11, AckWindow DEF IInv
  <2>2. OwnerInv'
    <3>1. /\ disk' \subseteq disk /\ seqCtr' = seqCtr /\ confirm' = confirm
          /\ inflight' = inflight \ ({Head(chan).seq} \cap disk)
          /\ holds' = [holds EXCEPT ![Head(chan).by] = @ \ {Head(chan).seq}]
          /\ Return({Head(chan).by}) /\ Dispatch("ack")
      BY <1>11 DEF AckDeletes, DeleteRows
    <3>2. inflight \subseteq disk
      BY DEF IInv, WindowInv, WindowSound, Loaded
    <3>3. inflight' = inflight \ {Head(chan).seq}
      BY <3>1, <3>2
    <3> QED
      BY <3>1, <3>3, SettledOwners DEF IInv
  <2>3. DownIsEmpty'
    BY <1>11, UpIsUp DEF AckDeletes, Dispatch
  <2> QED
    BY <2>1, <2>2, <2>3
<1>12. CASE AckFails
  <2>1. WindowInv'
    BY <1>12, WindowUntouched DEF AckFails, Dispatch, diskVars, winVars, IInv
  <2>2. OwnerInv'
    <3>1. \A c \in Clients : call'[c] # call[c] =>
            call[c].op # "offered" /\ call'[c].op = "idle"
      BY <1>12, AnsweredCalls DEF AckFails, Ops, IInv
    <3> QED
      BY <1>0, <3>1, <1>12, OwnersUntouched DEF AckFails, diskVars, winVars, IInv
  <2>3. DownIsEmpty'
    BY <1>12, UpIsUp DEF AckFails, Dispatch
  <2> QED
    BY <2>1, <2>2, <2>3
<1>13. CASE RequeueRecord
  <2>1. WindowInv'
    <3>1. CASE Requeue(Head(chan).seq)
      <4>1. Head(chan).seq \in Seqs
        BY <3>1 DEF Requeue, IInv, TypeInv, TypeOK, WorkerType
      <4> QED
        BY <3>1, <4>1, <1>13, RequeueWindow DEF RequeueRecord, Dispatch, diskVars, IInv
    <3>2. CASE UNCHANGED <<mem, inflight>>
      BY <3>2, <1>13, WindowUntouched DEF RequeueRecord, Dispatch, diskVars, IInv
    <3> QED
      BY <3>1, <3>2, <1>13 DEF RequeueRecord
  <2>2. OwnerInv'
    <3>1. inflight' = inflight \ {Head(chan).seq}
      BY <1>13 DEF RequeueRecord, Requeue
    <3> QED
      BY <3>1, <1>13, SettledOwners DEF RequeueRecord, diskVars, IInv
  <2>3. DownIsEmpty'
    BY <1>13, UpIsUp DEF RequeueRecord, Dispatch
  <2> QED
    BY <2>1, <2>2, <2>3
<1>14. CASE Shutdown
  <2>1. WindowInv'
    BY <1>14, WindowUntouched DEF Shutdown, diskVars, winVars, IInv
  <2>2. OwnerInv'
    <3>1. \A c \in Clients : call'[c] # call[c] =>
            call[c].op # "offered" /\ call'[c].op = "idle"
      BY <1>14, ReturnType DEF Shutdown, IdleCall, IInv
    <3> QED
      BY <1>0, <3>1, <1>14, OwnersUntouched DEF Shutdown, diskVars, winVars, IInv
  <2>3. DownIsEmpty'
    BY <1>14, UpIsUp DEF Shutdown
  <2> QED
    BY <2>1, <2>2, <2>3
<1> QED
  BY <1>1, <1>2, <1>3, <1>4, <1>5, <1>6, <1>7, <1>8, <1>9, <1>10, <1>11, <1>12, <1>13, <1>14 DEF Command

(* The callers keep the invariant. *)
LEMMA CallerInv ==
  ASSUME IInv, Caller
  PROVE  WindowInv' /\ OwnerInv' /\ DownIsEmpty'
<1>1. ASSUME NEW c \in Clients, NEW o \in Ops, NEW m, NEW s, Send(c, o, m, s),
             o \in {"ack", "requeue"} => MaySettle(c, s)
      PROVE  WindowInv' /\ OwnerInv' /\ DownIsEmpty'
  <2>1. WindowInv'
    BY <1>1, WindowUntouched DEF Send, diskVars, winVars, IInv
  <2>2. OwnerInv'
    BY <1>1, SendOwners DEF IInv
  <2>3. DownIsEmpty'
    BY <1>1, UpIsUp DEF Send, CanSend
  <2> QED
    BY <2>1, <2>2, <2>3
<1>2. ASSUME NEW c \in Pushers, NEW m \in Msgs, CallPush(c, m)
      PROVE  WindowInv' /\ OwnerInv' /\ DownIsEmpty'
  BY <1>1, <1>2, ClientsAssumption DEF CallPush, Ops
<1>3. ASSUME NEW c \in Takers, CallNext(c)
      PROVE  WindowInv' /\ OwnerInv' /\ DownIsEmpty'
  BY <1>1, <1>3, ClientsAssumption DEF CallNext, Ops
<1>4. ASSUME NEW c \in Takers, NEW s \in Seqs, CallAck(c, s) \/ CallRequeue(c, s)
      PROVE  WindowInv' /\ OwnerInv' /\ DownIsEmpty'
  BY <1>1, <1>4, ClientsAssumption DEF CallAck, CallRequeue, Ops
<1>5. ASSUME NEW c \in Closers, CallShutdown(c)
      PROVE  WindowInv' /\ OwnerInv' /\ DownIsEmpty'
  BY <1>1, <1>5, ClientsAssumption DEF CallShutdown, Ops
<1>6. ASSUME NEW c \in Clients, TakeReply(c)
      PROVE  WindowInv' /\ OwnerInv' /\ DownIsEmpty'
  <2>1. WindowInv'
    BY <1>6, WindowUntouched DEF TakeReply, diskVars, winVars, IInv
  <2>2. OwnerInv'
    BY <1>6, TakeReplyOwners DEF IInv
  <2>3. DownIsEmpty'
    BY <1>6, UpIsUp DEF TakeReply, IInv, DownIsEmpty
  <2> QED
    BY <2>1, <2>2, <2>3
<1>7. ASSUME NEW c \in Clients, Cancel(c)
      PROVE  WindowInv' /\ OwnerInv' /\ DownIsEmpty'
  <2>1. WindowInv'
    BY <1>7, WindowUntouched DEF Cancel, diskVars, winVars, IInv
  <2>2. OwnerInv'
    BY <1>7, CancelOwners DEF IInv
  <2>3. DownIsEmpty'
    BY <1>7, UpIsUp DEF Cancel, IInv, DownIsEmpty
  <2> QED
    BY <2>1, <2>2, <2>3
<1> QED
  BY <1>2, <1>3, <1>4, <1>5, <1>6, <1>7 DEF Caller

(* The end of the process keeps the invariant. *)
LEMMA ProcessEndsInv ==
  ASSUME IInv, ProcessEnds
  PROVE  WindowInv' /\ OwnerInv' /\ DownIsEmpty'
<1>1. WindowInv'
  BY ProcessEndsWindow DEF IInv
<1>2. \A c \in Clients : call'[c].op = "idle" /\ holds'[c] = {}
  BY DEF ProcessEnds, IdleCall
<1>3. OwnerInv'
  BY <1>2, NobodyOwns DEF ProcessEnds
<1>4. DownIsEmpty'
  BY <1>2 DEF ProcessEnds, DownIsEmpty
<1> QED
  BY <1>1, <1>3, <1>4

(* The invariant holds initially. *)
LEMMA IInvInit ==
  Init => IInv
<1> SUFFICES ASSUME Init PROVE IInv
  OBVIOUS
<1>1. TypeInv
  BY TypeInvInit
<1>2. Queued = {} /\ Loaded = {}
  BY DEF Init, Queued, Loaded, Range
<1>3. Held = 0 /\ MemoryRecords \in Nat
  BY FS_EmptySet, ConfigAssumption DEF Init, Held
<1>4. WindowInv
  BY <1>2, <1>3 DEF Init, WindowInv, WindowSound, BacklogAbove, WindowFilled
<1>5. \A c \in Clients : call[c].op = "idle" /\ holds[c] = {}
  BY DEF Init, IdleCall
<1>6. OwnerInv
  BY <1>5 DEF Init, OwnerInv, SettlesOwn, DeliveriesRegistered, HoldsExclusive, InflightOwned
<1>7. DownIsEmpty
  BY <1>5 DEF Init, DownIsEmpty
<1> QED
  BY <1>1, <1>4, <1>6, <1>7 DEF IInv

(* Every step keeps the invariant. *)
LEMMA IInvStep ==
  IInv /\ [Next]_vars => IInv'
<1> SUFFICES ASSUME IInv, [Next]_vars PROVE IInv'
  OBVIOUS
<1>1. TypeInv'
  BY TypeInvStep DEF IInv
<1>2. CASE Open
  <2>1. WindowInv'
    BY <1>2, OpenWindow DEF IInv
  <2>2. \A c \in Clients : call'[c].op = "idle" /\ holds'[c] = {}
    BY <1>2 DEF Open, callVars, IInv, DownIsEmpty
  <2>3. OwnerInv'
    BY <1>2, <2>2, NobodyOwns DEF Open
  <2>4. DownIsEmpty'
    BY <1>2, UpIsUp DEF Open
  <2> QED
    BY <1>1, <2>1, <2>3, <2>4 DEF IInv
<1>3. CASE Maintenance
  BY <1>1, <1>3, MaintenanceInv DEF IInv
<1>4. CASE Command
  BY <1>1, <1>4, CommandInv DEF IInv
<1>5. CASE Caller
  BY <1>1, <1>5, CallerInv DEF IInv
<1>6. ASSUME NEW m \in Msgs, Age(m)
      PROVE  IInv'
  <2>0. seqCtr \in Nat
    BY DEF IInv, TypeInv, TypeOK, DiskType
  <2>1. WindowInv'
    BY <1>6, WindowUntouched DEF Age, winVars, IInv
  <2>2. OwnerInv'
    BY <2>0, <1>6, OwnersUntouched DEF Age, winVars, callVars, IInv
  <2>3. DownIsEmpty'
    BY <1>6 DEF Age, winVars, callVars, IInv, DownIsEmpty
  <2> QED
    BY <1>1, <2>1, <2>2, <2>3 DEF IInv
<1>7. CASE Crash \/ Exit
  BY <1>1, <1>7, ProcessEndsInv DEF Crash, Exit, IInv
<1>8. CASE UNCHANGED vars
  <2>0. seqCtr \in Nat
    BY DEF IInv, TypeInv, TypeOK, DiskType
  <2>1. WindowInv'
    BY <1>8, WindowUntouched DEF vars, IInv
  <2>2. OwnerInv'
    BY <2>0, <1>8, OwnersUntouched DEF vars, IInv
  <2>3. DownIsEmpty'
    BY <1>8 DEF vars, IInv, DownIsEmpty
  <2> QED
    BY <1>1, <2>1, <2>2, <2>3 DEF IInv
<1> QED
  BY <1>2, <1>3, <1>4, <1>5, <1>6, <1>7, <1>8 DEF Next

(* The inductive invariant holds in every reachable state. *)
LEMMA Inductive ==
  Spec => []IInv
BY IInvInit, IInvStep, PTL DEF Spec

-----------------------------------------------------------------------------
(* Results *)

(* The send queue stays sorted, disjoint from the rows in flight, within    *)
(* the database and, together with them, within memory_records.             *)
THEOREM WindowIsSound ==
  Spec => []WindowSound
<1>1. IInv => WindowSound
  BY DEF IInv, WindowInv
<1> QED
  BY <1>1, Inductive, PTL

(* What a caller holds is in flight and nobody else's. *)
THEOREM HoldsAreExclusive ==
  Spec => []HoldsExclusive
<1>1. IInv => HoldsExclusive
  BY DEF IInv, OwnerInv
<1> QED
  BY <1>1, Inductive, PTL

(* No row is stranded in flight without an owner. *)
THEOREM InflightIsOwned ==
  Spec => []InflightOwned
<1>1. IInv => InflightOwned
  BY DEF IInv, OwnerInv
<1> QED
  BY <1>1, Inductive, PTL

(* Only next puts a row in flight. *)
LEMMA OnlyNextTakes ==
  ASSUME [Next]_vars, ~NextOffered
  PROVE  inflight' \subseteq inflight
<1>1. CASE Maintenance
  BY <1>1 DEF Maintenance, ConfirmTaken, ConfirmClosed, Requeue, ConfirmDone,
     CleanupExpired, CleanupFails, LoadMore, LoadSkipped, LoadFails,
     FlushPendingPush, InsertRow, FlushFails, FlushDone, RecvCmd, RecvTimeout, winVars
<1>2. CASE Command
  BY <1>2 DEF Command, PushKnown, PushJoins, PushWaits, PushStored, InsertRow,
     PushRefused, PushFails, NextEmpty, NextUndelivered, NextFails, AckDeletes,
     AckFails, RequeueRecord, Requeue, Shutdown, winVars
<1>3. CASE Caller
  BY <1>3 DEF Caller, CallPush, CallNext, CallAck, CallRequeue, CallShutdown,
     Send, TakeReply, Cancel, winVars
<1>4. CASE Open \/ (\E m \in Msgs : Age(m)) \/ Crash \/ Exit \/ UNCHANGED vars
  BY <1>4 DEF Open, Age, Crash, Exit, ProcessEnds, vars, winVars
<1> QED
  BY <1>1, <1>2, <1>3, <1>4 DEF Next

(* next hands out rows in replay order, whatever part of the backlog is in  *)
(* memory.                                                                  *)
THEOREM ReplayOrder ==
  Spec => InReplayOrder
<1>1. ASSUME IInv, [Next]_vars
      PROVE  [\A s \in inflight' \ inflight :
                 s \in disk /\ \A t \in disk \ inflight : s <= t]_vars
  <2>1. CASE NextOffered
    BY <1>1, <2>1, OfferedWindow DEF IInv
  <2>2. CASE ~NextOffered
    BY <1>1, <2>2, OnlyNextTakes
  <2> QED
    BY <2>1, <2>2
<1> QED
  BY <1>1, Inductive, PTL DEF Spec, InReplayOrder

(* next answers None only when nothing is waiting or the whole window is in *)
(* flight.                                                                  *)
THEOREM NoneMeansDrained ==
  Spec => NoneIsSound
<1>1. ASSUME IInv, [Next]_vars
      PROVE  [NextEmpty /\ ~loadErr =>
                 disk \subseteq inflight \/ Cardinality(inflight) >= MemoryRecords]_vars
  <2>1. SUFFICES ASSUME NextEmpty, ~loadErr
                 PROVE  disk \subseteq inflight \/ Cardinality(inflight) >= MemoryRecords
    OBVIOUS
  <2>2. mem = <<>> /\ pc = "cmd"
    BY <2>1 DEF NextEmpty, Dispatch
  <2>3. Loaded = inflight
    BY <2>2 DEF Loaded, Queued, Range
  <2>4. Held = Cardinality(inflight)
    BY <1>1, <2>2, HeldType DEF Held, IInv
  <2> QED
    BY <1>1, <2>1, <2>2, <2>3, <2>4 DEF IInv, WindowInv, WindowFilled
<1> QED
  BY <1>1, Inductive, PTL DEF Spec, NoneIsSound

(* Only expiry and ack delete rows. *)
LEMMA OnlyTwoDelete ==
  ASSUME [Next]_vars, ~CleanupExpired, ~AckDeletes
  PROVE  disk \subseteq disk'
<1>1. CASE Maintenance
  BY <1>1 DEF Maintenance, ConfirmTaken, ConfirmClosed, ConfirmDone, CleanupFails,
     LoadMore, LoadSkipped, LoadFails, FlushPendingPush, InsertRow, FlushFails,
     FlushDone, RecvCmd, RecvTimeout, diskVars
<1>2. CASE Command
  BY <1>2 DEF Command, PushKnown, PushJoins, PushWaits, PushStored, InsertRow,
     PushRefused, PushFails, NextEmpty, NextOffered, NextUndelivered, NextFails,
     AckFails, RequeueRecord, Shutdown, diskVars
<1>3. CASE Caller
  BY <1>3 DEF Caller, CallPush, CallNext, CallAck, CallRequeue, CallShutdown,
     Send, TakeReply, Cancel, diskVars
<1>4. CASE Open \/ (\E m \in Msgs : Age(m)) \/ Crash \/ Exit \/ UNCHANGED vars
  BY <1>4 DEF Open, Age, Crash, Exit, ProcessEnds, vars, diskVars
<1> QED
  BY <1>1, <1>2, <1>3, <1>4 DEF Next

(* A row leaves the database only by the ack of the caller that holds it,   *)
(* or by expiry in the send queue.                                          *)
THEOREM RowsLeaveInTwoWays ==
  Spec => LeavesByAckOrExpiry
<1>1. ASSUME IInv, [Next]_vars
      PROVE  [\A s \in disk \ disk' :
                 \/ s \in inflight /\ s \notin inflight'
                 \/ s \in Queued /\ msgOf[s] \in aged]_vars
  <2>1. CASE CleanupExpired
    <3>1. disk' = disk \ Expired
      BY <2>1 DEF CleanupExpired, DeleteRows
    <3> QED
      BY <3>1 DEF Expired
  <2>2. CASE AckDeletes
    <3>1. /\ disk' = disk \ ({Head(chan).seq} \cap disk)
          /\ inflight' = inflight \ ({Head(chan).seq} \cap disk)
          /\ Dispatch("ack")
      BY <2>2 DEF AckDeletes, DeleteRows
    <3>2. Head(chan).seq \in disk => Head(chan).seq \in inflight
      BY <1>1, <3>1, SettlingOwn DEF IInv
    <3> QED
      BY <3>1, <3>2
  <2>3. CASE ~CleanupExpired /\ ~AckDeletes
    BY <1>1, <2>3, OnlyTwoDelete
  <2> QED
    BY <2>1, <2>2, <2>3
<1> QED
  BY <1>1, Inductive, PTL DEF Spec, LeavesByAckOrExpiry

-----------------------------------------------------------------------------
(* What push promises *)

(* A deletion ends the promise of the rows it deletes and of no other. *)
LEMMA DeleteKeepsPromises ==
  ASSUME TypeInv, Durable, NEW rows \in SUBSET Seqs, DeleteRows(rows)
  PROVE  Durable'
<1>1. SUFFICES ASSUME NEW m \in promised' PROVE m \in StoredMsgs'
  BY DEF Durable
<1>2. m \in promised /\ \A s \in rows : msgOf[s] # m
  BY DEF DeleteRows
<1>3. PICK s \in disk : msgOf[s] = m
  BY <1>2 DEF Durable, StoredMsgs
<1>4. s \in disk' /\ s \in Seqs /\ msgOf'[s] = m
  BY <1>2, <1>3 DEF DeleteRows, TypeInv, TypeOK, DiskType
<1> QED
  BY <1>4 DEF StoredMsgs

(* A promise made with an insert is kept. *)
LEMMA InsertKeepsPromises ==
  ASSUME TypeInv, Durable, NEW m \in Msgs, InsertRow(m), promised' \subseteq promised \cup {m}
  PROVE  Durable'
<1>1. /\ disk' = disk \cup {seqCtr'} /\ msgOf' = [msgOf EXCEPT ![seqCtr'] = m]
      /\ seqCtr' = seqCtr + 1
  BY DEF InsertRow
<1>2. seqCtr' \in Seqs
  BY InsertRowType
<1>3. m \in StoredMsgs'
  BY <1>1, <1>2 DEF StoredMsgs, TypeInv, TypeOK, DiskType
<1>4. seqCtr' \notin disk
  BY <1>1 DEF TypeInv, RowsNumbered, TypeOK, DiskType
<1>5. \A s \in disk : s \in disk' /\ msgOf'[s] = msgOf[s]
  BY <1>1, <1>4 DEF TypeInv, TypeOK, DiskType
<1>6. StoredMsgs \subseteq StoredMsgs'
  BY <1>5 DEF StoredMsgs
<1> QED
  BY <1>3, <1>6 DEF Durable

(* Steps that leave table and promises keep them. *)
LEMMA PromisesUntouched ==
  ASSUME Durable, UNCHANGED <<disk, msgOf, promised>>
  PROVE  Durable'
BY DEF Durable, StoredMsgs

(* Every step keeps the promises. *)
LEMMA DurableStep ==
  IInv /\ Durable /\ [Next]_vars => Durable'
<1> SUFFICES ASSUME IInv, Durable, [Next]_vars PROVE Durable'
  OBVIOUS
<1>1. TypeInv
  BY DEF IInv
<1>2. CASE Maintenance
  <2>1. CASE CleanupExpired
    <3>1. Expired \in SUBSET Seqs
      BY <1>1 DEF Expired, Queued, Range, TypeInv, TypeOK, WorkerType
    <3> QED
      BY <3>1, <2>1, <1>1, DeleteKeepsPromises DEF CleanupExpired
  <2>2. CASE FlushPendingPush
    <3>1. Head(pending) \in Msgs
      BY <2>2, <1>1 DEF FlushPendingPush, TypeInv, TypeOK, WorkerType
    <3>2. promised' \subseteq promised \cup {Head(pending)} /\ InsertRow(Head(pending))
      BY <2>2 DEF FlushPendingPush
    <3> QED
      BY <3>1, <3>2, <1>1, InsertKeepsPromises
  <2>3. CASE \E s \in Seqs : ConfirmTaken(s) \/ ConfirmClosed(s)
    BY <2>3, PromisesUntouched DEF ConfirmTaken, ConfirmClosed, diskVars
  <2>4. CASE \/ ConfirmDone \/ CleanupFails \/ LoadMore \/ LoadSkipped \/ LoadFails
             \/ FlushFails \/ FlushDone \/ RecvCmd \/ RecvTimeout
    BY <2>4, PromisesUntouched DEF ConfirmDone, CleanupFails, LoadMore, LoadSkipped,
       LoadFails, FlushFails, FlushDone, RecvCmd, RecvTimeout, diskVars
  <2> QED
    BY <1>2, <2>1, <2>2, <2>3, <2>4 DEF Maintenance
<1>3. CASE Command
  <2>1. CASE PushKnown
    <3>1. /\ disk' = disk /\ msgOf' = msgOf
          /\ promised' \subseteq promised \cup {Head(chan).msg}
          /\ AlreadyStored(Head(chan).msg, pending')
      BY <2>1 DEF PushKnown, diskVars
    <3>2. inflight \subseteq disk
      BY DEF IInv, WindowInv, WindowSound, Loaded
    <3>3. Head(chan).msg \in StoredMsgs
      BY <3>1, <3>2 DEF AlreadyStored, OnTheWay, StoredMsgs
    <3>4. StoredMsgs' = StoredMsgs
      BY <3>1 DEF StoredMsgs
    <3> QED
      BY <3>1, <3>3, <3>4 DEF Durable
  <2>2. CASE PushStored
    <3>1. /\ Head(chan).msg \in Msgs /\ InsertRow(Head(chan).msg)
          /\ promised' \subseteq promised \cup {Head(chan).msg}
      BY <2>2, <1>1, DispatchFacts DEF PushStored
    <3> QED
      BY <3>1, <1>1, InsertKeepsPromises
  <2>3. CASE AckDeletes
    <3>1. DeleteRows({Head(chan).seq} \cap disk)
      BY <2>3 DEF AckDeletes
    <3>2. {Head(chan).seq} \cap disk \in SUBSET Seqs
      BY <1>1 DEF TypeInv, TypeOK, DiskType
    <3> QED
      BY <3>1, <3>2, <1>1, DeleteKeepsPromises
  <2>4. CASE \/ PushJoins \/ PushWaits \/ PushRefused \/ PushFails \/ NextEmpty
             \/ NextOffered \/ NextUndelivered \/ NextFails \/ AckFails
             \/ RequeueRecord \/ Shutdown
    BY <2>4, PromisesUntouched DEF PushJoins, PushWaits, PushRefused, PushFails,
       NextEmpty, NextOffered, NextUndelivered, NextFails, AckFails, RequeueRecord,
       Shutdown, diskVars
  <2> QED
    BY <1>3, <2>1, <2>2, <2>3, <2>4 DEF Command
<1>4. CASE Caller
  BY <1>4, PromisesUntouched DEF Caller, CallPush, CallNext, CallAck, CallRequeue,
     CallShutdown, Send, TakeReply, Cancel, diskVars
<1>5. CASE Open \/ (\E m \in Msgs : Age(m)) \/ Crash \/ Exit \/ UNCHANGED vars
  BY <1>5, PromisesUntouched DEF Open, Age, Crash, Exit, ProcessEnds, vars, diskVars
<1> QED
  BY <1>2, <1>3, <1>4, <1>5 DEF Next

(* What push has answered Ok for is on disk until it is acked or expires,   *)
(* across crashes, shutdowns, shared waiters and a full disk.               *)
THEOREM PushIsDurable ==
  Spec => []Durable
<1>1. Init => Durable
  BY DEF Init, Durable
<1> QED
  BY <1>1, DurableStep, Inductive, PTL DEF Spec

-----------------------------------------------------------------------------
(* Space *)

Distinct(q) == \A i, j \in DOMAIN q : i # j => q[i] # q[j]

(* BytesOf for an assignment of messages to rows. *)
BytesUnder(rows, m) == UNION {{s} \X (1 .. Cost[m[s]]) : s \in rows}

(* A database file that fits when the process is down still fits when it is *)
(* opened again.                                                            *)
BytesInv ==
    /\ CostOf(disk) <= DiskMaxBytes
    /\ pc # "down" => bytes = CostOf(disk)

-----------------------------------------------------------------------------
(* The cost of a set of rows *)

(* A byte is a row and a number up to its cost. *)
LEMMA BytesIn ==
  ASSUME NEW rows, NEW m, NEW x
  PROVE  x \in BytesUnder(rows, m) <=> \E s \in rows : x \in {s} \X (1 .. Cost[m[s]])
  BY DEF BytesUnder

(* A row has as many bytes as it costs. *)
LEMMA RowBytes ==
  ASSUME NEW s, NEW m \in Msgs
  PROVE  /\ IsFiniteSet({s} \X (1 .. Cost[m]))
         /\ Cardinality({s} \X (1 .. Cost[m])) = Cost[m]
<1>1. IsFiniteSet({s}) /\ Cardinality({s}) = 1
  BY FS_Singleton
<1>2. PICK n \in Nat : n = Cost[m] /\ n > 0
  BY CostAssumption
<1>3. IsFiniteSet(1 .. n) /\ Cardinality(1 .. n) = IF 1 > n THEN 0 ELSE n - 1 + 1
  BY FS_Interval
<1>4. PICK c : c = Cardinality(1 .. n) /\ c = n
  BY <1>2, <1>3
<1>5. /\ IsFiniteSet({s} \X (1 .. n))
      /\ Cardinality({s} \X (1 .. n)) = Cardinality({s}) * Cardinality(1 .. n)
  BY <1>1, <1>3, FS_Product
<1>6. 1 * n = n
  OBVIOUS
<1> QED
  BY <1>1, <1>2, <1>4, <1>5, <1>6

(* Rows have finitely many bytes. *)
LEMMA BytesFinite ==
  ASSUME NEW rows \in SUBSET Seqs, NEW m, \A s \in rows : m[s] \in Msgs
  PROVE  IsFiniteSet(BytesUnder(rows, m)) /\ Cardinality(BytesUnder(rows, m)) \in Nat
<1> DEFINE Parts == {{s} \X (1 .. Cost[m[s]]) : s \in rows}
<1>1. IsFiniteSet(Parts)
  <2> DEFINE f == [s \in rows |-> {s} \X (1 .. Cost[m[s]])]
  <2>1. f \in Surjection(rows, Parts)
    BY DEF Surjection
  <2> QED
    BY <2>1, SeqsFinite, FS_Surjection
<1>2. ASSUME NEW b \in Parts PROVE IsFiniteSet(b)
  BY RowBytes
<1>3. IsFiniteSet(UNION Parts)
  BY <1>1, <1>2, FS_UNION
<1> QED
  BY <1>3, FS_CardinalityType DEF BytesUnder

(* Two disjoint sets of rows cost what they cost together. *)
LEMMA CostAdds ==
  ASSUME NEW R \in SUBSET Seqs, NEW S \in SUBSET Seqs, R \cap S = {},
         NEW m, \A s \in R \cup S : m[s] \in Msgs
  PROVE  Cardinality(BytesUnder(R \cup S, m)) =
             Cardinality(BytesUnder(R, m)) + Cardinality(BytesUnder(S, m))
<1>1. /\ IsFiniteSet(BytesUnder(R, m)) /\ IsFiniteSet(BytesUnder(S, m))
      /\ Cardinality(BytesUnder(R, m)) \in Nat /\ Cardinality(BytesUnder(S, m)) \in Nat
  BY BytesFinite
<1>2. BytesUnder(R \cup S, m) = BytesUnder(R, m) \cup BytesUnder(S, m)
  BY DEF BytesUnder
<1>3. BytesUnder(R, m) \cap BytesUnder(S, m) = {}
  <2> SUFFICES ASSUME NEW x, x \in BytesUnder(R, m), x \in BytesUnder(S, m) PROVE FALSE
    OBVIOUS
  <2>1. PICK s \in R : x \in {s} \X (1 .. Cost[m[s]])
    BY BytesIn
  <2>2. PICK t \in S : x \in {t} \X (1 .. Cost[m[t]])
    BY BytesIn
  <2>3. x[1] = s /\ x[1] = t
    BY <2>1, <2>2
  <2> QED
    BY <2>3
<1>4. Cardinality(BytesUnder(R, m) \cap BytesUnder(S, m)) = 0
  BY <1>3, FS_EmptySet
<1>5. Cardinality(BytesUnder(R, m) \cup BytesUnder(S, m)) =
          Cardinality(BytesUnder(R, m)) + Cardinality(BytesUnder(S, m))
              - Cardinality(BytesUnder(R, m) \cap BytesUnder(S, m))
  BY <1>1, FS_Union
<1> QED
  <2>1. PICK a \in Nat, b \in Nat : /\ a = Cardinality(BytesUnder(R, m))
                                    /\ b = Cardinality(BytesUnder(S, m))
    BY <1>1
  <2>2. a + b - 0 = a + b
    OBVIOUS
  <2> QED
    BY <1>2, <1>4, <1>5, <2>1, <2>2

(* Only the messages of the rows matter. *)
LEMMA CostDepends ==
  ASSUME NEW rows, NEW m, NEW n, \A s \in rows : m[s] = n[s]
  PROVE  BytesUnder(rows, m) = BytesUnder(rows, n)
<1>1. ASSUME NEW x PROVE x \in BytesUnder(rows, m) <=> x \in BytesUnder(rows, n)
  BY BytesIn
<1> QED
  BY <1>1

(* The rows on disk and what they cost, before and after a step. *)
LEMMA CostIs ==
  /\ \A rows : CostOf(rows) = Cardinality(BytesUnder(rows, msgOf))
  /\ CostOf(disk)' = Cardinality(BytesUnder(disk', msgOf'))
  BY DEF CostOf, BytesOf, BytesUnder

(* An insert adds the cost of its message. *)
LEMMA CostGrows ==
  ASSUME TypeInv, NEW m \in Msgs, InsertRow(m)
  PROVE  CostOf(disk)' = CostOf(disk) + Cost[m]
<1>1. /\ disk' = disk \cup {seqCtr'} /\ msgOf' = [msgOf EXCEPT ![seqCtr'] = m]
      /\ seqCtr' = seqCtr + 1
  BY DEF InsertRow
<1>2. seqCtr' \in Seqs /\ disk \subseteq Seqs /\ msgOf \in [Seqs -> Msgs \cup {NoMsg}]
  BY InsertRowType DEF TypeInv, TypeOK, DiskType
<1>3. seqCtr' \notin disk /\ \A s \in disk : msgOf[s] \in Msgs
  BY <1>1 DEF TypeInv, RowsNumbered, TypeOK, DiskType
<1>4. PICK s, n : s \in Seqs /\ s = seqCtr' /\ n = msgOf' /\ disk' = disk \cup {s}
  BY <1>1, <1>2
<1>5. n[s] = m /\ \A t \in disk : n[t] = msgOf[t]
  BY <1>1, <1>2, <1>3, <1>4
<1>6. BytesUnder(disk, n) = BytesUnder(disk, msgOf)
  BY <1>5, CostDepends
<1>7. BytesUnder({s}, n) = {s} \X (1 .. Cost[m])
  BY <1>5 DEF BytesUnder
<1>8. Cardinality(BytesUnder({s}, n)) = Cost[m]
  BY <1>7, RowBytes
<1>9. {s} \in SUBSET Seqs /\ disk \cap {s} = {} /\ \A t \in disk \cup {s} : n[t] \in Msgs
  BY <1>3, <1>4, <1>5
<1>10. Cardinality(BytesUnder(disk \cup {s}, n)) =
           Cardinality(BytesUnder(disk, n)) + Cardinality(BytesUnder({s}, n))
  BY <1>2, <1>9, CostAdds
<1> QED
  BY <1>4, <1>6, <1>8, <1>10, CostIs

(* A delete takes the cost of its rows away. *)
LEMMA CostShrinks ==
  ASSUME TypeInv, NEW rows \in SUBSET disk, DeleteRows(rows)
  PROVE  CostOf(rows) \in Nat /\ CostOf(disk)' \in Nat /\ CostOf(disk) = CostOf(disk)' + CostOf(rows)
<1>1. disk \subseteq Seqs /\ \A s \in disk : msgOf[s] \in Msgs
  BY DEF TypeInv, TypeOK, DiskType, RowsNumbered
<1>2. PICK D \in SUBSET Seqs : D = disk \ rows
  BY <1>1
<1>3. disk' = D /\ \A s \in D : msgOf'[s] = msgOf[s]
  BY <1>1, <1>2 DEF DeleteRows
<1>4. BytesUnder(D, msgOf') = BytesUnder(D, msgOf)
  <2>1. PICK n : n = msgOf'
    OBVIOUS
  <2> QED
    BY <1>3, <2>1, CostDepends
<1>5. rows \in SUBSET Seqs /\ D \cap rows = {} /\ disk = D \cup rows
  BY <1>1, <1>2
<1>6. Cardinality(BytesUnder(D \cup rows, msgOf)) =
          Cardinality(BytesUnder(D, msgOf)) + Cardinality(BytesUnder(rows, msgOf))
  BY <1>1, <1>5, CostAdds
<1>7. /\ Cardinality(BytesUnder(D, msgOf)) \in Nat
      /\ Cardinality(BytesUnder(rows, msgOf)) \in Nat
  BY <1>1, <1>5, BytesFinite
<1> QED
  BY <1>3, <1>4, <1>5, <1>6, <1>7, CostIs

-----------------------------------------------------------------------------
(* The byte counter *)

(* Steps that leave the table keep the byte count. *)
LEMMA BytesUntouched ==
  ASSUME BytesInv, UNCHANGED <<disk, msgOf>>, pc' # "down" => pc # "down" /\ bytes' = bytes
  PROVE  BytesInv'
<1>1. CostOf(disk)' = CostOf(disk)
  BY DEF CostOf, BytesOf
<1> QED
  BY <1>1 DEF BytesInv

(* An insert that fits keeps the byte count exact and within the limit. *)
LEMMA BytesInserted ==
  ASSUME TypeInv, BytesInv, NEW m \in Msgs, InsertRow(m), ~CapacityFull(m), pc # "down"
  PROVE  BytesInv'
<1>1. CostOf(disk)' = CostOf(disk) + Cost[m] /\ bytes' = bytes + Cost[m]
  BY CostGrows DEF InsertRow
<1>2. bytes \in Nat /\ Cost[m] \in Nat /\ DiskMaxBytes \in Nat /\ bytes = CostOf(disk)
  BY CostAssumption, ConfigAssumption DEF TypeInv, TypeOK, WorkerType, BytesInv
<1>3. bytes + Cost[m] <= DiskMaxBytes
  BY <1>2 DEF CapacityFull
<1> QED
  BY <1>1, <1>2, <1>3 DEF BytesInv

(* A delete keeps the byte count exact. *)
LEMMA BytesDeleted ==
  ASSUME TypeInv, BytesInv, NEW rows \in SUBSET disk, DeleteRows(rows), bytes' = Freed(rows),
         pc # "down"
  PROVE  BytesInv'
<1>1. CostOf(rows) \in Nat /\ CostOf(disk)' \in Nat /\ CostOf(disk) = CostOf(disk)' + CostOf(rows)
  BY CostShrinks
<1>2. bytes = CostOf(disk) /\ CostOf(disk) <= DiskMaxBytes /\ DiskMaxBytes \in Nat
  BY ConfigAssumption DEF BytesInv
<1>3. bytes' = CostOf(disk)'
  BY <1>1, <1>2 DEF Freed
<1> QED
  BY <1>1, <1>2, <1>3 DEF BytesInv

(* Every step keeps the byte count exact. *)
LEMMA BytesStep ==
  ASSUME IInv, BytesInv, [Next]_vars
  PROVE  BytesInv'
<1> USE DEF IInv
<1>1. CASE Maintenance
  <2>1. CASE CleanupExpired
    <3>1. Expired \in SUBSET disk
      BY DEF Expired, WindowInv, WindowSound, Loaded
    <3> QED
      BY <2>1, <3>1, BytesDeleted DEF CleanupExpired
  <2>2. CASE FlushPendingPush
    <3>1. Head(pending) \in Msgs
      BY <2>2 DEF FlushPendingPush, TypeInv, TypeOK, WorkerType
    <3>2. InsertRow(Head(pending)) /\ ~CapacityFull(Head(pending)) /\ pc # "down"
      BY <2>2 DEF FlushPendingPush
    <3> QED
      BY <3>1, <3>2, BytesInserted
  <2>3. CASE \E s \in Seqs : ConfirmTaken(s) \/ ConfirmClosed(s)
    BY <2>3, BytesUntouched DEF ConfirmTaken, ConfirmClosed, diskVars
  <2>4. CASE \/ ConfirmDone \/ CleanupFails \/ LoadMore \/ LoadSkipped \/ LoadFails
             \/ FlushFails \/ FlushDone \/ RecvCmd \/ RecvTimeout
    BY <2>4, BytesUntouched DEF ConfirmDone, CleanupFails, LoadMore, LoadSkipped,
       LoadFails, FlushFails, FlushDone, RecvCmd, RecvTimeout, diskVars
  <2> QED
    BY <1>1, <2>1, <2>2, <2>3, <2>4 DEF Maintenance
<1>2. CASE Command
  <2>1. pc # "down"
    BY <1>2 DEF Command, PushKnown, PushJoins, PushWaits, PushStored, PushRefused, PushFails,
       NextEmpty, NextOffered, NextUndelivered, NextFails, AckDeletes, AckFails,
       RequeueRecord, Shutdown, Dispatch
  <2>2. CASE PushStored
    <3>1. /\ Head(chan).msg \in Msgs /\ InsertRow(Head(chan).msg)
          /\ ~CapacityFull(Head(chan).msg)
      BY <2>2, DispatchFacts DEF PushStored
    <3> QED
      BY <2>1, <3>1, BytesInserted
  <2>3. CASE AckDeletes
    <3>1. PICK row : row = {Head(chan).seq} \cap disk
      OBVIOUS
    <3>2. DeleteRows(row) /\ bytes' = Freed(row \cap inflight) /\ Dispatch("ack")
      BY <2>3, <3>1 DEF AckDeletes
    <3>3. row \cap inflight = row /\ row \in SUBSET disk
      BY <3>1, <3>2, SettlingOwn
    <3> QED
      BY <2>1, <3>2, <3>3, BytesDeleted
  <2>4. CASE \/ PushKnown \/ PushJoins \/ PushWaits \/ PushRefused \/ PushFails \/ NextEmpty
             \/ NextOffered \/ NextUndelivered \/ NextFails \/ AckFails
             \/ RequeueRecord \/ Shutdown
    <3>1. UNCHANGED <<disk, msgOf, bytes>>
      BY <2>4 DEF PushKnown, PushJoins, PushWaits, PushRefused, PushFails, NextEmpty,
         NextOffered, NextUndelivered, NextFails, AckFails, RequeueRecord, Shutdown, diskVars
    <3> QED
      BY <2>1, <3>1, BytesUntouched
  <2> QED
    BY <1>2, <2>2, <2>3, <2>4 DEF Command
<1>3. CASE Caller
  BY <1>3, BytesUntouched DEF Caller, CallPush, CallNext, CallAck, CallRequeue,
     CallShutdown, Send, TakeReply, Cancel, diskVars
<1>4. CASE Open
  <2>1. CostOf(disk)' = CostOf(disk) /\ bytes' = CostOf(disk)
    BY <1>4 DEF Open, diskVars, CostOf, BytesOf
  <2> QED
    BY <2>1 DEF BytesInv
<1>5. CASE (\E m \in Msgs : Age(m)) \/ Crash \/ Exit \/ UNCHANGED vars
  BY <1>5, BytesUntouched DEF Age, Crash, Exit, ProcessEnds, vars, diskVars
<1> QED
  BY <1>1, <1>2, <1>3, <1>4, <1>5 DEF Next

-----------------------------------------------------------------------------
(* The waiting queue *)

(* What is left of distinct elements is distinct. *)
LEMMA WithoutDistinct ==
  ASSUME NEW T, NEW q \in Seq(T), Distinct(q), NEW S, NEW r \in Without(q, S)
  PROVE  Distinct(r)
<1> DEFINE K == {i \in DOMAIN q : q[i] \notin S}
<1>1. PICK f \in Ascending(K) : r = [i \in DOMAIN f |-> q[f[i]]]
  BY DEF Without
<1>2. Len(q) \in Nat /\ DOMAIN q = 1 .. Len(q)
  OBVIOUS
<1>3. IsFiniteSet(K) /\ Cardinality(K) \in Nat
  <2>1. IsFiniteSet(DOMAIN q)
    BY <1>2, FS_Interval
  <2> QED
    BY <2>1, FS_Subset, FS_CardinalityType
<1>4. /\ DOMAIN f = 1 .. Cardinality(K)
      /\ \A i \in DOMAIN f : f[i] \in DOMAIN q /\ f[i] \in Int
      /\ \A i, j \in DOMAIN f : i < j => f[i] < f[j]
  BY <1>2, <1>3 DEF Ascending
<1>5. ASSUME NEW i \in DOMAIN f, NEW j \in DOMAIN f, i # j PROVE f[i] # f[j]
  <2>1. i \in Int /\ j \in Int
    BY <1>3, <1>4
  <2>2. i < j \/ j < i
    BY <1>5, <2>1
  <2> QED
    BY <1>4, <2>2
<1> QED
  BY <1>1, <1>4, <1>5 DEF Distinct

(* The head of distinct elements is not among the rest. *)
LEMMA TailDistinct ==
  ASSUME NEW T, NEW q \in Seq(T), q # <<>>, Distinct(q)
  PROVE  /\ Head(q) \in T /\ Tail(q) \in Seq(T) /\ Len(Tail(q)) <= Len(q)
         /\ Distinct(Tail(q)) /\ Range(Tail(q)) = Range(q) \ {Head(q)}
<1>1. Len(q) \in Nat \ {0} /\ DOMAIN q = 1 .. Len(q) /\ Head(q) = q[1] /\ Head(q) \in T
  BY EmptySeq
<1>2. /\ Tail(q) \in Seq(T) /\ Len(Tail(q)) = Len(q) - 1
      /\ \A i \in 1 .. Len(q) - 1 : Tail(q)[i] = q[i + 1]
  BY HeadTailProperties
<1>3. DOMAIN Tail(q) = 1 .. Len(q) - 1
  BY <1>1, <1>2
<1>4. Distinct(Tail(q))
  BY <1>1, <1>2, <1>3 DEF Distinct
<1>5. ASSUME NEW x \in Range(Tail(q)) PROVE x \in Range(q) \ {Head(q)}
  <2>1. PICK i \in 1 .. Len(q) - 1 : x = q[i + 1]
    BY <1>2, <1>3 DEF Range
  <2>2. i + 1 \in DOMAIN q /\ 1 \in DOMAIN q /\ i + 1 # 1
    BY <1>1, <2>1
  <2> QED
    BY <1>1, <2>1, <2>2 DEF Range, Distinct
<1>6. ASSUME NEW x \in Range(q) \ {Head(q)} PROVE x \in Range(Tail(q))
  <2>1. PICK i \in 1 .. Len(q) : x = q[i]
    BY <1>1 DEF Range
  <2>2. i # 1
    BY <1>1, <2>1
  <2>3. i - 1 \in 1 .. Len(q) - 1 /\ (i - 1) + 1 = i
    BY <1>1, <2>2
  <2>4. Tail(q)[i - 1] = x
    BY <1>2, <2>1, <2>3
  <2> QED
    BY <1>3, <2>3, <2>4 DEF Range
<1> QED
  BY <1>1, <1>2, <1>4, <1>5, <1>6

(* A new element keeps them distinct. *)
LEMMA AppendDistinct ==
  ASSUME NEW T, NEW q \in Seq(T), Distinct(q), NEW x \in T, x \notin Range(q)
  PROVE  /\ Len(Append(q, x)) = Len(q) + 1
         /\ Distinct(Append(q, x)) /\ Range(Append(q, x)) = Range(q) \cup {x}
<1>1. Len(q) \in Nat /\ DOMAIN q = 1 .. Len(q)
  OBVIOUS
<1>2. PICK r : r = Append(q, x)
  OBVIOUS
<1>3. /\ Len(r) = Len(q) + 1 /\ DOMAIN r = 1 .. Len(q) + 1
      /\ r[Len(q) + 1] = x /\ \A i \in 1 .. Len(q) : r[i] = q[i]
  BY <1>1, <1>2, AppendProperties
<1>4. \A i \in 1 .. Len(q) + 1 : i = Len(q) + 1 \/ i \in 1 .. Len(q)
  BY <1>1
<1>5. \A i \in 1 .. Len(q) : q[i] # x /\ i \in 1 .. Len(q) + 1
  BY <1>1 DEF Range
<1>6. Distinct(r)
  BY <1>1, <1>3, <1>4, <1>5 DEF Distinct
<1>7. Range(r) = Range(q) \cup {x}
  <2>1. Len(q) + 1 \in DOMAIN r
    BY <1>1, <1>3
  <2>2. x \in Range(r)
    BY <1>3, <2>1 DEF Range
  <2>3. Range(q) \subseteq Range(r)
    BY <1>1, <1>3, <1>5 DEF Range
  <2>4. Range(r) \subseteq Range(q) \cup {x}
    BY <1>1, <1>3, <1>4 DEF Range
  <2> QED
    BY <2>2, <2>3, <2>4
<1> QED
  BY <1>2, <1>3, <1>6, <1>7

(* A waiting queue that serves the calls that still wait. *)
LEMMA WaitersServedBy ==
  ASSUME pending' \in Seq(Msgs), Distinct(pending'), Len(pending') <= MemoryRecords,
         \A m \in Range(pending') : m \notin StoredMsgs',
         \A c \in Clients : call'[c].op = "wait" => call'[c].msg \in Range(pending')
  PROVE  WaitersQueued'
  BY DEF WaitersQueued, Distinct

(* The calls that wait after a step waited before it. *)
Calmer ==
    \A c \in Clients : call'[c].op = "wait" =>
        call[c].op = "wait" /\ call'[c].msg = call[c].msg

(* What the invariant says of the waiting queue, element by element. *)
LEMMA QueueFacts ==
  ASSUME TypeInv, WaitersQueued
  PROVE  /\ pending \in Seq(Msgs) /\ Distinct(pending) /\ Len(pending) \in Nat
         /\ Len(pending) <= MemoryRecords /\ MemoryRecords \in Nat
         /\ \A m \in Range(pending) : m \in Msgs /\ m \notin StoredMsgs
         /\ \A c \in Clients : call[c].op = "wait" => call[c].msg \in Range(pending)
<1>1. pending \in Seq(Msgs) /\ Len(pending) \in Nat /\ MemoryRecords \in Nat
  BY ConfigAssumption DEF TypeInv, TypeOK, WorkerType
<1>2. \A m \in Range(pending) : m \in Msgs
  BY <1>1 DEF Range
<1> QED
  BY <1>1, <1>2 DEF WaitersQueued, Distinct

(* Steps that leave the waiting queue keep it. *)
LEMMA WaitersUntouched ==
  ASSUME TypeInv, WaitersQueued, pending' = pending, StoredMsgs' \subseteq StoredMsgs, Calmer
  PROVE  WaitersQueued'
<1>1. \A m \in Range(pending') : m \notin StoredMsgs'
  BY QueueFacts
<1>2. \A c \in Clients : call'[c].op = "wait" => call'[c].msg \in Range(pending')
  BY QueueFacts DEF Calmer
<1> QED
  BY <1>1, <1>2, QueueFacts, WaitersServedBy

(* Nobody waits and nothing is queued. *)
LEMMA NothingQueued ==
  ASSUME pending' = <<>>, \A c \in Clients : call'[c].op # "wait"
  PROVE  WaitersQueued'
<1>1. Range(pending') = {} /\ Len(pending') = 0 /\ MemoryRecords \in Nat
  BY ConfigAssumption DEF Range
<1>2. \A i, j \in DOMAIN pending' : i # j => pending'[i] # pending'[j]
  OBVIOUS
<1> QED
  BY <1>1, <1>2 DEF WaitersQueued

(* prune_cancelled_waiters drops no entry that a call waits behind. *)
LEMMA PrunedServes ==
  ASSUME TypeInv, WaitersQueued, NEW p \in Pruned
  PROVE  /\ p \in Seq(Msgs) /\ Distinct(p) /\ Len(p) \in Nat /\ Len(p) <= MemoryRecords
         /\ Range(p) \subseteq Range(pending)
         /\ \A c \in Clients : call[c].op = "wait" => call[c].msg \in Range(p)
<1> DEFINE S == {m \in Msgs : Waiters(m) = {}}
<1>1. p \in Without(pending, S)
  BY DEF Pruned
<1>2. p \in Seq(Msgs) /\ Range(p) = Range(pending) \ S /\ Len(p) <= Len(pending)
  BY <1>1, QueueFacts, WithoutProperties
<1>3. Distinct(p)
  BY <1>1, QueueFacts, WithoutDistinct
<1>4. ASSUME NEW c \in Clients, call[c].op = "wait" PROVE call[c].msg \in Range(p)
  <2>1. c \in Waiters(call[c].msg)
    BY <1>4 DEF Waiters
  <2>2. call[c].msg \notin S
    BY <2>1
  <2> QED
    BY <1>2, <1>4, <2>2, QueueFacts
<1>5. Len(p) \in Nat
  BY <1>2
<1> QED
  BY <1>2, <1>3, <1>4, <1>5, QueueFacts

(* Pruning removes only waiters nobody waits for. *)
LEMMA PrunedKeeps ==
  ASSUME TypeInv, WaitersQueued, pending' \in Pruned, Calmer,
         \A m \in Range(pending') : m \in StoredMsgs' => m \in StoredMsgs
  PROVE  WaitersQueued'
<1>1. PICK p \in Pruned : p = pending'
  OBVIOUS
<1>2. \A m \in Range(pending') : m \notin StoredMsgs'
  BY <1>1, QueueFacts, PrunedServes
<1>3. \A c \in Clients : call'[c].op = "wait" => call'[c].msg \in Range(pending')
  BY <1>1, PrunedServes DEF Calmer
<1> QED
  BY <1>1, <1>2, <1>3, PrunedServes, WaitersServedBy

(* An insert stores its message only. *)
LEMMA StoredAfterInsert ==
  ASSUME TypeInv, NEW m \in Msgs, InsertRow(m)
  PROVE  StoredMsgs' \subseteq StoredMsgs \cup {m}
<1>1. disk' = disk \cup {seqCtr'} /\ msgOf' = [msgOf EXCEPT ![seqCtr'] = m]
  BY DEF InsertRow
<1>2. seqCtr' \in Seqs /\ disk \subseteq Seqs /\ DOMAIN msgOf = Seqs
  BY InsertRowType DEF TypeInv, TypeOK, DiskType
<1> QED
  BY <1>1, <1>2 DEF StoredMsgs

(* A delete stores nothing. *)
LEMMA StoredAfterDelete ==
  ASSUME TypeInv, NEW rows, DeleteRows(rows)
  PROVE  StoredMsgs' \subseteq StoredMsgs
<1>1. \A s \in disk' : s \in disk /\ msgOf'[s] = msgOf[s]
  BY DEF DeleteRows, TypeInv, TypeOK, DiskType
<1> QED
  BY <1>1 DEF StoredMsgs

(* A call that returns does not wait. *)
LEMMA ReturnCalms ==
  ASSUME TypeInv, NEW cs, Return(cs)
  PROVE  Calmer
<1>1. IdleCall.op = "idle"
  BY DEF IdleCall
<1> QED
  BY <1>1, ReturnType DEF Calmer

(* The maintenance pass answers the waiters it takes out of the queue. *)
LEMMA MaintenanceWaiters ==
  ASSUME IInv, WaitersQueued, Maintenance
  PROVE  WaitersQueued'
<1> USE DEF IInv
<1>1. CASE CleanupExpired
  <2>1. StoredMsgs' \subseteq StoredMsgs
    BY <1>1, StoredAfterDelete DEF CleanupExpired
  <2>2. pending' = pending /\ Calmer
    BY <1>1 DEF CleanupExpired, callVars, Calmer
  <2> QED
    BY <2>1, <2>2, WaitersUntouched
<1>2. CASE FlushPendingPush \/ FlushFails
  <2>1. pending # <<>> /\ pending' = Tail(pending) /\ Return(Waiters(Head(pending)))
    BY <1>2 DEF FlushPendingPush, FlushFails
  <2>2. PICK m, q : m = Head(pending) /\ q = Tail(pending)
    OBVIOUS
  <2>3. /\ m \in Msgs /\ q \in Seq(Msgs) /\ Len(q) <= Len(pending) /\ Len(q) \in Nat
        /\ Distinct(q) /\ Range(q) = Range(pending) \ {m}
    BY <2>1, <2>2, QueueFacts, TailDistinct
  <2>4. StoredMsgs' \subseteq StoredMsgs \cup {m}
    <3>1. CASE FlushPendingPush
      BY <2>2, <2>3, <3>1, StoredAfterInsert DEF FlushPendingPush
    <3>2. CASE FlushFails
      BY <3>2 DEF FlushFails, diskVars, StoredMsgs
    <3> QED
      BY <1>2, <3>1, <3>2
  <2>5. \A x \in Range(pending') : x \notin StoredMsgs'
    BY <2>1, <2>2, <2>3, <2>4, QueueFacts
  <2>6. ASSUME NEW c \in Clients, call'[c].op = "wait" PROVE call'[c].msg \in Range(pending')
    <3>1. call[c].op = "wait" /\ call'[c] = call[c] /\ c \notin Waiters(m)
      <4>1. IdleCall.op = "idle"
        BY DEF IdleCall
      <4> QED
        BY <2>1, <2>2, <2>6, <4>1, ReturnType
    <3>2. call[c].msg \in Range(pending) /\ call[c].msg # m
      BY <3>1, QueueFacts DEF Waiters
    <3> QED
      BY <2>1, <2>2, <2>3, <3>1, <3>2
  <2>7. pending' \in Seq(Msgs) /\ Distinct(pending') /\ Len(pending') <= MemoryRecords
    BY <2>1, <2>2, <2>3, QueueFacts
  <2> QED
    BY <2>5, <2>6, <2>7, WaitersServedBy
<1>3. ASSUME UNCHANGED <<disk, msgOf, pending, call>> PROVE WaitersQueued'
  <2>1. StoredMsgs' = StoredMsgs /\ Calmer
    BY <1>3 DEF StoredMsgs, Calmer
  <2> QED
    BY <1>3, <2>1, WaitersUntouched
<1>4. CASE \E s \in Seqs : ConfirmTaken(s) \/ ConfirmClosed(s)
  BY <1>3, <1>4 DEF ConfirmTaken, ConfirmClosed, diskVars, callVars
<1>5. CASE \/ ConfirmDone \/ CleanupFails \/ LoadMore \/ LoadSkipped \/ LoadFails
           \/ FlushDone \/ RecvCmd \/ RecvTimeout
  BY <1>3, <1>5 DEF ConfirmDone, CleanupFails, LoadMore, LoadSkipped, LoadFails, FlushDone,
     RecvCmd, RecvTimeout, diskVars, callVars
<1> QED
  BY <1>1, <1>2, <1>4, <1>5 DEF Maintenance

(* So do the handlers of commands. *)
LEMMA CommandWaiters ==
  ASSUME IInv, WaitersQueued, Command
  PROVE  WaitersQueued'
<1> USE DEF IInv
<1>1. ASSUME UNCHANGED <<disk, msgOf>> PROVE StoredMsgs' = StoredMsgs
  BY <1>1 DEF StoredMsgs
<1>2. CASE PushKnown \/ PushRefused \/ PushFails
  <2>1. pending' \in Pruned /\ Return({Head(chan).by}) /\ UNCHANGED <<disk, msgOf>>
    BY <1>2 DEF PushKnown, PushRefused, PushFails, diskVars
  <2> QED
    BY <1>1, <2>1, ReturnCalms, PrunedKeeps
<1>3. ASSUME NEW p \in Seq(Msgs), pending' = p, Distinct(p), Len(p) <= MemoryRecords,
             Range(p) \cap StoredMsgs = {}, UNCHANGED <<disk, msgOf>>,
             NEW h, h.msg \in Range(p),
             \A c \in Clients : call[c].op = "wait" => call[c].msg \in Range(p),
             call' = [c \in Clients |-> IF c = h.by THEN Call("wait", h.msg, 0) ELSE call[c]]
      PROVE  WaitersQueued'
  <2>1. Call("wait", h.msg, 0).msg = h.msg
    BY DEF Call
  <2>2. \A c \in Clients : call'[c].op = "wait" => call'[c].msg \in Range(pending')
    BY <1>3, <2>1
  <2> QED
    BY <1>1, <1>3, <2>2, WaitersServedBy
<1>4. CASE PushJoins
  <2>1. PICK p \in Pruned : pending' = p
    BY <1>4 DEF PushJoins
  <2>2. PICK h : h = Head(chan)
    OBVIOUS
  <2>3. /\ h.msg \in Range(p) /\ UNCHANGED <<disk, msgOf>>
        /\ call' = [c \in Clients |-> IF c = h.by THEN Call("wait", h.msg, 0) ELSE call[c]]
    BY <1>4, <2>1, <2>2 DEF PushJoins, diskVars
  <2>4. Range(p) \cap StoredMsgs = {}
    BY QueueFacts, PrunedServes
  <2> QED
    BY <1>3, <2>1, <2>3, <2>4, PrunedServes
<1>5. CASE PushWaits
  <2>1. PICK h : h = Head(chan)
    OBVIOUS
  <2>2. /\ \E p \in Pruned : IsNew(h.msg, p) /\ Len(p) < MemoryRecords /\ pending' = Append(p, h.msg)
        /\ UNCHANGED <<disk, msgOf>> /\ Dispatch("push")
        /\ call' = [c \in Clients |-> IF c = h.by THEN Call("wait", h.msg, 0) ELSE call[c]]
    BY <1>5, <2>1 DEF PushWaits
  <2>3. PICK p \in Pruned : IsNew(h.msg, p) /\ Len(p) < MemoryRecords /\ pending' = Append(p, h.msg)
    BY <2>2
  <2>4. h.msg \in Msgs
    BY <2>1, <2>2, DispatchFacts
  <2>5. /\ p \in Seq(Msgs) /\ Distinct(p) /\ Len(p) \in Nat /\ Range(p) \subseteq Range(pending)
        /\ \A c \in Clients : call[c].op = "wait" => call[c].msg \in Range(p)
    BY PrunedServes
  <2>6. PICK r \in Seq(Msgs) : r = Append(p, h.msg)
    <3>1. Append(p, h.msg) \in Seq(Msgs)
      BY <2>4, <2>5, AppendProperties
    <3> QED
      BY <3>1
  <2>7. Len(r) = Len(p) + 1 /\ Distinct(r) /\ Range(r) = Range(p) \cup {h.msg}
    BY <2>3, <2>4, <2>5, <2>6, AppendDistinct DEF IsNew
  <2>8. Len(r) <= MemoryRecords
    BY <2>3, <2>5, <2>7, QueueFacts
  <2>9. Range(r) \cap StoredMsgs = {}
    BY <2>3, <2>5, <2>7, QueueFacts DEF IsNew
  <2> QED
    BY <1>3, <2>2, <2>3, <2>5, <2>6, <2>7, <2>8, <2>9
<1>6. CASE PushStored
  <2>1. PICK m : m = Head(chan).msg
    OBVIOUS
  <2>2. /\ pending' \in Pruned /\ Return({Head(chan).by}) /\ m \in Msgs /\ InsertRow(m)
        /\ m \notin Range(pending')
    BY <1>6, <2>1, DispatchFacts DEF PushStored, IsNew
  <2>3. StoredMsgs' \subseteq StoredMsgs \cup {m}
    BY <2>2, StoredAfterInsert
  <2>4. \A x \in Range(pending') : x \in StoredMsgs' => x \in StoredMsgs
    BY <2>2, <2>3
  <2> QED
    BY <2>2, <2>4, ReturnCalms, PrunedKeeps
<1>7. CASE AckDeletes
  <2>1. /\ DeleteRows({Head(chan).seq} \cap disk) /\ Return({Head(chan).by})
        /\ pending' = pending
    BY <1>7 DEF AckDeletes
  <2> QED
    BY <2>1, StoredAfterDelete, ReturnCalms, WaitersUntouched
<1>8. CASE NextEmpty \/ NextFails \/ AckFails \/ RequeueRecord
  <2>1. Return({Head(chan).by}) /\ pending' = pending /\ UNCHANGED <<disk, msgOf>>
    BY <1>8 DEF NextEmpty, NextFails, AckFails, RequeueRecord, diskVars
  <2> QED
    BY <1>1, <2>1, ReturnCalms, WaitersUntouched
<1>9. CASE NextOffered \/ NextUndelivered
  <2>1. pending' = pending /\ UNCHANGED <<disk, msgOf>>
    BY <1>9 DEF NextOffered, NextUndelivered
  <2>2. Calmer
    <3>1. CASE NextOffered
      <4>1. PICK o : /\ o.op = "offered" /\ call' = [call EXCEPT ![Head(chan).by] = o]
        BY <3>1 DEF NextOffered
      <4> QED
        BY <4>1 DEF Calmer, TypeInv, TypeOK, CallerType
    <3>2. CASE NextUndelivered
      BY <3>2 DEF NextUndelivered, Calmer
    <3> QED
      BY <1>9, <3>1, <3>2
  <2> QED
    BY <1>1, <2>1, <2>2, WaitersUntouched
<1>10. CASE Shutdown
  <2>1. /\ pending' = <<>> /\ UNCHANGED <<disk, msgOf>>
        /\ Return({c \in Clients : call[c].op # "offered"})
    BY <1>10 DEF Shutdown, diskVars
  <2>2. \A c \in Clients : call'[c].op # "wait"
    <3>1. IdleCall.op = "idle"
      BY DEF IdleCall
    <3> QED
      BY <2>1, <3>1, ReturnType
  <2> QED
    BY <2>1, <2>2, NothingQueued
<1> QED
  BY <1>2, <1>4, <1>5, <1>6, <1>7, <1>8, <1>9, <1>10 DEF Command

(* Callers leave the waiting queue alone. *)
LEMMA CallerWaiters ==
  ASSUME IInv, WaitersQueued, Caller
  PROVE  WaitersQueued'
<1> USE DEF IInv
<1>1. call \in [Clients -> Calls]
  BY DEF TypeInv, TypeOK, CallerType
<1>2. ASSUME NEW c \in Clients, NEW v, v.op # "wait", call' = [call EXCEPT ![c] = v],
             UNCHANGED <<disk, msgOf, pending>>
      PROVE  WaitersQueued'
  <2>1. Calmer
    BY <1>1, <1>2 DEF Calmer
  <2>2. StoredMsgs' = StoredMsgs
    BY <1>2 DEF StoredMsgs
  <2> QED
    BY <1>2, <2>1, <2>2, WaitersUntouched
<1>3. ASSUME NEW c \in Clients, NEW o \in Ops, NEW m, NEW s, Send(c, o, m, s)
      PROVE  WaitersQueued'
  <2>1. Call(o, m, s).op # "wait"
    BY DEF Call, Ops
  <2> QED
    BY <1>2, <1>3, <2>1 DEF Send, diskVars
<1>4. ASSUME NEW c \in Clients, TakeReply(c) \/ Cancel(c) PROVE WaitersQueued'
  <2>1. IdleCall.op # "wait"
    BY DEF IdleCall
  <2> QED
    BY <1>2, <1>4, <2>1 DEF TakeReply, Cancel, diskVars
<1>5. CASE \E c \in Pushers, m \in Msgs : CallPush(c, m)
  BY <1>3, <1>5, ClientsAssumption DEF CallPush, Ops
<1>6. CASE \/ \E c \in Takers : CallNext(c)
           \/ \E c \in Takers, s \in Seqs : CallAck(c, s) \/ CallRequeue(c, s)
           \/ \E c \in Closers : CallShutdown(c)
  BY <1>3, <1>6, ClientsAssumption DEF CallNext, CallAck, CallRequeue, CallShutdown, Ops
<1> QED
  BY <1>4, <1>5, <1>6 DEF Caller

(* Every step keeps the waiting queue. *)
LEMMA WaitersStep ==
  ASSUME IInv, WaitersQueued, [Next]_vars
  PROVE  WaitersQueued'
<1>1. CASE Open
  <2>1. \A c \in Clients : call'[c].op # "wait"
    BY <1>1 DEF Open, callVars, IInv, DownIsEmpty
  <2> QED
    BY <1>1, <2>1, NothingQueued DEF Open
<1>2. CASE Crash \/ Exit
  <2>1. pending' = <<>> /\ \A c \in Clients : call'[c].op # "wait"
    BY <1>2 DEF Crash, Exit, ProcessEnds, IdleCall
  <2> QED
    BY <2>1, NothingQueued
<1>3. CASE (\E m \in Msgs : Age(m)) \/ UNCHANGED vars
  <2>1. UNCHANGED <<disk, msgOf, pending, call>>
    BY <1>3 DEF Age, callVars, vars
  <2>2. StoredMsgs' = StoredMsgs /\ Calmer
    BY <2>1 DEF StoredMsgs, Calmer
  <2> QED
    BY <2>1, <2>2, WaitersUntouched DEF IInv
<1> QED
  BY <1>1, <1>2, <1>3, MaintenanceWaiters, CommandWaiters, CallerWaiters DEF Next

-----------------------------------------------------------------------------
(* The byte counter is the cost of the rows on disk and within              *)
(* disk_max_bytes at every moment the process runs, through failed          *)
(* statements, expiry, acks, crashes and restarts; and a push blocked on a  *)
(* full disk never loses its place in the bounded waiting queue, whose      *)
(* entries are distinct and not stored (capacity_full, PendingPush,         *)
(* prune_cancelled_waiters, flush_pending_push).                            *)
THEOREM SpaceIsAccounted ==
  Spec => []SpaceAccounted
<1>1. Init => BytesInv /\ WaitersQueued
  <2> SUFFICES ASSUME Init PROVE BytesInv /\ WaitersQueued
    OBVIOUS
  <2>1. CostOf(disk) = 0 /\ DiskMaxBytes \in Nat /\ MemoryRecords \in Nat
    <3>1. BytesOf(disk) = {}
      BY DEF Init, BytesOf
    <3> QED
      BY <3>1, FS_EmptySet, ConfigAssumption DEF CostOf
  <2>2. BytesInv
    BY <2>1 DEF Init, BytesInv
  <2>3. /\ Range(pending) = {} /\ Len(pending) = 0 /\ DOMAIN pending = {}
        /\ \A c \in Clients : call[c].op # "wait"
    BY DEF Init, Range, IdleCall
  <2>4. WaitersQueued
    BY <2>1, <2>3 DEF WaitersQueued
  <2> QED
    BY <2>2, <2>4
<1>2. IInv /\ BytesInv /\ WaitersQueued /\ [Next]_vars => BytesInv' /\ WaitersQueued'
  BY BytesStep, WaitersStep
<1>3. BytesInv /\ WaitersQueued => SpaceAccounted
  BY DEF BytesInv, BytesExact, SpaceAccounted
<1> QED
  BY <1>1, <1>2, <1>3, Inductive, PTL DEF Spec

-----------------------------------------------------------------------------
(* The contract *)

(* message_id is UNIQUE: no message has two rows. *)
OneRowEach == \A s, t \in disk : msgOf[s] = msgOf[t] => s = t

(* A delete, in the terms of the contract. *)
LEMMA DeletedRows ==
  ASSUME TypeInv, NEW R \in SUBSET disk, DeleteRows(R)
  PROVE  /\ disk' = disk \ R
         /\ \A s \in disk \ R : msgOf'[s] = msgOf[s]
         /\ aged' = aged \ {msgOf[s] : s \in R}
         /\ promised' = promised \ {msgOf[s] : s \in R}
BY DEF DeleteRows, TypeInv, TypeOK, DiskType

(* An insert, in the terms of the contract. *)
LEMMA InsertedRow ==
  ASSUME TypeInv, NEW m \in Msgs, InsertRow(m)
  PROVE  /\ seqCtr' = seqCtr + 1 /\ seqCtr' \notin disk
         /\ disk' = disk \cup {seqCtr'} /\ msgOf'[seqCtr'] = m
         /\ \A s \in disk : msgOf'[s] = msgOf[s]
<1>1. /\ seqCtr \in 0 .. MaxSeq /\ msgOf \in [Seqs -> Msgs \cup {NoMsg}]
      /\ disk \subseteq 1 .. seqCtr /\ disk \subseteq Seqs /\ MaxSeq \in Nat
  BY BoundsAssumption DEF TypeInv, TypeOK, DiskType, RowsNumbered
<1>2. /\ seqCtr < MaxSeq /\ seqCtr' = seqCtr + 1 /\ disk' = disk \cup {seqCtr'}
      /\ msgOf' = [msgOf EXCEPT ![seqCtr'] = m]
  BY DEF InsertRow
<1>3. seqCtr' \in Seqs /\ seqCtr' \notin disk
  BY <1>1, <1>2 DEF Seqs
<1> QED
  BY <1>1, <1>2, <1>3

(* The two steps that insert a row do it for a message without one. *)
LEMMA InsertsAreNew ==
  ASSUME IInv, WaitersQueued, FlushPendingPush \/ PushStored
  PROVE  \E m \in Msgs :
           /\ InsertRow(m) /\ m \notin StoredMsgs
           /\ aged' \in {aged, aged \ {m}} /\ promised' \in {promised, promised \cup {m}}
           /\ UNCHANGED <<inflight, holds>>
<1>1. CASE FlushPendingPush
  <2>1. pending \in Seq(Msgs) /\ pending # <<>>
    BY <1>1 DEF FlushPendingPush, IInv, TypeInv, TypeOK, WorkerType
  <2>2. Head(pending) \in Msgs /\ Head(pending) \in Range(pending)
    BY <2>1 DEF Range
  <2>3. Head(pending) \notin StoredMsgs
    BY <2>2 DEF WaitersQueued
  <2>4. /\ InsertRow(Head(pending)) /\ aged' = aged
        /\ promised' \in {promised, promised \cup {Head(pending)}}
        /\ UNCHANGED <<inflight, holds>>
    BY <1>1 DEF FlushPendingPush, InsertRow
  <2> QED
    BY <2>2, <2>3, <2>4
<1>2. CASE PushStored
  <2>1. Head(chan).msg \in Msgs
    BY <1>2, DispatchFacts DEF PushStored, IInv
  <2>2. /\ InsertRow(Head(chan).msg) /\ Head(chan).msg \notin StoredMsgs
        /\ aged' = aged \ {Head(chan).msg}
        /\ promised' \in {promised, promised \cup {Head(chan).msg}}
        /\ UNCHANGED <<inflight, holds>>
    BY <1>2 DEF PushStored, InsertRow, IsNew
  <2> QED
    BY <2>1, <2>2
<1> QED
  BY <1>1, <1>2

(* Every other step leaves the rows as they are, or deletes some. *)
LEMMA RowsStep ==
  ASSUME IInv, WaitersQueued, OneRowEach, [Next]_vars
  PROVE  OneRowEach'
<1>0. disk \subseteq Seqs
  BY DEF IInv, TypeInv, TypeOK, DiskType
<1>1. CASE FlushPendingPush \/ PushStored
  <2>1. PICK m \in Msgs : InsertRow(m) /\ m \notin StoredMsgs
    BY <1>1, InsertsAreNew
  <2>2. /\ disk' = disk \cup {seqCtr'} /\ msgOf'[seqCtr'] = m
        /\ \A s \in disk : msgOf'[s] = msgOf[s]
    BY <2>1, InsertedRow DEF IInv
  <2> QED
    BY <2>1, <2>2 DEF OneRowEach, StoredMsgs
<1>2. CASE CleanupExpired \/ AckDeletes
  <2>1. PICK R \in SUBSET disk : DeleteRows(R)
    <3>1. Expired \subseteq disk
      BY DEF Expired, IInv, WindowInv, WindowSound, Loaded
    <3> QED
      BY <1>2, <3>1 DEF CleanupExpired, AckDeletes
  <2>2. disk' = disk \ R /\ \A s \in disk \ R : msgOf'[s] = msgOf[s]
    BY <2>1, DeletedRows DEF IInv
  <2> QED
    BY <2>2 DEF OneRowEach
<1>3. CASE UNCHANGED <<disk, msgOf>>
  BY <1>3 DEF OneRowEach
<1>4. CASE Maintenance
  BY <1>1, <1>2, <1>3, <1>4 DEF Maintenance, ConfirmTaken, ConfirmClosed, ConfirmDone,
     CleanupFails, LoadMore, LoadSkipped, LoadFails, FlushFails,
     FlushDone, RecvCmd, RecvTimeout, diskVars
<1>5. CASE Command
  BY <1>1, <1>2, <1>3, <1>5 DEF Command, PushKnown, PushJoins, PushWaits,
     PushRefused, PushFails, NextEmpty, NextOffered, NextUndelivered, NextFails,
     AckFails, RequeueRecord, Shutdown, diskVars
<1>6. CASE Caller
  BY <1>3, <1>6 DEF Caller, CallPush, CallNext, CallAck, CallRequeue, CallShutdown,
     Send, TakeReply, Cancel, diskVars
<1>7. CASE Open \/ (\E m \in Msgs : Age(m)) \/ Crash \/ Exit \/ UNCHANGED vars
  BY <1>3, <1>7 DEF Open, Age, Crash, Exit, ProcessEnds, vars, diskVars
<1> QED
  BY <1>4, <1>5, <1>6, <1>7 DEF Next

(* A step that changes nothing the contract speaks of. *)
LEMMA ContractStutter ==
  ASSUME UNCHANGED <<disk, msgOf, aged, seqCtr, promised, inflight, holds>>
  PROVE  UNCHANGED Contract!vars
BY DEF Contract!vars

(* A row is inserted. *)
LEMMA ContractPut ==
  ASSUME IInv, WaitersQueued, FlushPendingPush \/ PushStored
  PROVE  \E m \in Msgs : Contract!Put(m)
<1>1. PICK m \in Msgs :
           /\ InsertRow(m) /\ m \notin StoredMsgs
           /\ aged' \in {aged, aged \ {m}} /\ promised' \in {promised, promised \cup {m}}
           /\ UNCHANGED <<inflight, holds>>
  BY InsertsAreNew
<1>2. /\ seqCtr' = seqCtr + 1 /\ seqCtr' \notin disk
      /\ disk' = disk \cup {seqCtr'} /\ msgOf'[seqCtr'] = m
      /\ \A s \in disk : msgOf'[s] = msgOf[s]
  BY <1>1, InsertedRow DEF IInv
<1> DEFINE n == seqCtr'
           rows == [s \in disk |-> msgOf[s]]
           old == {s \in disk : msgOf[s] \in aged}
<1>3. m \notin {rows[s] : s \in DOMAIN rows}
  BY <1>1 DEF StoredMsgs
<1>4. [s \in disk' |-> msgOf'[s]] = [s \in DOMAIN rows \cup {n} |-> IF s = n THEN m ELSE rows[s]]
  BY <1>2
<1>5. {s \in disk' : msgOf'[s] \in aged'} \in {old, old \cup {n}}
  <2>1. \A s \in disk : msgOf[s] # m
    BY <1>1 DEF StoredMsgs
  <2>2. \A s \in disk : msgOf'[s] \in aged' <=> msgOf[s] \in aged
    BY <1>1, <1>2, <2>1
  <2>3. CASE m \in aged'
    BY <1>2, <2>2, <2>3
  <2>4. CASE m \notin aged'
    BY <1>2, <2>2, <2>4
  <2> QED
    BY <2>3, <2>4
<1> QED
  BY <1>1, <1>2, <1>3, <1>4, <1>5 DEF Contract!Put, Contract!Stored

(* Rows are deleted. *)
LEMMA ContractDelete ==
  ASSUME IInv, OneRowEach, NEW R \in SUBSET disk, DeleteRows(R), seqCtr' = seqCtr
  PROVE  Contract!Delete(R)
<1>1. /\ disk' = disk \ R
      /\ \A s \in disk \ R : msgOf'[s] = msgOf[s]
      /\ aged' = aged \ {msgOf[s] : s \in R}
      /\ promised' = promised \ {msgOf[s] : s \in R}
  BY DeletedRows DEF IInv
<1> DEFINE rows == [s \in disk |-> msgOf[s]]
           old == {s \in disk : msgOf[s] \in aged}
<1>2. [s \in disk' |-> msgOf'[s]] = [s \in DOMAIN rows \ R |-> rows[s]]
  BY <1>1
<1>3. {s \in disk' : msgOf'[s] \in aged'} = old \ R
  <2>1. \A s \in disk \ R : msgOf[s] \notin {msgOf[t] : t \in R}
    BY DEF OneRowEach
  <2>2. \A s \in disk \ R : msgOf'[s] \in aged' <=> msgOf[s] \in aged
    BY <1>1, <2>1
  <2> QED
    BY <1>1, <2>2
<1>4. promised' = promised \ {rows[s] : s \in R}
  <2>1. {rows[s] : s \in R} = {msgOf[s] : s \in R}
    OBVIOUS
  <2> QED
    BY <1>1, <2>1
<1> QED
  BY <1>2, <1>3, <1>4 DEF Contract!Delete

(* cleanup_expired deletes rows that are old and not out. *)
LEMMA ContractExpire ==
  ASSUME IInv, OneRowEach, CleanupExpired
  PROVE  Contract!Next
<1>1. PICK R : R = Expired
  OBVIOUS
<1>2. R \in SUBSET disk /\ R \cap inflight = {} /\ \A s \in R : msgOf[s] \in aged
  BY <1>1 DEF Expired, IInv, WindowInv, WindowSound, Loaded
<1>3. DeleteRows(R) /\ UNCHANGED <<seqCtr, inflight, holds>>
  BY <1>1 DEF CleanupExpired, callVars
<1>4. Contract!Delete(R)
  BY <1>2, <1>3, ContractDelete
<1>5. Contract!Expire(R)
  BY <1>3, <1>4 DEF Contract!Expire
<1>6. R \in SUBSET (Contract!Waiting \cap {s \in disk : msgOf[s] \in aged})
  BY <1>2 DEF Contract!Waiting
<1> QED
  BY <1>5, <1>6, Zenon DEF Contract!Next

(* A caller settles a row: it has received it, or the row is gone and the   *)
(* settlement does nothing.                                                 *)
LEMMA ContractSettle ==
  ASSUME IInv, NEW o \in {"ack", "requeue"}, Dispatch(o),
         NEW b, b = Head(chan).by, NEW s, s = Head(chan).seq,
         inflight' = inflight \ {s}, holds' = [holds EXCEPT ![b] = @ \ {s}]
  PROVE  /\ s \in disk => b \in Clients /\ Contract!Settle(b, s)
         /\ s \notin disk => UNCHANGED <<inflight, holds>>
<1>1. CASE s \in disk
  <2>1. b \in Clients /\ s \in holds[b]
    BY <1>1, SettlingOwn DEF IInv
  <2> QED
    BY <1>1, <2>1 DEF Contract!Settle
<1>2. CASE s \notin disk
  <2>1. inflight \subseteq disk /\ holds \in [Clients -> SUBSET Seqs] /\ b \in Clients
    BY DispatchFacts DEF IInv, WindowInv, WindowSound, Loaded, TypeInv, TypeOK, CallerType
  <2>2. s \notin inflight /\ s \notin holds[b]
    BY <1>2, <2>1 DEF IInv, OwnerInv, HoldsExclusive
  <2> QED
    BY <1>2, <2>1, <2>2
<1> QED
  BY <1>1, <1>2

(* An ack is that of a caller that received the row, or of a row that is
   gone. *)
LEMMA ContractAck ==
  ASSUME IInv, OneRowEach, AckDeletes
  PROVE  [Contract!Next]_(Contract!vars)
<1>1. PICK b, s : b = Head(chan).by /\ s = Head(chan).seq
  OBVIOUS
<1>2. /\ Dispatch("ack") /\ DeleteRows({s} \cap disk) /\ inflight' = inflight \ ({s} \cap disk)
      /\ holds' = [holds EXCEPT ![b] = @ \ {s}] /\ seqCtr' = seqCtr
  BY <1>1 DEF AckDeletes
<1>3. inflight' = inflight \ {s}
  BY <1>2 DEF IInv, WindowInv, WindowSound, Loaded
<1>4. /\ s \in disk => b \in Clients /\ Contract!Settle(b, s)
      /\ s \notin disk => UNCHANGED <<inflight, holds>>
  BY <1>1, <1>2, <1>3, ContractSettle
<1>5. CASE s \in disk
  <2>1. {s} \cap disk = {s}
    BY <1>5
  <2>2. Contract!Delete({s})
    BY <1>2, <1>5, <2>1, ContractDelete
  <2>3. Contract!Ack(b, s)
    BY <1>4, <1>5, <2>2 DEF Contract!Ack
  <2> QED
    BY <1>4, <1>5, <2>3 DEF Contract!Next
<1>6. CASE s \notin disk
  <2>1. {s} \cap disk = {} /\ {msgOf[t] : t \in {}} = {}
    BY <1>6
  <2>2. disk' = disk /\ aged' = aged /\ promised' = promised /\ \A t \in disk : msgOf'[t] = msgOf[t]
    BY <1>2, <2>1, DeletedRows DEF IInv
  <2>3. /\ [t \in disk' |-> msgOf'[t]] = [t \in disk |-> msgOf[t]]
        /\ {t \in disk' : msgOf'[t] \in aged'} = {t \in disk : msgOf[t] \in aged}
    BY <2>2
  <2> QED
    BY <1>2, <1>4, <1>6, <2>2, <2>3 DEF Contract!vars
<1> QED
  BY <1>5, <1>6

(* A requeue gives the row of its caller back. *)
LEMMA ContractGiveBack ==
  ASSUME IInv, RequeueRecord
  PROVE  [Contract!Next]_(Contract!vars)
<1>1. PICK b, s : b = Head(chan).by /\ s = Head(chan).seq
  OBVIOUS
<1>2. /\ Dispatch("requeue") /\ inflight' = inflight \ {s}
      /\ holds' = [holds EXCEPT ![b] = @ \ {s}]
      /\ UNCHANGED <<disk, msgOf, aged, seqCtr, promised>>
  BY <1>1 DEF RequeueRecord, Requeue, diskVars
<1>3. /\ s \in disk => b \in Clients /\ Contract!Settle(b, s)
      /\ s \notin disk => UNCHANGED <<inflight, holds>>
  BY <1>1, <1>2, ContractSettle
<1>4. CASE s \in disk
  <2>1. Contract!GiveBack(b, s)
    BY <1>2, <1>3, <1>4 DEF Contract!GiveBack
  <2> QED
    BY <1>3, <1>4, <2>1 DEF Contract!Next
<1>5. CASE s \notin disk
  BY <1>2, <1>3, <1>5, ContractStutter
<1> QED
  BY <1>4, <1>5

(* A row is handed out, received, or taken back from a caller that went     *)
(* away.                                                                    *)
LEMMA ContractTake ==
  ASSUME IInv, NextOffered
  PROVE  Contract!Next
<1>1. /\ Head(mem) \in disk /\ Head(mem) \notin inflight
      /\ inflight' = inflight \cup {Head(mem)}
      /\ \A t \in disk \ inflight : Head(mem) <= t
  BY OfferedWindow DEF IInv
<1>2. UNCHANGED <<disk, msgOf, aged, seqCtr, promised, holds>>
  BY DEF NextOffered
<1>3. Contract!Take(Head(mem))
  BY <1>1, <1>2 DEF Contract!Take, Contract!Waiting
<1> QED
  BY <1>1, <1>3 DEF Contract!Next

(* A reply that is taken gives the caller a row nobody else has. *)
LEMMA ContractReceive ==
  ASSUME IInv, NEW c \in Clients, TakeReply(c)
  PROVE  Contract!Next
<1>1. PICK s : s = call[c].seq
  OBVIOUS
<1>2. /\ call[c].op = "offered" /\ holds' = [holds EXCEPT ![c] = @ \cup {s}]
      /\ UNCHANGED <<disk, msgOf, aged, seqCtr, promised, inflight>>
  BY <1>1 DEF TakeReply, diskVars, winVars
<1>3. s \in inflight /\ s \in disk /\ \A d \in Clients : s \notin holds[d]
  BY <1>1, <1>2 DEF IInv, OwnerInv, DeliveriesRegistered, WindowInv, WindowSound, Loaded
<1>4. Contract!Receive(c, s)
  BY <1>2, <1>3 DEF Contract!Receive, Contract!Unclaimed
<1> QED
  BY <1>3, <1>4 DEF Contract!Next

(* A reply that nobody takes makes the row wait again. *)
LEMMA ContractRetract ==
  ASSUME IInv, NEW s \in Seqs, ConfirmClosed(s)
  PROVE  Contract!Next
<1>1. /\ confirm[s] = "closed" /\ s \in inflight /\ inflight' = inflight \ {s}
      /\ UNCHANGED <<disk, msgOf, aged, seqCtr, promised, holds>>
  BY DEF ConfirmClosed, Requeue, diskVars, callVars
<1>2. s \in disk /\ \A d \in Clients : s \notin holds[d]
  BY <1>1 DEF IInv, OwnerInv, DeliveriesRegistered, WindowInv, WindowSound, Loaded
<1>3. Contract!Retract(s)
  BY <1>1, <1>2 DEF Contract!Retract, Contract!Unclaimed
<1> QED
  BY <1>2, <1>3 DEF Contract!Next

(* A push of a stored message changes nothing. *)
LEMMA ContractPutAgain ==
  ASSUME IInv, PushKnown
  PROVE  [Contract!Next]_(Contract!vars)
<1>1. PICK m : m = Head(chan).msg
  OBVIOUS
<1>2. /\ m \in Msgs /\ AlreadyStored(m, pending')
      /\ promised' \in {promised, promised \cup {m}}
      /\ UNCHANGED <<disk, msgOf, aged, seqCtr, inflight, holds>>
  BY <1>1, DispatchFacts DEF PushKnown, IInv, diskVars, winVars
<1>3. m \in {msgOf[s] : s \in disk}
  BY <1>2 DEF AlreadyStored, OnTheWay, StoredMsgs, IInv, WindowInv, WindowSound, Loaded
<1>4. m \in Contract!Stored
  BY <1>3 DEF Contract!Stored
<1>5. CASE promised' = promised
  BY <1>2, <1>5, ContractStutter
<1>6. CASE promised' = promised \cup {m}
  <2>1. Contract!PutAgain(m)
    BY <1>2, <1>4, <1>6 DEF Contract!PutAgain
  <2> QED
    BY <1>2, <2>1 DEF Contract!Next
<1> QED
  BY <1>2, <1>5, <1>6

(* Time passes for stored rows; for what waits for space it is no matter.   *)
LEMMA ContractAge ==
  ASSUME UNCHANGED <<disk, msgOf, seqCtr, promised, inflight, holds>>,
         \A s \in disk : msgOf[s] \in aged => msgOf[s] \in aged'
  PROVE  Contract!Next
<1>1. PICK S : S = {s \in disk : msgOf[s] \in aged'}
  OBVIOUS
<1>2. {s \in disk' : msgOf'[s] \in aged'} = {s \in disk : msgOf[s] \in aged} \cup S
  BY <1>1
<1>3. S \in SUBSET DOMAIN [s \in disk |-> msgOf[s]]
  BY <1>1
<1>4. Contract!Age(S)
  BY <1>2 DEF Contract!Age
<1> QED
  BY <1>3, <1>4, Zenon DEF Contract!Next

(* The end of the process keeps the rows and forgets the rest. *)
LEMMA ContractRestart ==
  ASSUME ProcessEnds
  PROVE  Contract!Next
<1>1. Contract!Restart
  BY DEF ProcessEnds, diskVars, Contract!Restart
<1> QED
  BY <1>1 DEF Contract!Next

(* Every step of the buffer is a step of the contract or none. *)
LEMMA ContractStep ==
  ASSUME IInv, WaitersQueued, OneRowEach, [Next]_vars
  PROVE  [Contract!Next]_(Contract!vars)
<1>1. CASE FlushPendingPush \/ PushStored
  BY <1>1, ContractPut DEF Contract!Next
<1>2. CASE UNCHANGED <<disk, msgOf, aged, seqCtr, promised, inflight, holds>>
  BY <1>2, ContractStutter
<1>3. CASE Maintenance
  BY <1>1, <1>2, <1>3, ContractRetract, ContractExpire DEF Maintenance, ConfirmTaken,
     ConfirmDone, CleanupFails, LoadMore, LoadSkipped, LoadFails, FlushFails,
     FlushDone, RecvCmd, RecvTimeout, diskVars, winVars, callVars
<1>4. CASE PushWaits
  <2>1. /\ UNCHANGED <<disk, msgOf, seqCtr, promised, inflight, holds>>
        /\ aged' = aged \ {Head(chan).msg} /\ Head(chan).msg \notin StoredMsgs
    BY <1>4 DEF PushWaits, IsNew, winVars
  <2>2. \A s \in disk : msgOf[s] \in aged => msgOf[s] \in aged'
    BY <2>1 DEF StoredMsgs
  <2> QED
    BY <2>1, <2>2, ContractAge
<1>5. CASE Command
  BY <1>1, <1>2, <1>4, <1>5, ContractPutAgain, ContractTake, ContractAck, ContractGiveBack
     DEF Command, PushJoins, PushRefused, PushFails, NextEmpty,
     NextUndelivered, NextFails, AckFails, Shutdown, diskVars, winVars
<1>6. CASE Caller
  BY <1>2, <1>6, ContractReceive DEF Caller, CallPush, CallNext, CallAck, CallRequeue,
     CallShutdown, Send, Cancel, diskVars, winVars
<1>7. CASE Open
  <2>1. inflight' = inflight
    BY <1>7 DEF Open, IInv, DownIsEmpty
  <2> QED
    BY <1>2, <1>7, <2>1 DEF Open, diskVars, callVars
<1>8. CASE \E m \in Msgs : Age(m)
  BY <1>8, ContractAge DEF Age, winVars, callVars
<1>9. CASE Crash \/ Exit
  BY <1>9, ContractRestart DEF Crash, Exit
<1>10. CASE UNCHANGED vars
  BY <1>2, <1>10 DEF vars
<1> QED
  BY <1>3, <1>5, <1>6, <1>7, <1>8, <1>9, <1>10 DEF Next

(* The buffer implements the store its callers rely on: the thread with its *)
(* channel, window, in-flight map, deliveries and failed statements behaves *)
(* as a table in which each message is stored once and in order, of which   *)
(* next hands out the lowest row that is not out, each to one caller, and   *)
(* which loses a row only by an ack of that caller or by expiry while it is *)
(* not out (LocalBuffer::push, next, ack, requeue, across restarts).        *)
THEOREM BufferKeepsContract ==
  Spec => KeepsBufferContract
<1>1. Init => Contract!Init /\ OneRowEach
  BY DEF Init, Contract!Init, OneRowEach
<1>2. Spec => []WaitersQueued
  BY SpaceIsAccounted, PTL DEF SpaceAccounted
<1>3. IInv /\ WaitersQueued /\ OneRowEach /\ [Next]_vars => OneRowEach'
  BY RowsStep
<1>4. IInv /\ WaitersQueued /\ OneRowEach /\ [Next]_vars => [Contract!Next]_(Contract!vars)
  BY ContractStep
<1> QED
  BY <1>1, <1>2, <1>3, <1>4, Inductive, PTL DEF Spec, KeepsBufferContract, Contract!Spec
=============================================================================
