------------------------- MODULE DataPipelineProofs -------------------------
(***************************************************************************)
(* Proofs about DataPipeline, for every set of devices and of poll events, *)
(* every batch size and every capacity.                                    *)
(***************************************************************************)
EXTENDS DataPipeline, FiniteSetTheorems, SequenceTheorems, TLAPS

(* The batches in the order in which they are or will be sent. *)
Line == emitted \o outbox

(* A permit is a place in the input channel, kept for the next observation; *)
(* the loop itself never keeps a full partial batch.                        *)
SlotInv ==
    /\ permit => pump = "ingest" /\ hand # <<>> /\ Len(input) < InputCap
    /\ task = "run" => \A d \in Devices : Len(pending[d].obs) < MaxBatch

TypeInv == TypeOK /\ SlotInv

(* Where the three tasks are, and what is then left of the data. *)
ControlInv ==
    /\ pump # "ingest" => hand = <<>>
    /\ handle = "stopping" => pump = "done"
    /\ task \in {"collect", "final", "drain"} => handle = "stopping"
    /\ task \in {"final", "drain", "settle"} => input = <<>> /\ ~permit
    /\ task = "drain" => NothingPending
    /\ task \in {"terminate", "settle", "ended"} => ~accepting
    /\ posted = 0 => events = <<>> /\ hand = <<>> /\ input = <<>> /\ NothingPending /\ outbox = <<>>
    /\ handle = "dropped" => posted = 0 /\ ~polling /\ pump = "done"
    /\ task = "ended" /\ handle # "abandoned" =>
           input = <<>> /\ ~permit /\ NothingPending /\ outbox = <<>>
    /\ handle = "abandoned" => task = "ended"

(* What the batches L hold of device d has numbers below n. *)
Under(L, d, n) ==
    \A i \in DOMAIN L : L[i].dev = d => \A k \in DOMAIN L[i].obs : L[i].obs[k].seq < n

(* The observations q, in the order of their numbers device by device. *)
InOrder(q) == \A k, l \in DOMAIN q : k < l /\ q[k].dev = q[l].dev => q[k].seq < q[l].seq

(* A batch holds observations of its device that ingest took. *)
Own(d, q, acc) == InOrder(q) /\ \A k \in DOMAIN q : q[k].dev = d /\ q[k] \in acc

LineOrder(L, acc) ==
    /\ \A i \in DOMAIN L : Own(L[i].dev, L[i].obs, acc)
    /\ \A i, j \in DOMAIN L : \A k \in DOMAIN L[j].obs :
           i < j /\ L[i].dev = L[j].dev =>
               \A l \in DOMAIN L[i].obs : L[i].obs[l].seq < L[j].obs[k].seq

PendingOrder(L, p, acc) ==
    \A d \in Devices :
        /\ Own(d, p[d].obs, acc)
        /\ \A k \in DOMAIN p[d].obs : Under(L, d, p[d].obs[k].seq)

InputOrder(L, p, q, acc) ==
    /\ InOrder(q)
    /\ \A m \in DOMAIN q :
          /\ q[m] \in acc
          /\ Under(L, q[m].dev, q[m].seq)
          /\ \A k \in DOMAIN p[q[m].dev].obs : p[q[m].dev].obs[k].seq < q[m].seq

(* Observations of one device are in its batches, its partial batch, the    *)
(* input channel and the pump's hand in the order of their numbers.         *)
HandOrder ==
    /\ InOrder(hand)
    /\ \A m \in DOMAIN hand :
          /\ hand[m].seq < next[hand[m].dev]
          /\ \A o \in accepted : o.dev = hand[m].dev => o.seq < hand[m].seq
    /\ \A o \in accepted : o.seq < next[o.dev]

OrderInv ==
    /\ LineOrder(Line, accepted)
    /\ PendingOrder(Line, pending, accepted)
    /\ InputOrder(Line, pending, input, accepted)
    /\ HandOrder

(* The number that the device's next batch will have. *)
NextNumber(p, ds, d) == IF p[d].obs = <<>> THEN ds[d] ELSE p[d].seq

NumbersUsed(L, p, ds) ==
    \A i \in DOMAIN L : L[i].seq < NextNumber(p, ds, L[i].dev)

NumbersFollow(L, p, ds) ==
    \A d \in Devices : NextNumber(p, ds, d) # 0 =>
        \E i \in DOMAIN L : L[i].dev = d /\ L[i].seq = NextNumber(p, ds, d) - 1

SplitInv ==
    /\ \A d \in splitting : pending[d].obs # <<>>
    /\ task \notin Flushing \cup {"ended"} => splitting = {}
    /\ \A d \in Devices \ splitting : pending[d].obs # <<>> => pending[d].seq = devseq[d]

NumberInv ==
    /\ SplitInv
    /\ Numbered(Line)
    /\ NumbersUsed(Line, pending, devseq)
    /\ task # "ended" => NumbersFollow(Line, pending, devseq)

CountInv ==
    /\ IsFiniteSet(accepted)
    /\ Cardinality(accepted) = Len(input) + ObsCount(pending) + ObsCount(outbox)
                                   + stats.emitted + stats.dropped
    /\ stats.emitted = ObsCount(emitted)
    /\ BufferedExact

IInv == TypeInv /\ ControlInv /\ OrderInv /\ NumberInv /\ CountInv

-----------------------------------------------------------------------------
(* Counting observations *)

(* The places in the batches numbered I. *)
SpotsIn(I, bs) == UNION {{i} \X DOMAIN bs[i].obs : i \in I}

(* A spot is a batch and a place in it. *)
LEMMA SpotsMember ==
  ASSUME NEW I, NEW bs, NEW x
  PROVE  x \in SpotsIn(I, bs) <=> \E i \in I : x \in {i} \X DOMAIN bs[i].obs
  BY DEF SpotsIn

(* One batch has as many spots as observations. *)
LEMMA SpotsOne ==
  ASSUME NEW i, NEW T, NEW q \in Seq(T)
  PROVE  IsFiniteSet({i} \X DOMAIN q) /\ Cardinality({i} \X DOMAIN q) = Len(q)
<1>1. IsFiniteSet({i}) /\ Cardinality({i}) = 1
  BY FS_Singleton
<1>2. PICK n \in Nat : n = Len(q) /\ DOMAIN q = 1 .. n
  BY LenProperties
<1>3. IsFiniteSet(1 .. n) /\ Cardinality(1 .. n) = IF 1 > n THEN 0 ELSE n - 1 + 1
  BY FS_Interval
<1>4. PICK c : c = Cardinality(1 .. n) /\ c = n
  BY <1>2, <1>3
<1>5. /\ IsFiniteSet({i} \X (1 .. n))
      /\ Cardinality({i} \X (1 .. n)) = Cardinality({i}) * Cardinality(1 .. n)
  BY <1>1, <1>3, FS_Product
<1>6. 1 * n = n
  OBVIOUS
<1> QED
  BY <1>1, <1>2, <1>4, <1>5, <1>6

(* Finitely many batches have finitely many spots. *)
LEMMA SpotsFinite ==
  ASSUME NEW I, IsFiniteSet(I), NEW T, NEW bs, \A i \in I : bs[i].obs \in Seq(T)
  PROVE  IsFiniteSet(SpotsIn(I, bs)) /\ Cardinality(SpotsIn(I, bs)) \in Nat
<1> DEFINE Parts == {{i} \X DOMAIN bs[i].obs : i \in I}
<1>1. IsFiniteSet(Parts)
  <2> DEFINE f == [i \in I |-> {i} \X DOMAIN bs[i].obs]
  <2>1. f \in Surjection(I, Parts)
    BY DEF Surjection
  <2> QED
    BY <2>1, FS_Surjection
<1>2. ASSUME NEW b \in Parts PROVE IsFiniteSet(b)
  BY SpotsOne
<1>3. IsFiniteSet(UNION Parts)
  BY <1>1, <1>2, FS_UNION
<1> QED
  BY <1>3, FS_CardinalityType DEF SpotsIn

(* Two disjoint families of batches hold what they hold together. *)
LEMMA SpotsAdd ==
  ASSUME NEW I, NEW J, I \cap J = {}, IsFiniteSet(I), IsFiniteSet(J),
         NEW T, NEW bs, \A i \in I \cup J : bs[i].obs \in Seq(T)
  PROVE  Cardinality(SpotsIn(I \cup J, bs)) =
             Cardinality(SpotsIn(I, bs)) + Cardinality(SpotsIn(J, bs))
<1>1. /\ IsFiniteSet(SpotsIn(I, bs)) /\ IsFiniteSet(SpotsIn(J, bs))
      /\ Cardinality(SpotsIn(I, bs)) \in Nat /\ Cardinality(SpotsIn(J, bs)) \in Nat
  BY SpotsFinite
<1>2. SpotsIn(I \cup J, bs) = SpotsIn(I, bs) \cup SpotsIn(J, bs)
  BY DEF SpotsIn
<1>3. SpotsIn(I, bs) \cap SpotsIn(J, bs) = {}
  <2> SUFFICES ASSUME NEW x, x \in SpotsIn(I, bs), x \in SpotsIn(J, bs) PROVE FALSE
    OBVIOUS
  <2>1. PICK i \in I : x \in {i} \X DOMAIN bs[i].obs
    BY SpotsMember
  <2>2. PICK j \in J : x \in {j} \X DOMAIN bs[j].obs
    BY SpotsMember
  <2>3. x[1] = i /\ x[1] = j
    BY <2>1, <2>2
  <2> QED
    BY <2>3
<1>4. Cardinality(SpotsIn(I, bs) \cap SpotsIn(J, bs)) = 0
  BY <1>3, FS_EmptySet
<1>5. Cardinality(SpotsIn(I, bs) \cup SpotsIn(J, bs)) =
          Cardinality(SpotsIn(I, bs)) + Cardinality(SpotsIn(J, bs))
              - Cardinality(SpotsIn(I, bs) \cap SpotsIn(J, bs))
  BY <1>1, FS_Union
<1> QED
  <2>1. PICK a \in Nat, b \in Nat : /\ a = Cardinality(SpotsIn(I, bs))
                                    /\ b = Cardinality(SpotsIn(J, bs))
    BY <1>1
  <2>2. a + b - 0 = a + b
    OBVIOUS
  <2> QED
    BY <1>2, <1>4, <1>5, <2>1, <2>2

(* The spots depend on the observations only. *)
LEMMA SpotsSame ==
  ASSUME NEW I, NEW bs, NEW cs, \A i \in I : bs[i].obs = cs[i].obs
  PROVE  SpotsIn(I, bs) = SpotsIn(I, cs)
<1>1. ASSUME NEW x PROVE x \in SpotsIn(I, bs) <=> x \in SpotsIn(I, cs)
  BY SpotsMember
<1> QED
  BY <1>1

(* The spots of one batch are counted by its length. *)
LEMMA SpotsSingle ==
  ASSUME NEW i, NEW T, NEW bs, bs[i].obs \in Seq(T)
  PROVE  Cardinality(SpotsIn({i}, bs)) = Len(bs[i].obs)
<1>1. SpotsIn({i}, bs) = {i} \X DOMAIN bs[i].obs
  BY DEF SpotsIn
<1> QED
  BY <1>1, SpotsOne

(* The batches cs are the batches bs after the first. *)
OneLeft(n, cs, bs) == \A i \in 1 .. n : cs[i].obs = bs[i + 1].obs
Later(n, bs) == SpotsIn(2 .. n + 1, bs)

(* Moving every batch one place to the left keeps their number of places. *)
LEMMA SpotsShift ==
  ASSUME NEW n \in Nat, NEW bs, NEW cs, IsFiniteSet(Later(n, bs)), OneLeft(n, cs, bs)
  PROVE  Cardinality(Later(n, bs)) = Cardinality(SpotsIn(1 .. n, cs))
<1> USE DEF Later, OneLeft
<1> DEFINE S == SpotsIn(2 .. n + 1, bs)
           R == SpotsIn(1 .. n, cs)
           f == [s \in S |-> <<s[1] - 1, s[2]>>]
<1>1. ASSUME NEW s \in S
      PROVE  s = <<s[1], s[2]>> /\ s[1] \in Int /\ f[s] \in R
  <2>1. PICK i \in 2 .. n + 1 : s \in {i} \X DOMAIN bs[i].obs
    BY SpotsMember
  <2>2. s = <<s[1], s[2]>> /\ s[1] = i /\ s[2] \in DOMAIN bs[i].obs
    BY <2>1
  <2>3. i - 1 \in 1 .. n /\ cs[i - 1].obs = bs[i].obs
    <3>1. i - 1 \in 1 .. n /\ (i - 1) + 1 = i
      BY <2>1
    <3> QED
      BY <3>1
  <2>4. f[s] = <<i - 1, s[2]>>
    BY <2>2
  <2>5. f[s] \in {i - 1} \X DOMAIN cs[i - 1].obs
    BY <2>2, <2>3, <2>4
  <2> QED
    BY <2>2, <2>3, <2>5, SpotsMember
<1>2. f \in Injection(S, R)
  <2>1. f \in [S -> R]
    BY <1>1
  <2>2. ASSUME NEW s \in S, NEW t \in S, f[s] = f[t] PROVE s = t
    <3>1. s[1] - 1 = t[1] - 1 /\ s[2] = t[2]
      <4>1. PICK a, b, c, e : a = s[1] - 1 /\ b = s[2] /\ c = t[1] - 1 /\ e = t[2]
        OBVIOUS
      <4>2. f[s] = <<a, b>> /\ f[t] = <<c, e>>
        BY <4>1
      <4>3. <<a, b>> = <<c, e>>
        BY <2>2, <4>2
      <4> QED
        BY <4>1, <4>3
    <3>2. s[1] \in Int /\ t[1] \in Int
      BY <1>1
    <3>3. s[1] = t[1]
      BY <3>1, <3>2
    <3> QED
      BY <1>1, <3>1, <3>3
  <2> QED
    BY <2>1, <2>2 DEF Injection, IsInjective
<1>3. f \in Surjection(S, R)
  <2>1. f \in [S -> R]
    BY <1>1
  <2>2. ASSUME NEW r \in R PROVE \E s \in S : f[s] = r
    <3>1. PICK i \in 1 .. n : r \in {i} \X DOMAIN cs[i].obs
      BY SpotsMember
    <3>2. r = <<i, r[2]>> /\ r[2] \in DOMAIN bs[i + 1].obs
      BY <3>1
    <3>3. i + 1 \in 2 .. n + 1 /\ (i + 1) - 1 = i
      BY <3>1
    <3>4. <<i + 1, r[2]>> \in S
      BY <3>2, <3>3, SpotsMember
    <3>5. f[<<i + 1, r[2]>>] = <<(i + 1) - 1, r[2]>>
      BY <3>4
    <3> QED
      BY <3>2, <3>3, <3>4, <3>5
  <2> QED
    BY <2>1, <2>2 DEF Surjection
<1> QED
  BY <1>2, <1>3, FS_Surjection

(* ObsCount counts the spots. *)
LEMMA CountIs ==
  ASSUME NEW bs
  PROVE  ObsCount(bs) = Cardinality(SpotsIn(DOMAIN bs, bs))
  BY DEF ObsCount, Spots, SpotsIn

(* Batches with their observations. *)
Held == [seq : Nat, obs : Seq(Observation)]

(* The types of a batch in a list. *)
LEMMA BatchAt ==
  ASSUME NEW L \in Seq(Batch), NEW i \in DOMAIN L
  PROVE  L[i] \in Batch /\ L[i].dev \in Devices /\ L[i].seq \in Nat /\ L[i].obs \in Seq(Observation)
<1>1. L[i] \in Batch
  OBVIOUS
<1> QED
  BY <1>1 DEF Batch

(* The count of a list of batches is a number. *)
LEMMA CountNat ==
  ASSUME NEW L \in Seq(Batch)
  PROVE  ObsCount(L) \in Nat
<1>1. DOMAIN L = 1 .. Len(L) /\ Len(L) \in Nat /\ \A i \in DOMAIN L : L[i].obs \in Seq(Observation)
  BY LenProperties, BatchAt
<1>2. IsFiniteSet(DOMAIN L)
  BY <1>1, FS_Interval
<1> QED
  BY <1>1, <1>2, SpotsFinite, CountIs

(* A batch that is added adds its length. *)
LEMMA CountAppend ==
  ASSUME NEW L \in Seq(Batch), NEW b \in Batch
  PROVE  ObsCount(Append(L, b)) = ObsCount(L) + Len(b.obs)
<1> DEFINE M == Append(L, b)
<1>1. PICK n \in Nat : n = Len(L) /\ DOMAIN L = 1 .. n
  BY LenProperties
<1>2. /\ M \in Seq(Batch) /\ Len(M) = n + 1 /\ DOMAIN M = 1 .. n + 1
      /\ \A i \in 1 .. n : M[i] = L[i]
      /\ M[n + 1] = b
  BY <1>1, AppendProperties, LenProperties
<1>3. \A i \in 1 .. n + 1 : M[i].obs \in Seq(Observation)
  <2> HIDE DEF M
  <2> QED
    BY <1>2, BatchAt
<1>4. IsFiniteSet(1 .. n) /\ IsFiniteSet({n + 1})
  <2>1. IsFiniteSet(1 .. n)
    BY FS_Interval
  <2>2. IsFiniteSet({n + 1})
    BY FS_Singleton
  <2> QED
    BY <2>1, <2>2
<1>5. (1 .. n) \cap {n + 1} = {} /\ (1 .. n) \cup {n + 1} = 1 .. n + 1
  OBVIOUS
<1>6. Cardinality(SpotsIn((1 .. n) \cup {n + 1}, M)) =
          Cardinality(SpotsIn(1 .. n, M)) + Cardinality(SpotsIn({n + 1}, M))
  <2>1. \A i \in (1 .. n) \cup {n + 1} : M[i].obs \in Seq(Observation)
    BY <1>3, <1>5
  <2> HIDE DEF M
  <2> QED
    BY <1>4, <1>5, <2>1, SpotsAdd
<1>7. SpotsIn(1 .. n, M) = SpotsIn(1 .. n, L)
  BY <1>2, SpotsSame
<1>8. Cardinality(SpotsIn({n + 1}, M)) = Len(b.obs)
  <2>1. M[n + 1].obs \in Seq(Observation)
    BY <1>3, <1>5
  <2> HIDE DEF M
  <2>2. Cardinality(SpotsIn({n + 1}, M)) = Len(M[n + 1].obs)
    BY <2>1, SpotsSingle
  <2> QED
    BY <1>2, <2>2
<1> QED
  BY <1>1, <1>2, <1>5, <1>6, <1>7, <1>8, CountIs

(* A batch that is taken takes its length away. *)
LEMMA CountTail ==
  ASSUME NEW L \in Seq(Batch), L # <<>>
  PROVE  /\ ObsCount(L) = Len(Head(L).obs) + ObsCount(Tail(L))
         /\ Len(Head(L).obs) \in Nat /\ ObsCount(Tail(L)) \in Nat
<1>1. PICK n \in Nat : Len(L) = n + 1 /\ DOMAIN L = 1 .. n + 1
  <2>1. Len(L) \in Nat \ {0} /\ DOMAIN L = 1 .. Len(L)
    BY EmptySeq, LenProperties
  <2>2. Len(L) - 1 \in Nat /\ Len(L) = (Len(L) - 1) + 1
    BY <2>1
  <2> QED
    BY <2>1, <2>2
<1>2. /\ Head(L) = L[1] /\ Head(L) \in Batch /\ Tail(L) \in Seq(Batch)
      /\ DOMAIN Tail(L) = 1 .. n /\ \A i \in 1 .. n : Tail(L)[i] = L[i + 1]
  <2>1. Len(Tail(L)) = (n + 1) - 1
    BY <1>1, HeadTailProperties
  <2>2. Len(Tail(L)) = n
    BY <2>1
  <2> QED
    BY <1>1, <2>2, HeadTailProperties, LenProperties
<1>3. \A i \in 1 .. n + 1 : L[i].obs \in Seq(Observation)
  BY <1>1, BatchAt
<1>4. IsFiniteSet(2 .. n + 1) /\ IsFiniteSet({1})
  <2>1. IsFiniteSet(2 .. n + 1)
    BY FS_Interval
  <2>2. IsFiniteSet({1})
    BY FS_Singleton
  <2> QED
    BY <2>1, <2>2
<1>5. {1} \cap (2 .. n + 1) = {} /\ {1} \cup (2 .. n + 1) = 1 .. n + 1
  OBVIOUS
<1>6. Cardinality(SpotsIn({1} \cup (2 .. n + 1), L)) =
          Cardinality(SpotsIn({1}, L)) + Cardinality(SpotsIn(2 .. n + 1, L))
  <2>1. PICK I, J : I = {1} /\ J = 2 .. n + 1
    OBVIOUS
  <2>2. /\ I \cap J = {} /\ IsFiniteSet(I) /\ IsFiniteSet(J)
        /\ \A i \in I \cup J : L[i].obs \in Seq(Observation)
    BY <1>3, <1>4, <1>5, <2>1
  <2>3. Cardinality(SpotsIn(I \cup J, L)) = Cardinality(SpotsIn(I, L)) + Cardinality(SpotsIn(J, L))
    BY <2>2, SpotsAdd
  <2> QED
    BY <2>1, <2>3
<1>7. Cardinality(SpotsIn({1}, L)) = Len(Head(L).obs)
  <2>1. PICK i : i = 1
    OBVIOUS
  <2>2. L[i].obs \in Seq(Observation) /\ L[i] = Head(L)
    BY <1>2, <1>3, <1>5, <2>1
  <2>3. Cardinality(SpotsIn({i}, L)) = Len(L[i].obs)
    BY <2>2, SpotsSingle
  <2> QED
    BY <2>1, <2>2, <2>3
<1>8. Cardinality(SpotsIn(2 .. n + 1, L)) = Cardinality(SpotsIn(1 .. n, Tail(L)))
  <2>1. \A i \in 2 .. n + 1 : L[i].obs \in Seq(Observation)
    BY <1>3, <1>5
  <2>2. \A i \in 1 .. n : Tail(L)[i].obs = L[i + 1].obs
    BY <1>2
  <2>3. IsFiniteSet(SpotsIn(2 .. n + 1, L))
    BY <1>4, <2>1, SpotsFinite
  <2>4. IsFiniteSet(Later(n, L)) /\ OneLeft(n, Tail(L), L)
    BY <2>2, <2>3 DEF Later, OneLeft
  <2>5. Cardinality(Later(n, L)) = Cardinality(SpotsIn(1 .. n, Tail(L)))
    BY <2>4, SpotsShift
  <2> QED
    BY <2>5 DEF Later
<1>9. Len(Head(L).obs) \in Nat /\ ObsCount(Tail(L)) \in Nat
  BY <1>2, CountNat, LenProperties DEF Batch
<1> QED
  BY <1>1, <1>2, <1>5, <1>6, <1>7, <1>8, <1>9, CountIs

(* Empty batches count nothing. *)
LEMMA CountEmpty ==
  ASSUME NEW bs, \A i \in DOMAIN bs : bs[i].obs = <<>>
  PROVE  ObsCount(bs) = 0
<1>1. ASSUME NEW x \in SpotsIn(DOMAIN bs, bs) PROVE FALSE
  <2>1. PICK i \in DOMAIN bs : x \in {i} \X DOMAIN bs[i].obs
    BY SpotsMember
  <2>2. bs[i].obs = <<>> /\ DOMAIN <<>> = {}
    OBVIOUS
  <2> QED
    BY <2>1, <2>2
<1>2. SpotsIn(DOMAIN bs, bs) = {}
  BY <1>1
<1> QED
  BY <1>2, CountIs, FS_EmptySet

(* No batches count nothing. *)
LEMMA CountNone == ObsCount(<<>>) = 0
  BY CountEmpty

(* One partial batch is replaced. *)
LEMMA CountExcept ==
  ASSUME NEW p \in [Devices -> Held], NEW d \in Devices, NEW r \in Held
  PROVE  /\ ObsCount([p EXCEPT ![d] = r]) + Len(p[d].obs) = ObsCount(p) + Len(r.obs)
         /\ ObsCount(p) \in Nat /\ ObsCount([p EXCEPT ![d] = r]) \in Nat
         /\ Len(p[d].obs) \in Nat /\ Len(p[d].obs) <= ObsCount(p)
<1> DEFINE q == [p EXCEPT ![d] = r]
           O == Devices \ {d}
<1>1. /\ q \in [Devices -> Held] /\ q[d] = r /\ \A i \in O : q[i] = p[i]
      /\ DOMAIN p = Devices /\ DOMAIN q = Devices
  OBVIOUS
<1>2. /\ \A i \in Devices : p[i].obs \in Seq(Observation) /\ q[i].obs \in Seq(Observation)
  BY <1>1 DEF Held
<1>3. IsFiniteSet(O) /\ IsFiniteSet({d}) /\ IsFiniteSet(Devices)
  BY DPAssumption, FS_Singleton, FS_Subset
<1>4. O \cap {d} = {} /\ O \cup {d} = Devices
  OBVIOUS
<1> HIDE DEF q, O
<1>5. Cardinality(SpotsIn(O \cup {d}, p)) =
          Cardinality(SpotsIn(O, p)) + Cardinality(SpotsIn({d}, p))
  <2>1. \A i \in O \cup {d} : p[i].obs \in Seq(Observation)
    BY <1>2, <1>4
  <2> QED
    BY <1>3, <1>4, <2>1, SpotsAdd
<1>6. Cardinality(SpotsIn(O \cup {d}, q)) =
          Cardinality(SpotsIn(O, q)) + Cardinality(SpotsIn({d}, q))
  <2>1. \A i \in O \cup {d} : q[i].obs \in Seq(Observation)
    BY <1>2, <1>4
  <2> QED
    BY <1>3, <1>4, <2>1, SpotsAdd
<1>7. SpotsIn(O, p) = SpotsIn(O, q)
  BY <1>1, SpotsSame
<1>8. Cardinality(SpotsIn({d}, p)) = Len(p[d].obs) /\ Cardinality(SpotsIn({d}, q)) = Len(r.obs)
  BY <1>1, <1>2, SpotsSingle
<1>9. Cardinality(SpotsIn(O, p)) \in Nat
  BY <1>2, <1>3, <1>4, SpotsFinite
<1>10. Len(p[d].obs) \in Nat /\ Len(r.obs) \in Nat
  BY <1>2, LenProperties DEF Held
<1>11. PICK a \in Nat, m \in Nat, n \in Nat :
          /\ a = Cardinality(SpotsIn(O, p)) /\ m = Len(p[d].obs) /\ n = Len(r.obs)
          /\ ObsCount(p) = a + m /\ ObsCount(q) = a + n
  BY <1>1, <1>4, <1>5, <1>6, <1>7, <1>8, <1>9, <1>10, CountIs
<1>12. (a + n) + m = (a + m) + n /\ a + m \in Nat /\ a + n \in Nat /\ m <= a + m
  OBVIOUS
<1> QED
  BY <1>11, <1>12 DEF q

-----------------------------------------------------------------------------
(* Types *)

(* The capacities are positive. *)
LEMMA Sizes ==
  /\ MaxEvents \in Nat \ {0} /\ EventCap \in Nat \ {0} /\ InputCap \in Nat \ {0}
  /\ MaxBatch \in Nat \ {0} /\ Multiplier \in Nat \ {0} /\ OutCap \in Nat \ {0}
  BY DPAssumption

(* A partial batch starts empty, with number 0. *)
LEMMA EmptyHeld == Empty \in Held /\ Empty.obs = <<>> /\ Empty.seq = 0
  BY DEF Empty, Held

(* The types of a partial batch. *)
LEMMA PendingAt ==
  ASSUME TypeOK, NEW d \in Devices
  PROVE  /\ pending[d] \in Held /\ pending[d].seq \in Nat /\ pending[d].obs \in Seq(Observation)
         /\ Len(pending[d].obs) \in Nat /\ DOMAIN pending[d].obs = 1 .. Len(pending[d].obs)
<1>1. pending \in [Devices -> [seq : Nat, obs : Seq(Observation)]]
  BY DEF TypeOK
<1>2. pending[d] \in [seq : Nat, obs : Seq(Observation)]
  BY <1>1
<1> QED
  BY <1>2, LenProperties DEF Held

(* The count of partial batches is a number. *)
LEMMA HeldCountNat ==
  ASSUME NEW p \in [Devices -> Held]
  PROVE  ObsCount(p) \in Nat
<1>1. \A d \in Devices : p[d].obs \in Seq(Observation)
  <2>1. \A d \in Devices : p[d] \in Held
    OBVIOUS
  <2> QED
    BY <2>1 DEF Held
<1>2. DOMAIN p = Devices /\ IsFiniteSet(Devices)
  BY DPAssumption
<1> QED
  BY <1>1, <1>2, SpotsFinite, CountIs

(* So is that of the ones that are pending. *)
LEMMA PendingCountNat ==
  ASSUME TypeOK
  PROVE  ObsCount(pending) \in Nat /\ pending \in [Devices -> Held] /\ DOMAIN pending = Devices
<1>1. pending \in [Devices -> Held] /\ DOMAIN pending = Devices
  BY DEF TypeOK, Held
<1> QED
  BY <1>1, HeldCountNat

(* What aggregate_observation makes of the partial batches. *)
LEMMA AggregateFacts ==
  ASSUME TypeOK, NEW o \in Observation
  PROVE  /\ Aggregate(pending, o) \in [Devices -> Held]
         /\ o.dev \in Devices /\ o.seq \in Nat
         /\ \E r \in Held :
               /\ r.seq = NextNumber(pending, devseq, o.dev)
               /\ r.obs = Append(pending[o.dev].obs, o)
               /\ Aggregate(pending, o) = [pending EXCEPT ![o.dev] = r]
<1>1. o.dev \in Devices /\ o.seq \in Nat
  BY DEF Observation
<1>2. PICK d \in Devices : d = o.dev
  BY <1>1
<1>3. pending[d] \in Held /\ pending[d].seq \in Nat /\ pending[d].obs \in Seq(Observation)
  BY PendingAt
<1>4. devseq[d] \in Nat /\ pending \in [Devices -> Held]
  BY DEF TypeOK, Held
<1>5. PICK n \in Nat : n = NextNumber(pending, devseq, d)
  BY <1>3, <1>4 DEF NextNumber
<1>6. PICK q \in Seq(Observation) : q = Append(pending[d].obs, o)
  BY <1>3, AppendProperties
<1> DEFINE r == [seq |-> n, obs |-> q]
<1>7. r \in Held /\ r.seq = n /\ r.obs = q
  BY DEF Held
<1>8. Aggregate(pending, o) = [pending EXCEPT ![d] = r]
  BY <1>2, <1>5, <1>6 DEF Aggregate, NextNumber
<1>9. [pending EXCEPT ![d] = r] \in [Devices -> Held]
  BY <1>4, <1>7
<1> QED
  BY <1>1, <1>2, <1>5, <1>6, <1>7, <1>8, <1>9

(* flush_pending_to_outbox moves the first observations of a partial batch  *)
(* to a batch and leaves the others.                                        *)
LEMMA ChunkFacts ==
  ASSUME TypeOK, NEW d \in Devices, FlushChunk(d)
  PROVE  \E t \in 1 .. MaxBatch, b \in Batch, r \in Held :
            /\ t <= Len(pending[d].obs)
            /\ b.dev = d /\ b.seq = pending[d].seq
            /\ Len(b.obs) = t /\ \A k \in 1 .. t : b.obs[k] = pending[d].obs[k]
            /\ Len(r.obs) = Len(pending[d].obs) - t
            /\ \A k \in 1 .. Len(r.obs) : r.obs[k] = pending[d].obs[t + k]
            /\ outbox' = Append(outbox, b)
            /\ pending' = [pending EXCEPT ![d] = r]
            /\ \/ /\ r.obs = <<>> /\ splitting' = {}
                  /\ devseq' = [devseq EXCEPT ![d] = b.seq + 1]
               \/ /\ r.obs # <<>> /\ splitting' = {d}
                  /\ r.seq = b.seq + 1 /\ devseq' = devseq
<1> DEFINE p == pending[d]
           take == IF Len(p.obs) < MaxBatch THEN Len(p.obs) ELSE MaxBatch
           rest == SubSeq(p.obs, take + 1, Len(p.obs))
           first == SubSeq(p.obs, 1, take)
           b == [dev |-> d, seq |-> p.seq, obs |-> first]
<1>1. /\ p \in Held /\ p.seq \in Nat /\ p.obs \in Seq(Observation) /\ Len(p.obs) \in Nat
      /\ \A k \in 1 .. Len(p.obs) : p.obs[k] \in Observation
  BY PendingAt, ElementOfSeq
<1>2. p.obs # <<>> /\ MaxBatch \in Nat \ {0}
  BY Sizes DEF FlushChunk
<1>3. Len(p.obs) \in Nat \ {0}
  BY <1>1, <1>2, EmptySeq
<1>4. take \in 1 .. MaxBatch /\ take <= Len(p.obs) /\ take \in Nat
  BY <1>2, <1>3
<1>5. PICK t \in 1 .. MaxBatch : t = take /\ t \in Nat /\ t <= Len(p.obs)
  BY <1>4
<1>6. /\ first \in Seq(Observation) /\ Len(first) = t
      /\ \A k \in 1 .. t : first[k] = p.obs[k]
  <2>1. \A k \in 1 .. t : p.obs[k] \in Observation
    BY <1>1, <1>5
  <2>2. /\ SubSeq(p.obs, 1, t) \in Seq(Observation)
        /\ Len(SubSeq(p.obs, 1, t)) = IF 1 <= t THEN t - 1 + 1 ELSE 0
        /\ \A k \in 1 .. t - 1 + 1 : SubSeq(p.obs, 1, t)[k] = p.obs[1 + k - 1]
    BY <1>5, <2>1, SubSeqProperties
  <2>3. \A k \in 1 .. t : 1 + k - 1 = k
    OBVIOUS
  <2> QED
    BY <1>5, <2>2, <2>3
<1>7. /\ rest \in Seq(Observation) /\ Len(rest) = Len(p.obs) - t
      /\ \A k \in 1 .. Len(rest) : rest[k] = p.obs[t + k]
  <2>1. PICK m \in Int, n \in Nat, q \in Seq(Observation) : m = t + 1 /\ n = Len(p.obs) /\ q = p.obs
    BY <1>1, <1>5
  <2>2. \A k \in m .. n : q[k] \in Observation
    BY <1>1, <1>5, <2>1
  <2>3. /\ SubSeq(q, m, n) \in Seq(Observation)
        /\ Len(SubSeq(q, m, n)) = IF m <= n THEN n - m + 1 ELSE 0
        /\ \A k \in 1 .. n - m + 1 : SubSeq(q, m, n)[k] = q[m + k - 1]
    BY <2>2, SubSeqProperties
  <2>4. n - m + 1 = n - t /\ \A k \in 1 .. n - t : m + k - 1 = t + k
    <3>1. m = t + 1 /\ t \in Int /\ m \in Int /\ n \in Int
      BY <1>5, <2>1
    <3> HIDE DEF take, rest, first, b, p
    <3> QED
      BY <3>1
  <2>5. rest = SubSeq(q, m, n) /\ Len(rest) = n - t
    <3>1. rest = SubSeq(q, m, n)
      BY <1>5, <2>1
    <3>2. Len(SubSeq(q, m, n)) = n - t
      <4>1. (IF m <= n THEN n - m + 1 ELSE 0) = n - t
        BY <1>5, <2>1
      <4> QED
        BY <2>3, <4>1
    <3> QED
      BY <3>1, <3>2
  <2>6. \A k \in 1 .. n - t : SubSeq(q, m, n)[k] = q[t + k]
    BY <2>3, <2>4
  <2> QED
    BY <2>1, <2>3, <2>5, <2>6
<1>8. b \in Batch /\ b.dev = d /\ b.seq = p.seq /\ b.obs = first
  BY <1>1, <1>6 DEF Batch
<1>9. /\ outbox' = Append(outbox, b)
      /\ \/ /\ rest = <<>>
            /\ pending' = [pending EXCEPT ![d] = Empty]
            /\ devseq' = [devseq EXCEPT ![d] = p.seq + 1]
            /\ splitting' = {}
         \/ /\ rest # <<>>
            /\ pending' = [pending EXCEPT ![d] = [seq |-> p.seq + 1, obs |-> rest]]
            /\ splitting' = {d}
            /\ UNCHANGED devseq
  BY DEF FlushChunk, WriteBack
<1> HIDE DEF p, take, rest, first, b
<1>10. CASE rest = <<>>
  BY <1>5, <1>6, <1>7, <1>8, <1>9, <1>10, EmptyHeld DEF p
<1>11. CASE rest # <<>>
  <2> DEFINE r == [seq |-> p.seq + 1, obs |-> rest]
  <2>1. r \in Held /\ r.seq = p.seq + 1 /\ r.obs = rest
    BY <1>1, <1>7 DEF Held
  <2>2. pending' = [pending EXCEPT ![d] = r] /\ splitting' = {d} /\ devseq' = devseq
    BY <1>9, <1>11
  <2> HIDE DEF r
  <2>3. /\ t <= Len(pending[d].obs)
        /\ b.dev = d /\ b.seq = pending[d].seq
        /\ Len(b.obs) = t /\ \A k \in 1 .. t : b.obs[k] = pending[d].obs[k]
    BY <1>5, <1>6, <1>8 DEF p
  <2>4. /\ Len(r.obs) = Len(pending[d].obs) - t
        /\ \A k \in 1 .. Len(r.obs) : r.obs[k] = pending[d].obs[t + k]
    BY <1>7, <2>1 DEF p
  <2>5. r.obs # <<>> /\ r.seq = b.seq + 1
    BY <1>8, <1>11, <2>1
  <2> QED
    BY <1>5, <1>8, <1>9, <2>1, <2>2, <2>3, <2>4, <2>5
<1> QED
  BY <1>10, <1>11

(* map_results numbers the observations of an event upwards, within the     *)
(* numbers that were allocated for it.                                      *)
LEMMA MapFacts ==
  ASSUME NEW e \in Events, NEW start \in Nat, MapResults(e, start)
  PROVE  /\ e.dev \in Devices /\ Len(e.items) \in Nat
         /\ hand' \in Seq(Observation)
         /\ \A m \in DOMAIN hand' :
               /\ hand'[m].dev = e.dev
               /\ start <= hand'[m].seq /\ hand'[m].seq < start + Len(e.items)
         /\ \A m, n \in DOMAIN hand' : m < n => hand'[m].seq < hand'[n].seq
<1>1. e.dev \in Devices /\ e.items \in Seq({"ok", "unknown", "domain_error"})
  BY DPAssumption
<1>2. Len(e.items) \in Nat /\ DOMAIN e.items = 1 .. Len(e.items)
  BY <1>1, LenProperties
<1>3. CASE hand' = <<>>
  BY <1>1, <1>2, <1>3
<1>4. CASE hand' # <<>>
  <2> DEFINE S == {i \in DOMAIN e.items : e.items[i] # "unknown"}
  <2>1. PICK at \in Rising(S) : hand' = [j \in DOMAIN at |-> Obs(e.dev, start + at[j] - 1)]
    BY <1>4 DEF MapResults
  <2>2. IsFiniteSet(S) /\ Cardinality(S) \in Nat
    <3>1. IsFiniteSet(1 .. Len(e.items))
      BY <1>2, FS_Interval
    <3>2. S \in SUBSET (1 .. Len(e.items))
      BY <1>2
    <3> QED
      BY <3>1, <3>2, FS_Subset, FS_CardinalityType
  <2>3. PICK c \in Nat : c = Cardinality(S)
    BY <2>2
  <2>4. /\ DOMAIN at = 1 .. c
        /\ \A j \in 1 .. c : at[j] \in 1 .. Len(e.items)
        /\ \A j, k \in 1 .. c : j < k => at[j] < at[k]
    BY <1>2, <2>1, <2>3 DEF Rising
  <2> HIDE DEF S
  <2>5. ASSUME NEW j \in 1 .. c
        PROVE  /\ hand'[j] = Obs(e.dev, start + at[j] - 1)
               /\ hand'[j] \in Observation
               /\ hand'[j].dev = e.dev /\ hand'[j].seq = start + at[j] - 1
               /\ start <= hand'[j].seq /\ hand'[j].seq < start + Len(e.items)
    <3>1. PICK n \in Nat : n = start + at[j] - 1 /\ start <= n /\ n < start + Len(e.items)
      BY <1>2, <2>4
    <3>2. hand'[j] = Obs(e.dev, n)
      BY <2>1, <2>4, <3>1
    <3> QED
      BY <1>1, <3>1, <3>2 DEF Obs, Observation
  <2>6. DOMAIN hand' = 1 .. c /\ hand' \in Seq(Observation)
    <3>1. DOMAIN hand' = 1 .. c
      BY <2>1, <2>4
    <3>2. hand' = [j \in 1 .. c |-> hand'[j]]
      BY <2>1, <3>1
    <3>3. hand' \in [1 .. c -> Observation]
      BY <2>5, <3>2
    <3> QED
      BY <3>1, <3>3, SeqDef
  <2>7. ASSUME NEW j \in 1 .. c, NEW k \in 1 .. c, j < k PROVE hand'[j].seq < hand'[k].seq
    <3>1. at[j] \in Int /\ at[k] \in Int /\ at[j] < at[k]
      BY <1>2, <2>4, <2>7
    <3>2. start + at[j] - 1 < start + at[k] - 1
      BY <3>1
    <3> QED
      BY <2>5, <3>2
  <2> QED
    BY <1>1, <1>2, <2>5, <2>6, <2>7
<1> QED
  BY <1>3, <1>4

(* The initial state has its types. *)
LEMMA InitType == Init => TypeInv
<1> SUFFICES ASSUME Init PROVE TypeInv
  OBVIOUS
<1>1. pending = [d \in Devices |-> Empty] /\ Empty \in Held /\ Len(Empty.obs) = 0
  BY EmptyHeld DEF Init
<1>2. pending \in [Devices -> Held] /\ \A d \in Devices : Len(pending[d].obs) < MaxBatch
  BY <1>1, Sizes
<1>3. TypeOK
  <2>1. /\ hand \in Seq(Observation) /\ input \in Seq(Observation) /\ Len(input) = 0
        /\ events \in Seq(Events) /\ Len(events) = 0
        /\ output \in Seq(Batch) /\ Len(output) = 0
        /\ outbox \in Seq(Batch) /\ DOMAIN outbox = {} /\ emitted \in Seq(Batch)
    BY DEF Init
  <2>2. next \in [Devices -> Nat] /\ devseq \in [Devices -> Nat]
    BY DEF Init
  <2>0. /\ polling \in BOOLEAN /\ permit \in BOOLEAN /\ accepting \in BOOLEAN
        /\ outOpen \in BOOLEAN /\ splitting \subseteq Devices /\ accepted \subseteq Observation
    BY DEF Init
  <2>3. /\ posted \in 0 .. MaxEvents /\ pump \in {"recv", "ingest", "done"}
        /\ handle \in {"held", "stopping", "dropped", "abandoned"}
        /\ task \in {"run", "collect", "drain", "terminate", "ended"} \cup Flushing
        /\ buffered \in Nat /\ stats \in [emitted : Nat, dropped : Nat]
    BY Sizes DEF Init, Flushing
  <2>4. /\ Len(events) <= EventCap /\ Len(input) <= InputCap /\ Len(output) <= OutCap
        /\ \A i \in DOMAIN outbox : BatchLen(outbox[i]) \in 1 .. MaxBatch
    BY <2>1, Sizes
  <2> QED
    BY <1>2, <2>0, <2>1, <2>2, <2>3, <2>4 DEF TypeOK, Held
<1> QED
  BY <1>2, <1>3 DEF TypeInv, SlotInv, Init

(* The actions that move no observation. *)
Signal ==
    \/ PollersGone \/ StopPipeline \/ PumpDone \/ Reserve \/ FlushTick \/ FlushOver
    \/ CancelSeen \/ StopSeen \/ CollectOver \/ DrainEnd \/ OutputClosed \/ TerminateFlush
    \/ ConsumerGone \/ Consume \/ (\E e \in Events : Post(e)) \/ StartFails \/ UNCHANGED vars

(* Steps that only signal move no observation. *)
LEMMA SignalLeaves ==
  ASSUME Signal
  PROVE  /\ UNCHANGED <<hand, next, accepted, input, pending, splitting, devseq, outbox, buffered,
                        stats, emitted>>
         /\ permit' = permit \/ Reserve
  BY DEF Signal, PollersGone, StopPipeline, PumpDone, Reserve, FlushTick, FlushOver, CancelSeen,
     StopSeen, CollectOver, DrainEnd, OutputClosed, TerminateFlush, ConsumerGone, Consume, Post,
     StartFails, vars, srcVars, pumpVars, taskVars

(* Steps that only signal keep the types. *)
LEMMA SignalType ==
  ASSUME TypeInv, ControlInv, Signal
  PROVE  TypeInv'
<1> USE DEF TypeInv
<1>1. UNCHANGED <<hand, next, accepted, input, pending, splitting, devseq, outbox, buffered, stats,
                  emitted>>
  BY SignalLeaves
<1>2. CASE \E e \in Events : Post(e)
  <2>1. PICK e \in Events : Post(e)
    BY <1>2
  <2>2. posted' \in 0 .. MaxEvents
    BY <2>1, Sizes DEF Post, TypeOK
  <2>3. events' \in Seq(Events) /\ Len(events') <= EventCap
    BY <2>1, Sizes, AppendProperties DEF Post, TypeOK
  <2>4. UNCHANGED <<polling, pump, permit, accepting, handle, task, output, outOpen>>
    BY <2>1 DEF Post, srcVars, pumpVars, taskVars
  <2> QED
    BY <1>1, <2>2, <2>3, <2>4 DEF TypeOK, SlotInv
<1>3. CASE Consume
  <2>1. output' \in Seq(Batch) /\ Len(output') <= OutCap
    <3>1. /\ output \in Seq(Batch) /\ output # <<>> /\ output' = Tail(output)
          /\ Len(output) <= OutCap
      BY <1>3 DEF Consume, TypeOK
    <3>2. Tail(output) \in Seq(Batch) /\ Len(Tail(output)) = Len(output) - 1 /\ Len(output) \in Nat
      BY <3>1, HeadTailProperties, LenProperties
    <3> QED
      BY <3>1, <3>2, Sizes
  <2>2. UNCHANGED <<polling, posted, events, pump, permit, accepting, handle, task, outOpen>>
    BY <1>3 DEF Consume, srcVars, pumpVars, taskVars
  <2> QED
    BY <1>1, <2>1, <2>2 DEF TypeOK, SlotInv
<1>4. CASE PollersGone \/ StopPipeline \/ PumpDone \/ Reserve \/ StartFails
  <2>1. UNCHANGED <<posted, events, accepting, task, output, outOpen>>
    BY <1>4 DEF PollersGone, StopPipeline, PumpDone, Reserve, StartFails,
       srcVars, pumpVars, taskVars
  <2>2. /\ polling' \in BOOLEAN /\ pump' \in {"recv", "ingest", "done"} /\ permit' \in BOOLEAN
        /\ handle' \in {"held", "stopping", "dropped", "abandoned"}
    BY <1>4 DEF PollersGone, StopPipeline, PumpDone, Reserve, StartFails,
       srcVars, pumpVars, taskVars, TypeOK
  <2>3. permit' => pump' = "ingest" /\ hand # <<>> /\ Len(input) < InputCap
    BY <1>4 DEF PollersGone, StopPipeline, PumpDone, Reserve, StartFails,
       srcVars, pumpVars, taskVars, SlotInv, TypeOK, ControlInv
  <2> QED
    BY <1>1, <2>1, <2>2, <2>3 DEF TypeOK, SlotInv
<1>5. CASE \/ FlushTick \/ FlushOver \/ CancelSeen \/ StopSeen \/ CollectOver \/ DrainEnd
           \/ OutputClosed \/ TerminateFlush \/ ConsumerGone \/ UNCHANGED vars
  <2>1. UNCHANGED <<polling, posted, events, pump, permit, handle, output>>
    BY <1>5 DEF FlushTick, FlushOver, CancelSeen, StopSeen, CollectOver, DrainEnd, OutputClosed,
       TerminateFlush, ConsumerGone, vars, srcVars, pumpVars, taskVars
  <2>2. /\ task' \in {"run", "collect", "drain", "terminate", "ended"} \cup Flushing
        /\ accepting' \in BOOLEAN /\ outOpen' \in BOOLEAN
        /\ task' = "run" => task = "run" \/ NothingPending
    BY <1>5 DEF FlushTick, FlushOver, CancelSeen, StopSeen, CollectOver, DrainEnd, OutputClosed,
       TerminateFlush, ConsumerGone, vars, srcVars, pumpVars, taskVars, TypeOK, Flushing
  <2>3. NothingPending => \A d \in Devices : Len(pending[d].obs) < MaxBatch
    <3>1. Len(<<>>) = 0 /\ 0 < MaxBatch
      BY Sizes
    <3> QED
      BY <3>1 DEF NothingPending
  <2> QED
    BY <1>1, <2>1, <2>2, <2>3 DEF TypeOK, SlotInv
<1> QED
  BY <1>2, <1>3, <1>4, <1>5 DEF Signal

(* A send moves the head of the outbox to the output. *)
LEMMA SendFacts ==
  ASSUME TypeOK, Send
  PROVE  /\ outbox \in Seq(Batch) /\ outbox # <<>> /\ Head(outbox) \in Batch
         /\ Len(Head(outbox).obs) \in 1 .. MaxBatch
         /\ outbox' = Tail(outbox) /\ outbox' \in Seq(Batch)
         /\ \A i \in DOMAIN outbox' : BatchLen(outbox'[i]) \in 1 .. MaxBatch
         /\ emitted' = Append(emitted, Head(outbox)) /\ emitted' \in Seq(Batch)
         /\ stats' \in [emitted : Nat, dropped : Nat] /\ stats'.dropped = stats.dropped
         /\ stats'.emitted = stats.emitted + Len(Head(outbox).obs)
         /\ output' \in Seq(Batch) /\ Len(output') <= OutCap
<1>1. /\ outbox \in Seq(Batch) /\ outbox # <<>> /\ emitted \in Seq(Batch) /\ output \in Seq(Batch)
      /\ Len(output) < OutCap /\ outbox' = Tail(outbox)
      /\ emitted' = Append(emitted, Head(outbox)) /\ output' = Append(output, Head(outbox))
      /\ \A i \in DOMAIN outbox : Len(outbox[i].obs) \in 1 .. MaxBatch
  BY DEF TypeOK, Send, BatchLen
<1>2. /\ Head(outbox) \in Batch /\ Head(outbox) = outbox[1] /\ Tail(outbox) \in Seq(Batch)
      /\ Len(outbox) \in Nat \ {0} /\ DOMAIN outbox = 1 .. Len(outbox)
      /\ DOMAIN Tail(outbox) = 1 .. Len(outbox) - 1
      /\ \A i \in 1 .. Len(outbox) - 1 : Tail(outbox)[i] = outbox[i + 1]
  BY <1>1, HeadTailProperties, LenProperties, EmptySeq
<1>3. Len(Head(outbox).obs) \in 1 .. MaxBatch
  <2>1. 1 \in DOMAIN outbox
    BY <1>2
  <2> QED
    BY <1>1, <1>2, <2>1
<1>4. \A i \in DOMAIN outbox' : BatchLen(outbox'[i]) \in 1 .. MaxBatch
  BY <1>1, <1>2 DEF BatchLen
<1>5. /\ emitted' \in Seq(Batch) /\ output' \in Seq(Batch) /\ Len(output') = Len(output) + 1
      /\ Len(output) \in Nat
  BY <1>1, <1>2, AppendProperties, LenProperties
<1>6. /\ stats \in [emitted : Nat, dropped : Nat]
      /\ stats' = [stats EXCEPT !.emitted = @ + Len(Head(outbox).obs)]
  BY DEF TypeOK, Send, BatchLen
<1>7. /\ stats' \in [emitted : Nat, dropped : Nat] /\ stats'.dropped = stats.dropped
      /\ stats'.emitted = stats.emitted + Len(Head(outbox).obs)
  BY <1>3, <1>6, Sizes
<1>8. Len(output') <= OutCap
  BY <1>1, <1>5, Sizes
<1> QED
  BY <1>1, <1>2, <1>3, <1>4, <1>5, <1>7, <1>8

(* The batches that wait are given up and counted. *)
LEMMA DropFacts ==
  ASSUME TypeOK, stats' = [stats EXCEPT !.dropped = @ + ObsCount(outbox)]
  PROVE  /\ stats' \in [emitted : Nat, dropped : Nat] /\ stats'.emitted = stats.emitted
         /\ stats'.dropped = stats.dropped + ObsCount(outbox) /\ ObsCount(outbox) \in Nat
<1>1. ObsCount(outbox) \in Nat
  BY CountNat DEF TypeOK
<1>2. stats \in [emitted : Nat, dropped : Nat]
  BY DEF TypeOK
<1> QED
  BY <1>1, <1>2

(* The observation at the head of the input. *)
LEMMA InputFacts ==
  ASSUME TypeOK, input # <<>>
  PROVE  /\ Head(input) \in Observation /\ Head(input) = input[1] /\ Tail(input) \in Seq(Observation)
         /\ Len(input) \in Nat \ {0} /\ DOMAIN input = 1 .. Len(input)
         /\ Len(Tail(input)) = Len(input) - 1
         /\ DOMAIN Tail(input) = 1 .. Len(input) - 1
         /\ \A i \in 1 .. Len(input) - 1 : Tail(input)[i] = input[i + 1]
  BY HeadTailProperties, LenProperties, EmptySeq DEF TypeOK

(* The recv branch: the observation joins its device's batch, or completes *)
(* it and the batch leaves the partial batches for the outbox.              *)
Joined(o, r) ==
    /\ o = Head(input) /\ o.dev \in Devices
    /\ r.seq = NextNumber(pending, devseq, o.dev)
    /\ r.obs = Append(pending[o.dev].obs, o)
    /\ Len(r.obs) = Len(pending[o.dev].obs) + 1

StaysPartial(o, r) ==
    /\ Len(r.obs) < MaxBatch
    /\ pending' = [pending EXCEPT ![o.dev] = r]
    /\ outbox' = outbox /\ devseq' = devseq

Completes(o, r, b) ==
    /\ Len(r.obs) = MaxBatch
    /\ pending' = [pending EXCEPT ![o.dev] = Empty]
    /\ devseq' = [devseq EXCEPT ![o.dev] = @ + 1]
    /\ b.dev = o.dev /\ b.seq = r.seq /\ b.obs = r.obs
    /\ outbox' = Append(outbox, b)

(* An observation joins the partial batch of its device, which stays partial
   or is completed. *)
LEMMA RecvFacts ==
  ASSUME TypeInv, RecvObservation
  PROVE  \E o \in Observation, r \in Held :
            /\ Joined(o, r)
            /\ StaysPartial(o, r) \/ \E b \in Batch : Completes(o, r, b)
<1> USE DEF TypeInv
<1>1. PICK o \in Observation : o = Head(input)
  BY InputFacts DEF RecvObservation
<1>2. PICK d \in Devices : d = o.dev
  BY AggregateFacts
<1>3. PICK r \in Held : /\ r.seq = NextNumber(pending, devseq, d)
                        /\ r.obs = Append(pending[d].obs, o)
                        /\ Aggregate(pending, o) = [pending EXCEPT ![d] = r]
  BY <1>2, AggregateFacts
<1> DEFINE p == Aggregate(pending, o)
<1>4. pending \in [Devices -> Held] /\ pending[d].obs \in Seq(Observation)
      /\ Len(pending[d].obs) \in Nat
  BY PendingAt DEF TypeOK, Held
<1>5. p[d] = r
  BY <1>3, <1>4
<1>6. Len(r.obs) = Len(pending[d].obs) + 1
  BY <1>3, <1>4, AppendProperties
<1>7. Len(pending[d].obs) < MaxBatch /\ MaxBatch \in Nat
  BY Sizes DEF SlotInv, RecvObservation
<1>0. Joined(o, r)
  BY <1>1, <1>2, <1>3, <1>6 DEF Joined
<1>8. CASE Len(r.obs) >= MaxBatch
  <2> DEFINE b == [dev |-> d, seq |-> r.seq, obs |-> r.obs]
  <2>1. Len(r.obs) = MaxBatch
    BY <1>4, <1>6, <1>7, <1>8
  <2>2. /\ pending' = [p EXCEPT ![d] = Empty] /\ outbox' = Append(outbox, b)
        /\ devseq' = [devseq EXCEPT ![d] = @ + 1]
    BY <1>1, <1>2, <1>5, <1>8 DEF RecvObservation
  <2>3. pending' = [pending EXCEPT ![d] = Empty]
    BY <1>3, <1>4, <2>2
  <2>4. b \in Batch /\ b.dev = d /\ b.seq = r.seq /\ b.obs = r.obs
    BY DEF Batch, Held
  <2> HIDE DEF b
  <2>5. Completes(o, r, b)
    BY <1>2, <2>1, <2>2, <2>3, <2>4 DEF Completes
  <2> QED
    BY <1>0, <2>4, <2>5
<1>9. CASE ~(Len(r.obs) >= MaxBatch)
  <2>1. Len(r.obs) < MaxBatch
    BY <1>4, <1>6, <1>7, <1>9
  <2>2. pending' = p /\ outbox' = outbox /\ devseq' = devseq
    BY <1>1, <1>2, <1>5, <1>9 DEF RecvObservation
  <2>3. StaysPartial(o, r)
    BY <1>2, <1>3, <2>1, <2>2 DEF StaysPartial
  <2> QED
    BY <1>0, <2>3
<1> QED
  BY <1>8, <1>9

(* What a pump action and a task action leave alone. *)
LEMMA TypeFromPump ==
  ASSUME TypeInv, ControlInv, PumpRecv \/ Push \/ IngestDone \/ PumpTimedOut
  PROVE  TypeInv'
<1> USE DEF TypeInv
<1>1. CASE PumpRecv
  <2>1. PICK e \in Events : e = Head(events) /\ Tail(events) \in Seq(Events)
                            /\ Len(Tail(events)) = Len(events) - 1
    BY <1>1, HeadTailProperties DEF PumpRecv, TypeOK
  <2>2. MapResults(e, next[e.dev]) /\ Allocate(e)
    BY <1>1, <2>1 DEF PumpRecv
  <2>3. e.dev \in Devices /\ Len(e.items) \in Nat
    BY LenProperties, DPAssumption
  <2>4. next[e.dev] \in Nat
    BY <2>3 DEF TypeOK
  <2>5. hand' \in Seq(Observation)
    BY <2>2, <2>4, MapFacts
  <2>6. next' \in [Devices -> Nat]
    <3>1. PICK d \in Devices, n \in Nat : d = e.dev /\ n = next[d] + Len(e.items)
      BY <2>3, <2>4
    <3>2. next' = [next EXCEPT ![d] = n] /\ next \in [Devices -> Nat]
      BY <2>2, <3>1 DEF Allocate, TypeOK
    <3> QED
      BY <3>2
  <2>7. events' \in Seq(Events) /\ Len(events') <= EventCap
    BY <1>1, <2>1, LenProperties, Sizes DEF PumpRecv, TypeOK
  <2>8. ~permit
    BY <1>1 DEF PumpRecv, SlotInv
  <2>9. /\ pump' = "ingest"
        /\ UNCHANGED <<polling, posted, permit, accepted, taskVars, input, accepting, handle,
                       output, outOpen>>
    BY <1>1 DEF PumpRecv
  <2> QED
    BY <2>5, <2>6, <2>7, <2>8, <2>9 DEF TypeOK, SlotInv, taskVars
<1>2. CASE Push
  <2>1. hand # <<>> /\ Len(input) < InputCap /\ pump = "ingest"
    BY <1>2 DEF Push, SlotInv
  <2>2. Head(hand) \in Observation /\ Tail(hand) \in Seq(Observation)
    BY <2>1, HeadTailProperties DEF TypeOK
  <2>3. /\ Append(input, Head(hand)) \in Seq(Observation)
        /\ Len(Append(input, Head(hand))) = Len(input) + 1 /\ Len(input) \in Nat
    BY <2>2, AppendProperties, LenProperties DEF TypeOK
  <2>4. input' \in Seq(Observation) /\ Len(input') <= InputCap
    BY <1>2, <2>1, <2>3, Sizes DEF Push
  <2>5. accepted' \subseteq Observation /\ hand' \in Seq(Observation) /\ permit' = FALSE
    BY <1>2, <2>2 DEF Push, TypeOK
  <2>6. UNCHANGED <<srcVars, pump, next, taskVars, accepting, handle, output, outOpen>>
    BY <1>2 DEF Push
  <2> QED
    BY <2>4, <2>5, <2>6 DEF TypeOK, SlotInv, taskVars, srcVars
<1>3. CASE IngestDone
  <2>1. hand' \in Seq(Observation) /\ pump' = "recv" /\ ~permit /\ permit' = permit
    BY <1>3 DEF IngestDone
  <2>2. UNCHANGED <<srcVars, permit, next, accepted, taskVars, input, accepting, handle, output, outOpen>>
    BY <1>3 DEF IngestDone
  <2> QED
    BY <2>1, <2>2 DEF TypeOK, SlotInv, taskVars, srcVars
<1>4. CASE PumpTimedOut
  <2>1. /\ hand' \in Seq(Observation) /\ pump' = "done" /\ permit' = FALSE /\ handle' = "abandoned"
        /\ task' = "ended" /\ accepting' = FALSE
    BY <1>4 DEF PumpTimedOut
  <2>2. UNCHANGED <<srcVars, next, accepted, pending, splitting, devseq, outbox, buffered, stats,
                   emitted, input, output, outOpen>>
    BY <1>4 DEF PumpTimedOut
  <2> QED
    BY <2>1, <2>2 DEF TypeOK, SlotInv, srcVars
<1> QED
  BY <1>1, <1>2, <1>3, <1>4

(* The batches of the outbox, one more. *)
LEMMA OutboxGrows ==
  ASSUME TypeOK, NEW b \in Batch, Len(b.obs) \in 1 .. MaxBatch, outbox' = Append(outbox, b)
  PROVE  /\ outbox' \in Seq(Batch)
         /\ \A i \in DOMAIN outbox' : BatchLen(outbox'[i]) \in 1 .. MaxBatch
<1>1. /\ outbox \in Seq(Batch) /\ \A i \in DOMAIN outbox : BatchLen(outbox[i]) \in 1 .. MaxBatch
      /\ Len(outbox) \in Nat /\ DOMAIN outbox = 1 .. Len(outbox)
  BY LenProperties DEF TypeOK
<1>2. /\ outbox' \in Seq(Batch) /\ Len(outbox') = Len(outbox) + 1
      /\ DOMAIN outbox' = 1 .. Len(outbox) + 1
      /\ \A i \in 1 .. Len(outbox) : outbox'[i] = outbox[i]
      /\ outbox'[Len(outbox) + 1] = b
  BY <1>1, AppendProperties, LenProperties
<1>3. ASSUME NEW i \in DOMAIN outbox' PROVE BatchLen(outbox'[i]) \in 1 .. MaxBatch
  <2>1. i \in 1 .. Len(outbox) \/ i = Len(outbox) + 1
    BY <1>1, <1>2
  <2> QED
    BY <1>1, <1>2, <2>1 DEF BatchLen
<1> QED
  BY <1>2, <1>3

(* The steps of the pipeline's task keep the types. *)
LEMMA TypeFromTask ==
  ASSUME TypeInv, CountInv,
         \/ RecvObservation \/ (\E d \in Devices : FlushChunk(d)) \/ Emit \/ CollectRecv
         \/ DrainEmit \/ DrainDrop \/ TerminateRecv \/ TerminateEnd
  PROVE  TypeInv'
<1> USE DEF TypeInv
<1>1. CASE RecvObservation
  <2>1. PICK o \in Observation, r \in Held :
            Joined(o, r) /\ (StaysPartial(o, r) \/ \E b \in Batch : Completes(o, r, b))
    BY <1>1, RecvFacts
  <2>2. /\ input' \in Seq(Observation) /\ Len(input') <= InputCap /\ Len(input') <= Len(input)
        /\ buffered' \in Nat
    <3>1. input # <<>> /\ input' = Tail(input) /\ buffered' = buffered + 1 /\ buffered \in Nat
      BY <1>1 DEF RecvObservation, TypeOK
    <3>2. Tail(input) \in Seq(Observation) /\ Len(Tail(input)) = Len(input) - 1 /\ Len(input) \in Nat
      BY <3>1, InputFacts
    <3>3. Len(input) <= InputCap
      BY DEF TypeOK
    <3> QED
      BY <3>1, <3>2, <3>3, Sizes
  <2>3. /\ pending \in [Devices -> Held] /\ Empty \in Held /\ Len(Empty.obs) < MaxBatch
        /\ \A d \in Devices : Len(pending[d].obs) < MaxBatch
    BY <1>1, EmptyHeld, Sizes DEF TypeOK, Held, SlotInv, RecvObservation
  <2>4. /\ pending' \in [Devices -> Held] /\ \A d \in Devices : Len(pending'[d].obs) < MaxBatch
        /\ devseq' \in [Devices -> Nat]
    <3>0. PICK d \in Devices : d = o.dev
      BY <2>1 DEF Joined
    <3>1. CASE StaysPartial(o, r)
      <4>1. /\ pending' = [pending EXCEPT ![d] = r] /\ Len(r.obs) < MaxBatch
            /\ devseq' = devseq /\ devseq \in [Devices -> Nat]
        BY <3>0, <3>1 DEF StaysPartial, TypeOK
      <4> QED
        BY <2>3, <4>1
    <3>2. CASE \E b \in Batch : Completes(o, r, b)
      <4>1. /\ pending' = [pending EXCEPT ![d] = Empty]
            /\ devseq' = [devseq EXCEPT ![d] = @ + 1] /\ devseq \in [Devices -> Nat]
        BY <3>0, <3>2 DEF Completes, TypeOK
      <4>2. devseq' \in [Devices -> Nat]
        BY <4>1
      <4> QED
        BY <2>3, <4>1, <4>2
    <3> QED
      BY <2>1, <3>1, <3>2
  <2>5. outbox' \in Seq(Batch) /\ \A i \in DOMAIN outbox' : BatchLen(outbox'[i]) \in 1 .. MaxBatch
    <3>1. CASE outbox' = outbox
      BY <3>1 DEF TypeOK
    <3>2. ASSUME NEW b \in Batch, Completes(o, r, b)
          PROVE  /\ outbox' \in Seq(Batch)
                 /\ \A i \in DOMAIN outbox' : BatchLen(outbox'[i]) \in 1 .. MaxBatch
      BY <3>2, OutboxGrows, Sizes DEF Completes
    <3> QED
      BY <2>1, <3>1, <3>2 DEF StaysPartial
  <2>6. /\ UNCHANGED <<srcVars, pumpVars, task, splitting, stats, emitted, accepting, handle, output,
                       outOpen>>
    BY <1>1 DEF RecvObservation
  <2>7. permit => Len(input') < InputCap
    BY <1>1, <2>2, InputFacts, Sizes DEF SlotInv, RecvObservation, TypeOK
  <2> QED
    BY <2>2, <2>4, <2>5, <2>6, <2>7 DEF TypeOK, SlotInv, Held, srcVars, pumpVars
<1>2. CASE \E d \in Devices : FlushChunk(d)
  <2>1. PICK d \in Devices : FlushChunk(d)
    BY <1>2
  <2>2. PICK b \in Batch, r \in Held :
            /\ Len(b.obs) \in 1 .. MaxBatch /\ b.seq \in Nat
            /\ outbox' = Append(outbox, b) /\ pending' = [pending EXCEPT ![d] = r]
            /\ splitting' \subseteq Devices
            /\ devseq' = [devseq EXCEPT ![d] = b.seq + 1] \/ devseq' = devseq
    BY <2>1, ChunkFacts DEF Batch
  <2>3. outbox' \in Seq(Batch) /\ \A i \in DOMAIN outbox' : BatchLen(outbox'[i]) \in 1 .. MaxBatch
    BY <2>2, OutboxGrows
  <2>4. pending' \in [Devices -> Held] /\ devseq' \in [Devices -> Nat]
    <3>1. pending \in [Devices -> Held] /\ devseq \in [Devices -> Nat]
      BY DEF TypeOK, Held
    <3>2. PICK n \in Nat : n = b.seq + 1
      BY <2>2
    <3>3. devseq' = [devseq EXCEPT ![d] = n] \/ devseq' = devseq
      BY <2>2, <3>2
    <3> QED
      BY <2>2, <3>1, <3>3
  <2>5. /\ UNCHANGED <<srcVars, pumpVars, task, buffered, stats, emitted, input, accepting,
                       handle, output, outOpen>>
        /\ task # "run"
    BY <2>1 DEF FlushChunk, Flushing
  <2> QED
    BY <2>2, <2>3, <2>4, <2>5 DEF TypeOK, SlotInv, Held, srcVars, pumpVars
<1>3. CASE Emit \/ DrainEmit
  <2>1. Send /\ UNCHANGED <<srcVars, pumpVars, task, pending, splitting, devseq, input, accepting,
                            handle, outOpen>>
    BY <1>3 DEF Emit, DrainEmit
  <2>2. buffered' \in Nat
    <3>1. CASE Emit
      <4>1. PICK a \in Nat, m \in Nat, n \in Nat :
               buffered = a + (m + n) /\ m = Len(Head(outbox).obs)
        <5>1. buffered = ObsCount(pending) + ObsCount(outbox)
          BY <3>1 DEF Emit, CountInv, BufferedExact
        <5>2. /\ ObsCount(outbox) = Len(Head(outbox).obs) + ObsCount(Tail(outbox))
              /\ Len(Head(outbox).obs) \in Nat /\ ObsCount(Tail(outbox)) \in Nat
          BY <2>1, SendFacts, CountTail
        <5>3. ObsCount(pending) \in Nat
          BY PendingCountNat
        <5> QED
          BY <5>1, <5>2, <5>3
      <4>2. buffered' = a + (m + n) - m
        <5>1. buffered' = buffered - BatchLen(Head(outbox))
          BY <3>1 DEF Emit
        <5>2. BatchLen(Head(outbox)) = m
          BY <4>1 DEF BatchLen
        <5> QED
          BY <4>1, <5>1, <5>2
      <4> QED
        BY <4>2
    <3>2. CASE DrainEmit
      BY <3>2 DEF DrainEmit, TypeOK
    <3> QED
      BY <1>3, <3>1, <3>2
  <2>3. /\ outbox' \in Seq(Batch) /\ emitted' \in Seq(Batch)
        /\ \A i \in DOMAIN outbox' : BatchLen(outbox'[i]) \in 1 .. MaxBatch
        /\ stats' \in [emitted : Nat, dropped : Nat]
        /\ output' \in Seq(Batch) /\ Len(output') <= OutCap
    BY <2>1, SendFacts
  <2> QED
    BY <2>1, <2>2, <2>3 DEF TypeOK, SlotInv, Held, srcVars, pumpVars
<1>4. CASE CollectRecv \/ TerminateRecv
  <2>1. TakeInput /\ task # "run" /\ input # <<>>
    BY <1>4 DEF CollectRecv, TerminateRecv, TakeInput
  <2>2. /\ input' \in Seq(Observation) /\ Len(input') <= InputCap
        /\ permit => Len(input') < InputCap
    <3>1. input' = Tail(input) /\ (permit => Len(input) < InputCap) /\ Len(input) <= InputCap
      BY <2>1 DEF TakeInput, TypeOK, SlotInv
    <3>2. Tail(input) \in Seq(Observation) /\ Len(Tail(input)) = Len(input) - 1 /\ Len(input) \in Nat
      BY <2>1, InputFacts
    <3> QED
      BY <3>1, <3>2, Sizes
  <2>3. pending' \in [Devices -> Held]
    BY <2>1, InputFacts, AggregateFacts DEF TakeInput
  <2>4. UNCHANGED <<srcVars, pumpVars, task, splitting, devseq, outbox, buffered, stats, emitted,
                   accepting, handle, output, outOpen>>
    BY <2>1 DEF TakeInput
  <2> QED
    BY <2>1, <2>2, <2>3, <2>4 DEF TypeOK, SlotInv, Held, srcVars, pumpVars
<1>5. CASE DrainDrop \/ TerminateEnd
  <2>1. stats' \in [emitted : Nat, dropped : Nat]
    BY <1>5, DropFacts DEF DrainDrop, TerminateEnd
  <2>2. outbox' = <<>> /\ task' = "ended" /\ accepting' \in BOOLEAN
    BY <1>5 DEF DrainDrop, TerminateEnd, TypeOK
  <2>4. outbox' \in Seq(Batch) /\ DOMAIN outbox' = {}
    BY <2>2
  <2>3. UNCHANGED <<srcVars, pumpVars, pending, splitting, devseq, buffered, emitted, input, handle,
                   output, outOpen>>
    BY <1>5 DEF DrainDrop, TerminateEnd
  <2> QED
    BY <2>1, <2>2, <2>3, <2>4 DEF TypeOK, SlotInv, Held, srcVars, pumpVars
<1> QED
  BY <1>1, <1>2, <1>3, <1>4, <1>5

-----------------------------------------------------------------------------
(* Control *)

(* Where the tasks are at the start. *)
LEMMA InitControl == Init => ControlInv
  BY EmptyHeld DEF Init, ControlInv, NothingPending

(* Every step keeps what is said of the positions of the tasks. *)
LEMMA ControlStep ==
  ASSUME TypeInv, ControlInv, [Next]_vars
  PROVE  ControlInv'
<1> USE DEF TypeInv, ControlInv
<1>1. ASSUME NEW e \in Events, Post(e) PROVE ControlInv'
  <2>1. posted' # 0
    BY <1>1 DEF Post, TypeOK
  <2> QED
    BY <1>1, <2>1 DEF Post, NothingPending, pumpVars, taskVars
<1>2. CASE PollersGone \/ StopPipeline \/ StartFails
  BY <1>2 DEF PollersGone, StopPipeline, StartFails, NothingPending, srcVars, pumpVars, taskVars
<1>3. CASE PumpTimedOut
  BY <1>3 DEF PumpTimedOut, NothingPending, srcVars
<1>4. CASE PumpRecv \/ PumpDone
  BY <1>4 DEF PumpRecv, PumpDone, NothingPending, srcVars, pumpVars, taskVars
<1>5. CASE Reserve \/ IngestDone
  BY <1>5 DEF Reserve, IngestDone, NothingPending, srcVars, pumpVars, taskVars
<1>6. CASE Push
  <2>1. hand # <<>> /\ pump = "ingest"
    BY <1>6 DEF Push, SlotInv
  <2>2. posted # 0 /\ task \notin {"collect", "final", "drain", "settle"}
    BY <1>6, <2>1 DEF Push
  <2> QED
    BY <1>6, <2>1, <2>2 DEF Push, NothingPending, srcVars, taskVars
<1>7. CASE RecvObservation
  BY <1>7 DEF RecvObservation, NothingPending, srcVars, pumpVars
<1>8. CASE FlushTick \/ FlushOver \/ CancelSeen \/ StopSeen
  BY <1>8 DEF FlushTick, FlushOver, CancelSeen, StopSeen, NothingPending, srcVars, pumpVars,
     SlotInv, TypeOK, Flushing
<1>9. ASSUME NEW d \in Devices, FlushChunk(d) PROVE ControlInv'
  <2>1. ~NothingPending
    BY <1>9 DEF FlushChunk, NothingPending
  <2> QED
    BY <1>9, <2>1 DEF FlushChunk, Flushing, srcVars, pumpVars
<1>10. CASE Emit \/ DrainEmit
  BY <1>10 DEF Emit, DrainEmit, Send, NothingPending, srcVars, pumpVars
<1>11. CASE CollectRecv \/ TerminateRecv
  BY <1>11 DEF CollectRecv, TerminateRecv, TakeInput, NothingPending, srcVars, pumpVars
<1>12. CASE CollectOver \/ TerminateFlush
  BY <1>12 DEF CollectOver, TerminateFlush, InputExhausted, NothingPending, srcVars, pumpVars, SlotInv
<1>13. CASE DrainDrop \/ DrainEnd \/ TerminateEnd
  BY <1>13 DEF DrainDrop, DrainEnd, TerminateEnd, NothingPending, srcVars, pumpVars
<1>14. CASE OutputClosed \/ Consume \/ ConsumerGone
  BY <1>14 DEF OutputClosed, Consume, ConsumerGone, NothingPending, srcVars, pumpVars, taskVars
<1>15. CASE Finished \/ UNCHANGED vars
  BY <1>15 DEF Finished, NothingPending, vars, srcVars, pumpVars, taskVars
<1> QED
  BY <1>1, <1>2, <1>3, <1>4, <1>5, <1>6, <1>7, <1>8, <1>9, <1>10, <1>11, <1>12, <1>13, <1>14,
     <1>15 DEF Next

-----------------------------------------------------------------------------
(* The order of the observations *)

(* The elements of a list with one more. *)
LEMMA AppendAt ==
  ASSUME NEW S, NEW q \in Seq(S), NEW x \in S
  PROVE  /\ Append(q, x) \in Seq(S) /\ Len(q) \in Nat /\ Len(Append(q, x)) = Len(q) + 1
         /\ DOMAIN q = 1 .. Len(q) /\ DOMAIN Append(q, x) = 1 .. Len(q) + 1
         /\ \A i \in DOMAIN q : i \in DOMAIN Append(q, x) /\ Append(q, x)[i] = q[i]
         /\ Append(q, x)[Len(q) + 1] = x
         /\ \A i \in DOMAIN Append(q, x) : i \in DOMAIN q \/ i = Len(q) + 1
<1>1. /\ Append(q, x) \in Seq(S) /\ Len(q) \in Nat /\ Len(Append(q, x)) = Len(q) + 1
      /\ DOMAIN q = 1 .. Len(q)
      /\ \A i \in 1 .. Len(q) : Append(q, x)[i] = q[i]
      /\ Append(q, x)[Len(q) + 1] = x
  BY AppendProperties, LenProperties
<1>2. DOMAIN Append(q, x) = 1 .. Len(q) + 1
  BY <1>1, LenProperties
<1> QED
  BY <1>1, <1>2

(* A batch added to the outbox is added to the line. *)
LEMMA LineGrows ==
  ASSUME NEW S, NEW L \in Seq(S), NEW M \in Seq(S), NEW b \in S
  PROVE  L \o Append(M, b) = Append(L \o M, b) /\ L \o M \in Seq(S)
<1>1. /\ Append(M, b) = M \o <<b>> /\ L \o M \in Seq(S)
  BY AppendIsConcat, ConcatProperties
<1>2. Append(L \o M, b) = (L \o M) \o <<b>>
  BY <1>1, AppendIsConcat
<1>3. <<b>> \in Seq(S)
  OBVIOUS
<1> QED
  BY <1>1, <1>2, <1>3, ConcatAssociative

(* A batch that is sent stays where it is in the line. *)
LEMMA LineSent ==
  ASSUME NEW S, NEW L \in Seq(S), NEW M \in Seq(S), M # <<>>
  PROVE  Append(L, Head(M)) \o Tail(M) = L \o M
<1>1. Head(M) \in S /\ Tail(M) \in Seq(S) /\ <<Head(M)>> \in Seq(S)
  BY HeadTailProperties
<1>2. Append(L, Head(M)) = L \o <<Head(M)>>
  BY <1>1, AppendIsConcat
<1>3. (L \o <<Head(M)>>) \o Tail(M) = L \o (<<Head(M)>> \o Tail(M))
  BY <1>1, ConcatAssociative
<1>4. M = <<Head(M)>> \o Tail(M)
  <2>1. /\ Len(M) \in Nat \ {0} /\ Head(M) = M[1] /\ Len(Tail(M)) = Len(M) - 1
        /\ \A i \in 1 .. Len(Tail(M)) : Tail(M)[i] = M[i + 1]
    BY HeadTailProperties, EmptySeq
  <2>2. PICK a \in Seq(S) : a = <<Head(M)>> /\ Len(a) = 1 /\ a[1] = M[1]
    BY <1>1, <2>1
  <2>3. /\ a \o Tail(M) \in Seq(S) /\ Len(a \o Tail(M)) = Len(a) + Len(Tail(M))
        /\ \A i \in 1 .. Len(a) + Len(Tail(M)) :
               (a \o Tail(M))[i] = IF i <= Len(a) THEN a[i] ELSE Tail(M)[i - Len(a)]
    BY <1>1, ConcatProperties
  <2>4. Len(a \o Tail(M)) = Len(M)
    BY <2>1, <2>2, <2>3
  <2>5. ASSUME NEW i \in 1 .. Len(M) PROVE (a \o Tail(M))[i] = M[i]
    <3>1. CASE i = 1
      BY <2>1, <2>2, <2>3, <3>1
    <3>2. CASE i # 1
      <4>1. /\ i \in 1 .. Len(a) + Len(Tail(M)) /\ ~(i <= Len(a)) /\ i - 1 \in 1 .. Len(Tail(M))
            /\ (i - 1) + 1 = i
        BY <2>1, <2>2, <3>2
      <4>2. (a \o Tail(M))[i] = Tail(M)[i - 1]
        BY <2>2, <2>3, <4>1
      <4> QED
        BY <2>1, <4>1, <4>2
    <3> QED
      BY <3>1, <3>2
  <2> QED
    BY <2>2, <2>3, <2>4, <2>5, SeqEqual
<1> QED
  BY <1>2, <1>3, <1>4

(* The elements of the first of two lists. *)
LEMMA PrefixAt ==
  ASSUME NEW S, NEW L \in Seq(S), NEW M \in Seq(S)
  PROVE  /\ DOMAIN L = 1 .. Len(L) /\ Len(L) \in Nat
         /\ \A i \in DOMAIN L : i \in DOMAIN (L \o M) /\ (L \o M)[i] = L[i]
<1>1. /\ Len(L) \in Nat /\ Len(M) \in Nat /\ DOMAIN L = 1 .. Len(L)
      /\ L \o M \in Seq(S) /\ Len(L \o M) = Len(L) + Len(M)
      /\ \A i \in 1 .. Len(L) + Len(M) : (L \o M)[i] = IF i <= Len(L) THEN L[i] ELSE M[i - Len(L)]
  BY LenProperties, ConcatProperties
<1>2. DOMAIN (L \o M) = 1 .. Len(L) + Len(M)
  BY <1>1, LenProperties
<1> QED
  BY <1>1, <1>2

(* A batch with lower numbers keeps the line under a number. *)
LEMMA UnderAppend ==
  ASSUME NEW L \in Seq(Batch), NEW b \in Batch, NEW d, NEW n, Under(L, d, n),
         b.dev = d => \A k \in DOMAIN b.obs : b.obs[k].seq < n
  PROVE  Under(Append(L, b), d, n)
<1>1. /\ Append(L, b)[Len(L) + 1] = b
      /\ \A i \in DOMAIN Append(L, b) : i \in DOMAIN L \/ i = Len(L) + 1
      /\ \A i \in DOMAIN L : Append(L, b)[i] = L[i]
  BY AppendAt
<1> QED
  BY <1>1 DEF Under

(* A batch with higher numbers keeps the line in order. *)
LEMMA LineAppend ==
  ASSUME NEW L \in Seq(Batch), NEW b \in Batch, NEW acc, LineOrder(L, acc),
         Own(b.dev, b.obs, acc), \A k \in DOMAIN b.obs : Under(L, b.dev, b.obs[k].seq)
  PROVE  LineOrder(Append(L, b), acc)
<1>1. /\ Append(L, b)[Len(L) + 1] = b /\ Len(L) \in Nat /\ DOMAIN L = 1 .. Len(L)
      /\ \A i \in DOMAIN Append(L, b) : i \in DOMAIN L \/ i = Len(L) + 1
      /\ \A i \in DOMAIN L : Append(L, b)[i] = L[i]
  BY AppendAt
<1> DEFINE A == Append(L, b)
<1> HIDE DEF A
<1>2. ASSUME NEW i \in DOMAIN A PROVE Own(A[i].dev, A[i].obs, acc)
  BY <1>1 DEF LineOrder, A
<1>3. ASSUME NEW i \in DOMAIN A, NEW j \in DOMAIN A, NEW k \in DOMAIN A[j].obs, i < j,
             A[i].dev = A[j].dev, NEW l \in DOMAIN A[i].obs
      PROVE  A[i].obs[l].seq < A[j].obs[k].seq
  <2>1. i \in DOMAIN L
    BY <1>1, <1>3 DEF A
  <2>2. CASE j \in DOMAIN L
    BY <1>1, <1>3, <2>1, <2>2 DEF LineOrder, A
  <2>3. CASE j = Len(L) + 1
    BY <1>1, <1>3, <2>1, <2>3 DEF Under, A
  <2> QED
    BY <1>1, <2>2, <2>3 DEF A
<1> QED
  BY <1>2, <1>3 DEF LineOrder, A

(* A part of the line is in order. *)
LEMMA LinePrefix ==
  ASSUME NEW L \in Seq(Batch), NEW M \in Seq(Batch), NEW acc
  PROVE  /\ LineOrder(L \o M, acc) => LineOrder(L, acc)
         /\ \A d, n : Under(L \o M, d, n) => Under(L, d, n)
<1>1. \A i \in DOMAIN L : i \in DOMAIN (L \o M) /\ (L \o M)[i] = L[i]
  BY PrefixAt
<1>2. LineOrder(L \o M, acc) => LineOrder(L, acc)
  BY <1>1 DEF LineOrder
<1>3. ASSUME NEW d, NEW n, Under(L \o M, d, n) PROVE Under(L, d, n)
  BY <1>1, <1>3 DEF Under
<1> QED
  BY <1>2, <1>3

(* Of the partial batch x, the first t observations move to b and r is left. *)
Cut(x, t, b, r) ==
    /\ t \in 1 .. Len(x)
    /\ Len(b) = t /\ \A k \in 1 .. t : b[k] = x[k]
    /\ Len(r) = Len(x) - t /\ \A k \in 1 .. Len(r) : r[k] = x[t + k]

(* A cut keeps the observations in order, the part that is cut off before
   the rest. *)
LEMMA CutOrder ==
  ASSUME NEW S, NEW x \in Seq(S), NEW b \in Seq(S), NEW r \in Seq(S), NEW t, Cut(x, t, b, r),
         NEW d, NEW acc, Own(d, x, acc)
  PROVE  /\ Own(d, b, acc) /\ Own(d, r, acc)
         /\ \A k \in DOMAIN b : k \in DOMAIN x /\ b[k] = x[k]
         /\ \A k \in DOMAIN r : \E l \in DOMAIN x : r[k] = x[l]
         /\ \A k \in DOMAIN b, l \in DOMAIN r : b[k].seq < r[l].seq
<1>1. /\ DOMAIN x = 1 .. Len(x) /\ Len(x) \in Nat /\ DOMAIN b = 1 .. t /\ DOMAIN r = 1 .. Len(r)
      /\ t \in Nat /\ Len(r) \in Nat
  BY LenProperties DEF Cut
<1>2. ASSUME NEW k \in DOMAIN b PROVE k \in DOMAIN x /\ b[k] = x[k] /\ k \in Nat /\ k <= t
  BY <1>1 DEF Cut
<1>3. ASSUME NEW k \in DOMAIN r PROVE t + k \in DOMAIN x /\ r[k] = x[t + k] /\ k \in Nat /\ k > 0
  BY <1>1 DEF Cut
<1>4. /\ \A k \in DOMAIN x : x[k].dev = d /\ x[k] \in acc
      /\ \A k, l \in DOMAIN x : k < l => x[k].seq < x[l].seq
  BY DEF Own, InOrder
<1>5. Own(d, b, acc)
  BY <1>2, <1>4 DEF Own, InOrder
<1>6. Own(d, r, acc)
  <2>1. ASSUME NEW k \in DOMAIN r, NEW l \in DOMAIN r, k < l PROVE r[k].seq < r[l].seq
    <3>1. t + k < t + l
      BY <1>1, <1>3, <2>1
    <3> QED
      BY <1>3, <1>4, <3>1
  <2> QED
    BY <1>3, <1>4, <2>1 DEF Own, InOrder
<1>7. ASSUME NEW k \in DOMAIN b, NEW l \in DOMAIN r PROVE b[k].seq < r[l].seq
  <2>1. k < t + l
    BY <1>1, <1>2, <1>3
  <2> QED
    BY <1>2, <1>3, <1>4, <2>1
<1> QED
  BY <1>2, <1>3, <1>5, <1>6, <1>7

(* The first observations of a partial batch become the last batch of the line. *)
LEMMA MoveOrder ==
  ASSUME NEW L \in Seq(Batch), NEW p \in [Devices -> Held], NEW q \in Seq(Observation), NEW acc,
         LineOrder(L, acc), PendingOrder(L, p, acc), InputOrder(L, p, q, acc),
         NEW d \in Devices, NEW b \in Batch, b.dev = d, NEW r \in Held,
         NEW t, Cut(p[d].obs, t, b.obs, r.obs)
  PROVE  /\ LineOrder(Append(L, b), acc)
         /\ PendingOrder(Append(L, b), [p EXCEPT ![d] = r], acc)
         /\ InputOrder(Append(L, b), [p EXCEPT ![d] = r], q, acc)
<1> DEFINE x == p[d].obs
<1>1. x \in Seq(Observation) /\ b.obs \in Seq(Observation) /\ r.obs \in Seq(Observation)
  BY DEF Held, Batch
<1>2. Own(d, x, acc) /\ \A k \in DOMAIN x : Under(L, d, x[k].seq)
  BY DEF PendingOrder
<1>3. /\ Own(d, b.obs, acc) /\ Own(d, r.obs, acc)
      /\ \A k \in DOMAIN b.obs : k \in DOMAIN x /\ b.obs[k] = x[k]
      /\ \A k \in DOMAIN r.obs : \E l \in DOMAIN x : r.obs[k] = x[l]
      /\ \A k \in DOMAIN b.obs, l \in DOMAIN r.obs : b.obs[k].seq < r.obs[l].seq
  BY <1>1, <1>2, CutOrder
<1>4. LineOrder(Append(L, b), acc)
  <2>1. \A k \in DOMAIN b.obs : Under(L, b.dev, b.obs[k].seq)
    BY <1>2, <1>3
  <2> QED
    BY <1>3, <2>1, LineAppend
<1> DEFINE pp == [p EXCEPT ![d] = r]
<1>5. pp[d] = r /\ \A c \in Devices : c # d => pp[c] = p[c]
  OBVIOUS
<1> HIDE DEF pp
<1>6. PendingOrder(Append(L, b), pp, acc)
  <2>1. ASSUME NEW c \in Devices
        PROVE  Own(c, pp[c].obs, acc) /\ \A k \in DOMAIN pp[c].obs : Under(Append(L, b), c, pp[c].obs[k].seq)
    <3>1. CASE c = d
      <4>1. ASSUME NEW k \in DOMAIN r.obs PROVE Under(Append(L, b), d, r.obs[k].seq)
        <5>1. Under(L, d, r.obs[k].seq)
          BY <1>2, <1>3
        <5> QED
          BY <1>3, <5>1, UnderAppend
      <4> QED
        BY <1>3, <1>5, <3>1, <4>1
    <3>2. CASE c # d
      <4>1. Own(c, p[c].obs, acc) /\ \A k \in DOMAIN p[c].obs : Under(L, c, p[c].obs[k].seq)
        BY DEF PendingOrder
      <4>2. ASSUME NEW k \in DOMAIN p[c].obs PROVE Under(Append(L, b), c, p[c].obs[k].seq)
        BY <3>2, <4>1, UnderAppend
      <4> QED
        BY <1>5, <3>2, <4>1, <4>2
    <3> QED
      BY <3>1, <3>2
  <2> QED
    BY <2>1 DEF PendingOrder
<1>7. InputOrder(Append(L, b), pp, q, acc)
  <2>1. ASSUME NEW m \in DOMAIN q
        PROVE  /\ q[m] \in acc
               /\ Under(Append(L, b), q[m].dev, q[m].seq)
               /\ \A k \in DOMAIN pp[q[m].dev].obs : pp[q[m].dev].obs[k].seq < q[m].seq
    <3>1. PICK c \in Devices, n \in Nat : c = q[m].dev /\ n = q[m].seq
      <4>1. q[m] \in Observation
        OBVIOUS
      <4> QED
        BY <4>1 DEF Observation
    <3>2. q[m] \in acc /\ Under(L, c, n) /\ \A k \in DOMAIN p[c].obs : p[c].obs[k].seq < n
      BY <3>1 DEF InputOrder
    <3>3. CASE c = d
      <4>1. \A k \in DOMAIN b.obs : b.obs[k].seq < n
        BY <1>3, <3>2, <3>3
      <4>2. Under(Append(L, b), c, n)
        BY <3>2, <4>1, UnderAppend
      <4>3. \A k \in DOMAIN r.obs : r.obs[k].seq < n
        BY <1>3, <3>2, <3>3
      <4> QED
        BY <1>5, <3>1, <3>2, <3>3, <4>2, <4>3
    <3>4. CASE c # d
      <4>1. Under(Append(L, b), c, n)
        BY <3>2, <3>4, UnderAppend
      <4> QED
        BY <1>5, <3>1, <3>2, <3>4, <4>1
    <3> QED
      BY <3>3, <3>4
  <2> QED
    BY <2>1 DEF InputOrder
<1> QED
  BY <1>4, <1>6, <1>7 DEF pp

(* The head of the input joins the partial batch of its device. *)
LEMMA JoinOrder ==
  ASSUME NEW L \in Seq(Batch), NEW p \in [Devices -> Held], NEW q \in Seq(Observation), NEW acc,
         PendingOrder(L, p, acc), InputOrder(L, p, q, acc), q # <<>>,
         NEW r \in Held, r.obs = Append(p[Head(q).dev].obs, Head(q))
  PROVE  /\ PendingOrder(L, [p EXCEPT ![Head(q).dev] = r], acc)
         /\ InputOrder(L, [p EXCEPT ![Head(q).dev] = r], Tail(q), acc)
<1>1. /\ Head(q) \in Observation /\ Head(q) = q[1] /\ Tail(q) \in Seq(Observation)
      /\ Len(q) \in Nat \ {0} /\ DOMAIN q = 1 .. Len(q)
      /\ DOMAIN Tail(q) = 1 .. Len(q) - 1
      /\ \A i \in 1 .. Len(q) - 1 : Tail(q)[i] = q[i + 1]
  BY HeadTailProperties, LenProperties, EmptySeq
<1>2. PICK o \in Observation, d \in Devices : o = Head(q) /\ d = o.dev /\ o = q[1]
  BY <1>1 DEF Observation
<1>3. 1 \in DOMAIN q
  BY <1>1
<1>4. /\ o \in acc /\ Under(L, d, o.seq) /\ \A k \in DOMAIN p[d].obs : p[d].obs[k].seq < o.seq
  BY <1>2, <1>3 DEF InputOrder
<1> DEFINE x == p[d].obs
<1>5. x \in Seq(Observation) /\ r.obs = Append(x, o)
  <2>1. p[d] \in Held
    OBVIOUS
  <2>2. x \in Seq(Observation)
    BY <2>1 DEF Held
  <2> QED
    BY <1>2, <2>2
<1> HIDE DEF x
<1>6. /\ r.obs[Len(x) + 1] = o /\ Len(x) \in Nat /\ DOMAIN x = 1 .. Len(x)
      /\ \A k \in DOMAIN r.obs : k \in DOMAIN x \/ k = Len(x) + 1
      /\ \A k \in DOMAIN x : r.obs[k] = x[k]
  <2>1. /\ Append(x, o)[Len(x) + 1] = o /\ Len(x) \in Nat /\ DOMAIN x = 1 .. Len(x)
        /\ \A k \in DOMAIN Append(x, o) : k \in DOMAIN x \/ k = Len(x) + 1
        /\ \A k \in DOMAIN x : Append(x, o)[k] = x[k]
    BY <1>5, AppendAt
  <2> QED
    BY <1>5, <2>1
<1>7. Own(d, x, acc) /\ \A k \in DOMAIN x : Under(L, d, x[k].seq)
  BY DEF PendingOrder, x
<1>8. \A k \in DOMAIN x : x[k].seq < o.seq
  BY <1>4 DEF x
<1>9. Own(d, r.obs, acc)
  <2>1. \A k \in DOMAIN r.obs : r.obs[k].dev = d /\ r.obs[k] \in acc
    BY <1>2, <1>4, <1>6, <1>7 DEF Own
  <2>2. ASSUME NEW k \in DOMAIN r.obs, NEW l \in DOMAIN r.obs, k < l PROVE r.obs[k].seq < r.obs[l].seq
    <3>1. k \in DOMAIN x
      BY <1>6, <2>2
    <3>2. CASE l \in DOMAIN x
      BY <1>6, <1>7, <2>2, <3>1, <3>2 DEF Own, InOrder
    <3>3. CASE l = Len(x) + 1
      BY <1>6, <1>8, <3>1, <3>3
    <3> QED
      BY <1>6, <3>2, <3>3
  <2> QED
    BY <2>1, <2>2 DEF Own, InOrder
<1>10. \A k \in DOMAIN r.obs : Under(L, d, r.obs[k].seq)
  BY <1>4, <1>6, <1>7
<1> DEFINE pp == [p EXCEPT ![d] = r]
<1>11. pp[d] = r /\ \A c \in Devices : c # d => pp[c] = p[c]
  OBVIOUS
<1> HIDE DEF pp
<1>12. PendingOrder(L, pp, acc)
  BY <1>9, <1>10, <1>11 DEF PendingOrder
<1>13. InputOrder(L, pp, Tail(q), acc)
  <2>1. ASSUME NEW m \in DOMAIN Tail(q)
        PROVE  m + 1 \in DOMAIN q /\ Tail(q)[m] = q[m + 1] /\ 1 < m + 1 /\ m \in Int
    BY <1>1
  <2>2. InOrder(Tail(q))
    <3>1. ASSUME NEW k \in DOMAIN Tail(q), NEW l \in DOMAIN Tail(q), k < l,
                 Tail(q)[k].dev = Tail(q)[l].dev
          PROVE  Tail(q)[k].seq < Tail(q)[l].seq
      <4>1. k + 1 < l + 1
        BY <2>1, <3>1
      <4> QED
        BY <2>1, <3>1, <4>1 DEF InputOrder, InOrder
    <3> QED
      BY <3>1 DEF InOrder
  <2>3. ASSUME NEW m \in DOMAIN Tail(q), NEW y, y = Tail(q)[m]
        PROVE  /\ y \in acc /\ Under(L, y.dev, y.seq)
               /\ \A k \in DOMAIN pp[y.dev].obs : pp[y.dev].obs[k].seq < y.seq
    <3>1. y = q[m + 1] /\ m + 1 \in DOMAIN q /\ y \in Observation
      BY <1>1, <2>1, <2>3
    <3>2. /\ y \in acc /\ Under(L, y.dev, y.seq) /\ y.dev \in Devices
          /\ \A k \in DOMAIN p[y.dev].obs : p[y.dev].obs[k].seq < y.seq
      BY <3>1 DEF InputOrder, Observation
    <3>3. CASE y.dev = d
      <4>1. o.seq < y.seq
        BY <1>2, <1>3, <2>1, <3>1, <3>3 DEF InputOrder, InOrder
      <4> QED
        BY <1>6, <1>11, <3>2, <3>3, <4>1 DEF x
    <3>4. CASE y.dev # d
      BY <1>11, <3>2, <3>4
    <3> QED
      BY <3>2, <3>3, <3>4
  <2> QED
    BY <2>2, <2>3 DEF InputOrder
<1> QED
  BY <1>2, <1>12, <1>13 DEF pp

(* At the start nothing is out of order. *)
LEMMA InitOrder == Init => OrderInv
<1> SUFFICES ASSUME Init PROVE OrderInv
  OBVIOUS
<1>1. emitted = <<>> /\ outbox = <<>> /\ hand = <<>> /\ input = <<>> /\ accepted = {}
  BY DEF Init
<1>2. Line = <<>>
  BY <1>1 DEF Line
<1>3. DOMAIN <<>> = {}
  OBVIOUS
<1>4. \A d \in Devices : pending[d].obs = <<>>
  BY EmptyHeld DEF Init
<1>5. LineOrder(Line, accepted)
  BY <1>2, <1>3 DEF LineOrder
<1>6. PendingOrder(Line, pending, accepted)
  BY <1>3, <1>4 DEF PendingOrder, Own, InOrder
<1>7. InputOrder(Line, pending, input, accepted) /\ HandOrder
  BY <1>1, <1>3 DEF InputOrder, HandOrder, InOrder
<1> QED
  BY <1>5, <1>6, <1>7 DEF OrderInv

(* The line is a list of batches. *)
LEMMA LineType ==
  ASSUME TypeOK
  PROVE  Line \in Seq(Batch) /\ emitted \in Seq(Batch) /\ outbox \in Seq(Batch)
  BY ConcatProperties DEF TypeOK, Line

(* Steps that move no observation keep the order. *)
LEMMA OrderKept ==
  ASSUME OrderInv, Line' = Line, UNCHANGED <<hand, next, accepted, input, pending>>
  PROVE  OrderInv'
<1>1. /\ LineOrder(Line', accepted') /\ PendingOrder(Line', pending', accepted')
      /\ InputOrder(Line', pending', input', accepted')
  BY DEF OrderInv
<1>2. HandOrder'
  BY DEF OrderInv, HandOrder
<1> QED
  BY <1>1, <1>2 DEF OrderInv

(* Steps that leave the pump alone keep the order in its hand. *)
LEMMA HandKept ==
  ASSUME HandOrder, UNCHANGED <<hand, next, accepted>>
  PROVE  HandOrder'
  BY DEF HandOrder

(* An event is mapped: its observations are numbered above all earlier ones. *)
LEMMA PumpOrder ==
  ASSUME TypeInv, OrderInv, PumpRecv
  PROVE  OrderInv'
<1> USE DEF TypeInv
<1>1. PICK e \in Events : e = Head(events)
  BY HeadTailProperties DEF PumpRecv, TypeOK
<1>2. MapResults(e, next[e.dev]) /\ Allocate(e)
  BY <1>1 DEF PumpRecv
<1>3. PICK d \in Devices, n \in Nat : d = e.dev /\ n = Len(e.items)
  BY LenProperties, DPAssumption
<1>4. PICK start \in Nat : start = next[d]
  BY DEF TypeOK
<1>5. /\ hand' \in Seq(Observation)
      /\ \A m \in DOMAIN hand' :
             hand'[m].dev = d /\ start <= hand'[m].seq /\ hand'[m].seq < start + n
      /\ \A m, k \in DOMAIN hand' : m < k => hand'[m].seq < hand'[k].seq
  BY <1>2, <1>3, <1>4, MapFacts
<1>6. next' = [next EXCEPT ![d] = start + n] /\ next \in [Devices -> Nat]
  BY <1>2, <1>3, <1>4 DEF Allocate, TypeOK
<1>7. /\ next'[d] = start + n
      /\ \A c \in Devices : next[c] \in Nat /\ next'[c] \in Nat /\ next[c] <= next'[c]
  BY <1>4, <1>6
<1>8. accepted' = accepted /\ input' = input /\ pending' = pending /\ Line' = Line
  BY DEF PumpRecv, taskVars, Line
<1>9. \A o \in accepted : o.dev \in Devices /\ o.seq \in Nat
  BY DEF TypeOK, Observation
<1>10. \A o \in accepted : o.seq < next[o.dev]
  BY DEF OrderInv, HandOrder
<1>11. \A m \in DOMAIN hand' : hand'[m].seq \in Nat
  <2>1. \A m \in DOMAIN hand' : hand'[m] \in Observation
    BY <1>5
  <2> QED
    BY <2>1 DEF Observation
<1>12. HandOrder'
  <2>1. InOrder(hand')
    BY <1>5 DEF InOrder
  <2>2. \A m \in DOMAIN hand' : hand'[m].seq < next'[hand'[m].dev]
    BY <1>5, <1>7
  <2>3. ASSUME NEW o \in accepted PROVE o.seq < next'[o.dev]
    BY <1>7, <1>9, <1>10
  <2>4. ASSUME NEW m \in DOMAIN hand', NEW o \in accepted, o.dev = hand'[m].dev
        PROVE  o.seq < hand'[m].seq
    <3>1. o.seq < start /\ start <= hand'[m].seq
      BY <1>4, <1>5, <1>10, <2>4
    <3> QED
      BY <1>9, <1>11, <3>1
  <2> QED
    BY <1>8, <2>1, <2>2, <2>3, <2>4 DEF HandOrder
<1> QED
  BY <1>8, <1>12 DEF OrderInv

(* An observation is accepted into the input channel. *)
LEMMA PushOrder ==
  ASSUME TypeInv, OrderInv, Push
  PROVE  OrderInv' /\ Head(hand) \notin accepted
<1> USE DEF TypeInv
<1>1. hand # <<>> /\ hand \in Seq(Observation) /\ input \in Seq(Observation)
  BY DEF Push, SlotInv, TypeOK
<1>2. /\ Head(hand) \in Observation /\ Head(hand) = hand[1] /\ Tail(hand) \in Seq(Observation)
      /\ Len(hand) \in Nat \ {0} /\ DOMAIN hand = 1 .. Len(hand)
      /\ DOMAIN Tail(hand) = 1 .. Len(hand) - 1
      /\ \A i \in 1 .. Len(hand) - 1 : Tail(hand)[i] = hand[i + 1]
  BY <1>1, HeadTailProperties, LenProperties, EmptySeq
<1>3. PICK o \in Observation : o = Head(hand) /\ o = hand[1] /\ 1 \in DOMAIN hand
  BY <1>2
<1>4. /\ input' = Append(input, o) /\ accepted' = accepted \cup {o} /\ hand' = Tail(hand)
      /\ next' = next /\ pending' = pending /\ Line' = Line
  BY <1>3 DEF Push, taskVars, Line
<1>5. o.dev \in Devices /\ o.seq \in Nat
  BY DEF Observation
<1>6. /\ o.seq < next[o.dev]
      /\ \A a \in accepted : a.dev = o.dev => a.seq < o.seq
  BY <1>3 DEF OrderInv, HandOrder
<1>7. o \notin accepted
  BY <1>5, <1>6
<1>8. LineOrder(Line', accepted')
  BY <1>4 DEF OrderInv, LineOrder, Own
<1>9. PendingOrder(Line', pending', accepted')
  BY <1>4 DEF OrderInv, PendingOrder, Own
<1>10. /\ input'[Len(input) + 1] = o /\ Len(input) \in Nat /\ DOMAIN input = 1 .. Len(input)
       /\ \A i \in DOMAIN input' : i \in DOMAIN input \/ i = Len(input) + 1
       /\ \A i \in DOMAIN input : input'[i] = input[i]
  BY <1>1, <1>4, AppendAt
<1>11. InputOrder(Line', pending', input', accepted')
  <2>1. \A i \in DOMAIN input : input[i] \in accepted
    BY DEF OrderInv, InputOrder
  <2>2. InOrder(input')
    <3>1. ASSUME NEW k \in DOMAIN input', NEW l \in DOMAIN input', k < l,
                 input'[k].dev = input'[l].dev
          PROVE  input'[k].seq < input'[l].seq
      <4>1. k \in DOMAIN input
        BY <1>10, <3>1
      <4>2. CASE l \in DOMAIN input
        BY <1>10, <3>1, <4>1, <4>2 DEF OrderInv, InputOrder, InOrder
      <4>3. CASE l = Len(input) + 1
        BY <1>6, <1>10, <2>1, <3>1, <4>1, <4>3
      <4> QED
        BY <1>10, <4>2, <4>3
    <3> QED
      BY <3>1 DEF InOrder
  <2>3. ASSUME NEW m \in DOMAIN input, NEW y, y = input[m]
        PROVE  /\ y \in accepted' /\ Under(Line', y.dev, y.seq)
               /\ \A k \in DOMAIN pending'[y.dev].obs : pending'[y.dev].obs[k].seq < y.seq
    BY <1>4, <2>3 DEF OrderInv, InputOrder
  <2>4. Under(Line, o.dev, o.seq)
    <3>1. ASSUME NEW i \in DOMAIN Line, Line[i].dev = o.dev, NEW k \in DOMAIN Line[i].obs
          PROVE  Line[i].obs[k].seq < o.seq
      <4>1. Line[i].obs[k].dev = o.dev /\ Line[i].obs[k] \in accepted
        BY <3>1 DEF OrderInv, LineOrder, Own
      <4> QED
        BY <1>6, <4>1
    <3> QED
      BY <3>1 DEF Under
  <2>5. \A k \in DOMAIN pending[o.dev].obs : pending[o.dev].obs[k].seq < o.seq
    BY <1>5, <1>6 DEF OrderInv, PendingOrder, Own
  <2>6. ASSUME NEW m \in DOMAIN input'
        PROVE  /\ input'[m] \in accepted' /\ Under(Line', input'[m].dev, input'[m].seq)
               /\ \A k \in DOMAIN pending'[input'[m].dev].obs :
                      pending'[input'[m].dev].obs[k].seq < input'[m].seq
    <3>1. CASE m \in DOMAIN input
      BY <1>10, <2>3, <3>1
    <3>2. CASE m = Len(input) + 1
      BY <1>4, <1>10, <2>4, <2>5, <3>2
    <3> QED
      BY <1>10, <3>1, <3>2
  <2> QED
    BY <2>2, <2>6 DEF InputOrder
<1>12. HandOrder'
  <2>1. ASSUME NEW m \in DOMAIN hand'
        PROVE  m + 1 \in DOMAIN hand /\ hand'[m] = hand[m + 1] /\ 1 < m + 1 /\ m \in Int
    BY <1>2, <1>4
  <2>2. InOrder(hand')
    <3>1. ASSUME NEW k \in DOMAIN hand', NEW l \in DOMAIN hand', k < l, hand'[k].dev = hand'[l].dev
          PROVE  hand'[k].seq < hand'[l].seq
      <4>1. k + 1 < l + 1
        BY <2>1, <3>1
      <4> QED
        BY <2>1, <3>1, <4>1 DEF OrderInv, HandOrder, InOrder
    <3> QED
      BY <3>1 DEF InOrder
  <2>3. ASSUME NEW m \in DOMAIN hand'
        PROVE  /\ hand'[m].seq < next[hand'[m].dev]
               /\ \A a \in accepted' : a.dev = hand'[m].dev => a.seq < hand'[m].seq
    <3>1. /\ hand[m + 1].seq < next[hand[m + 1].dev]
          /\ \A a \in accepted : a.dev = hand[m + 1].dev => a.seq < hand[m + 1].seq
          /\ o.dev = hand[m + 1].dev => o.seq < hand[m + 1].seq
      BY <1>3, <2>1 DEF OrderInv, HandOrder, InOrder
    <3> QED
      BY <1>4, <2>1, <3>1
  <2>4. \A a \in accepted' : a.seq < next[a.dev]
    BY <1>4, <1>6 DEF OrderInv, HandOrder
  <2> QED
    BY <1>4, <2>2, <2>3, <2>4 DEF HandOrder
<1> QED
  BY <1>3, <1>7, <1>8, <1>9, <1>11, <1>12 DEF OrderInv

(* The pump gives up what it holds. *)
LEMMA HandDropped ==
  ASSUME OrderInv, hand' = <<>>, Line' = Line, UNCHANGED <<next, accepted, input, pending>>
  PROVE  OrderInv'
<1>1. DOMAIN hand' = {}
  OBVIOUS
<1>2. HandOrder'
  BY <1>1 DEF OrderInv, HandOrder, InOrder
<1> QED
  BY <1>2 DEF OrderInv

(* A send leaves the line. *)
LEMMA SendOrder ==
  ASSUME TypeOK, Send
  PROVE  Line' = Line
<1>1. /\ outbox \in Seq(Batch) /\ outbox # <<>> /\ outbox' = Tail(outbox)
      /\ emitted' = Append(emitted, Head(outbox)) /\ emitted \in Seq(Batch)
  BY SendFacts DEF TypeOK
<1> QED
  BY <1>1, LineSent DEF Line

(* One observation of the input joins a partial batch. *)
LEMMA TakeOrder ==
  ASSUME TypeInv, OrderInv, input # <<>>,
         NEW r \in Held, r.obs = Append(pending[Head(input).dev].obs, Head(input)),
         pending' = [pending EXCEPT ![Head(input).dev] = r], input' = Tail(input),
         UNCHANGED <<hand, next, accepted, emitted, outbox>>
  PROVE  OrderInv'
<1>1. /\ Line \in Seq(Batch) /\ pending \in [Devices -> Held] /\ input \in Seq(Observation)
  BY LineType DEF TypeInv, TypeOK, Held
<1>2. /\ PendingOrder(Line, pending', accepted)
      /\ InputOrder(Line, pending', input', accepted)
  BY <1>1, JoinOrder DEF OrderInv
<1>3. Line' = Line /\ HandOrder'
  BY HandKept DEF Line, OrderInv
<1> QED
  BY <1>2, <1>3 DEF OrderInv

(* A flush cuts the oldest observations off a partial batch. *)
LEMMA FlushOrder ==
  ASSUME TypeInv, OrderInv, NEW d \in Devices, FlushChunk(d)
  PROVE  OrderInv'
<1> USE DEF TypeInv
<1>1. PICK t \in 1 .. MaxBatch, b \in Batch, r \in Held :
            /\ t <= Len(pending[d].obs)
            /\ b.dev = d
            /\ Len(b.obs) = t /\ \A k \in 1 .. t : b.obs[k] = pending[d].obs[k]
            /\ Len(r.obs) = Len(pending[d].obs) - t
            /\ \A k \in 1 .. Len(r.obs) : r.obs[k] = pending[d].obs[t + k]
            /\ outbox' = Append(outbox, b)
            /\ pending' = [pending EXCEPT ![d] = r]
  BY ChunkFacts
<1>2. Cut(pending[d].obs, t, b.obs, r.obs)
  <2>1. t \in 1 .. Len(pending[d].obs)
    BY <1>1, PendingAt, Sizes
  <2> QED
    BY <1>1, <2>1 DEF Cut
<1>3. /\ Line \in Seq(Batch) /\ pending \in [Devices -> Held] /\ input \in Seq(Observation)
  BY LineType DEF TypeOK, Held
<1>4. UNCHANGED <<hand, next, accepted, emitted, input>>
  BY DEF FlushChunk, pumpVars
<1>5. Line' = Append(Line, b)
  BY <1>1, <1>4, LineType, LineGrows DEF Line
<1>6. /\ LineOrder(Append(Line, b), accepted)
      /\ PendingOrder(Append(Line, b), pending', accepted)
      /\ InputOrder(Append(Line, b), pending', input, accepted)
  BY <1>1, <1>2, <1>3, MoveOrder DEF OrderInv
<1>7. HandOrder'
  BY <1>4, HandKept DEF OrderInv
<1> QED
  BY <1>4, <1>5, <1>6, <1>7 DEF OrderInv

(* An observation from the input is younger than its partial batch. *)
LEMMA RecvOrder ==
  ASSUME TypeInv, OrderInv, RecvObservation
  PROVE  OrderInv'
<1>1. PICK o \in Observation, r \in Held :
            Joined(o, r) /\ (StaysPartial(o, r) \/ \E b \in Batch : Completes(o, r, b))
  BY RecvFacts
<1>2. /\ input # <<>> /\ input' = Tail(input) /\ UNCHANGED <<hand, next, accepted, emitted>>
      /\ o = Head(input) /\ r.obs = Append(pending[o.dev].obs, o)
  BY <1>1 DEF RecvObservation, pumpVars, Joined
<1>3. CASE StaysPartial(o, r)
  <2>1. outbox' = outbox /\ pending' = [pending EXCEPT ![o.dev] = r]
    BY <1>3 DEF StaysPartial
  <2> QED
    BY <1>2, <2>1, TakeOrder
<1>4. CASE \E b \in Batch : Completes(o, r, b)
  <2>1. PICK b \in Batch : Completes(o, r, b)
    BY <1>4
  <2>2. PICK d \in Devices : d = o.dev
    BY <1>1 DEF Joined
  <2>3. /\ Line \in Seq(Batch) /\ pending \in [Devices -> Held] /\ input \in Seq(Observation)
        /\ emitted \in Seq(Batch) /\ outbox \in Seq(Batch)
    BY LineType DEF TypeInv, TypeOK, Held
  <2>4. PICK p \in [Devices -> Held] : p = [pending EXCEPT ![d] = r] /\ p[d] = r
    <3> DEFINE f == [pending EXCEPT ![d] = r]
    <3>1. f \in [Devices -> Held] /\ f[d] = r
      BY <2>3
    <3> HIDE DEF f
    <3>2. \E p \in [Devices -> Held] : p = f /\ p[d] = r
      BY <3>1
    <3> QED
      BY <3>2 DEF f
  <2>5. PendingOrder(Line, p, accepted) /\ InputOrder(Line, p, Tail(input), accepted)
    <3>1. r.obs = Append(pending[Head(input).dev].obs, Head(input)) /\ d = Head(input).dev
      BY <1>2, <2>2
    <3>2. /\ PendingOrder(Line, [pending EXCEPT ![Head(input).dev] = r], accepted)
          /\ InputOrder(Line, [pending EXCEPT ![Head(input).dev] = r], Tail(input), accepted)
      BY <1>2, <2>3, <3>1, JoinOrder DEF OrderInv
    <3> QED
      BY <2>4, <3>1, <3>2
  <2>6. Cut(p[d].obs, Len(p[d].obs), b.obs, Empty.obs)
    <3>1. p[d].obs = b.obs /\ Empty.obs = <<>> /\ Len(b.obs) = MaxBatch
      BY <2>1, <2>4, EmptyHeld DEF Completes
    <3>2. Len(<<>>) = 0 /\ MaxBatch - MaxBatch = 0 /\ MaxBatch \in 1 .. MaxBatch
      BY Sizes
    <3> QED
      BY <3>1, <3>2 DEF Cut
  <2>7. Tail(input) \in Seq(Observation)
    BY <1>2, InputFacts DEF TypeInv
  <2>8. b.dev = d /\ Empty \in Held /\ LineOrder(Line, accepted)
    BY <2>1, <2>2, EmptyHeld DEF Completes, OrderInv
  <2>9. /\ LineOrder(Append(Line, b), accepted)
        /\ PendingOrder(Append(Line, b), [p EXCEPT ![d] = Empty], accepted)
        /\ InputOrder(Append(Line, b), [p EXCEPT ![d] = Empty], Tail(input), accepted)
    BY <2>3, <2>5, <2>6, <2>7, <2>8, MoveOrder
  <2>10. pending' = [p EXCEPT ![d] = Empty]
    BY <2>1, <2>2, <2>3, <2>4 DEF Completes
  <2>11. Line' = Append(Line, b)
    BY <1>2, <2>1, <2>3, LineGrows DEF Completes, Line
  <2>12. HandOrder'
    BY <1>2, HandKept DEF OrderInv
  <2> QED
    BY <1>2, <2>9, <2>10, <2>11, <2>12 DEF OrderInv
<1> QED
  BY <1>1, <1>3, <1>4

(* Dropping the outbox keeps the order of the rest. *)
LEMMA DropOrder ==
  ASSUME TypeInv, OrderInv, outbox' = <<>>, UNCHANGED <<hand, next, accepted, input, pending, emitted>>
  PROVE  OrderInv'
<1>1. emitted \in Seq(Batch) /\ outbox \in Seq(Batch)
  BY LineType DEF TypeInv
<1>2. Line' = emitted
  BY <1>1, ConcatEmptySeq DEF Line
<1>3. LineOrder(emitted, accepted)
  BY <1>1, LinePrefix DEF OrderInv, Line
<1>4. \A d, n : Under(Line, d, n) => Under(emitted, d, n)
  BY <1>1, LinePrefix DEF Line
<1>5. PendingOrder(emitted, pending, accepted)
  BY <1>4 DEF OrderInv, PendingOrder
<1>6. InputOrder(emitted, pending, input, accepted)
  BY <1>4 DEF OrderInv, InputOrder
<1>7. HandOrder'
  BY HandKept DEF OrderInv
<1> QED
  BY <1>2, <1>3, <1>5, <1>6, <1>7 DEF OrderInv

(* Every step keeps the order. *)
LEMMA OrderStep ==
  ASSUME TypeInv, OrderInv, [Next]_vars
  PROVE  OrderInv'
<1>1. CASE Signal
  BY <1>1, SignalLeaves, OrderKept DEF Line
<1>2. CASE PumpRecv \/ Push
  BY <1>2, PumpOrder, PushOrder
<1>3. CASE IngestDone \/ PumpTimedOut
  BY <1>3, HandDropped DEF IngestDone, PumpTimedOut, taskVars, Line
<1>4. CASE RecvObservation
  BY <1>4, RecvOrder
<1>5. CASE \E d \in Devices : FlushChunk(d)
  BY <1>5, FlushOrder
<1>6. CASE Emit \/ DrainEmit
  <2>1. Send /\ UNCHANGED <<hand, next, accepted, input, pending>>
    BY <1>6 DEF Emit, DrainEmit, pumpVars
  <2> QED
    BY <2>1, SendOrder, OrderKept DEF TypeInv
<1>7. CASE CollectRecv \/ TerminateRecv
  <2>1. TakeInput
    BY <1>7 DEF CollectRecv, TerminateRecv
  <2>2. Head(input) \in Observation /\ input # <<>>
    BY <2>1, InputFacts DEF TypeInv, TakeInput
  <2>3. PICK r \in Held :
            /\ r.obs = Append(pending[Head(input).dev].obs, Head(input))
            /\ Aggregate(pending, Head(input)) = [pending EXCEPT ![Head(input).dev] = r]
    BY <2>2, AggregateFacts DEF TypeInv
  <2>4. /\ pending' = [pending EXCEPT ![Head(input).dev] = r] /\ input' = Tail(input)
        /\ UNCHANGED <<hand, next, accepted, emitted, outbox>>
    BY <2>1, <2>3 DEF TakeInput, pumpVars
  <2> QED
    BY <2>2, <2>3, <2>4, TakeOrder
<1>8. CASE DrainDrop \/ TerminateEnd
  BY <1>8, DropOrder DEF DrainDrop, TerminateEnd, pumpVars
<1> QED
  BY <1>1, <1>2, <1>3, <1>4, <1>5, <1>6, <1>7, <1>8 DEF Next, Signal, Finished

-----------------------------------------------------------------------------
(* The numbers of the batches *)

(* A batch with the next number of its device keeps the numbering. *)
LEMMA NumberedAppend ==
  ASSUME NEW L \in Seq(Batch), NEW b \in Batch, Numbered(L),
         \A i \in DOMAIN L : L[i].dev = b.dev => L[i].seq < b.seq,
         b.seq # 0 => \E i \in DOMAIN L : L[i].dev = b.dev /\ L[i].seq = b.seq - 1
  PROVE  Numbered(Append(L, b))
<1> DEFINE A == Append(L, b)
<1>1. /\ A[Len(L) + 1] = b /\ Len(L) \in Nat /\ DOMAIN L = 1 .. Len(L)
      /\ \A i \in DOMAIN A : i \in DOMAIN L \/ i = Len(L) + 1
      /\ \A i \in DOMAIN L : A[i] = L[i]
  BY AppendAt
<1> HIDE DEF A
<1>2. ASSUME NEW i \in DOMAIN A
      PROVE  /\ \A j \in 1 .. i - 1 : A[j].dev = A[i].dev => A[j].seq < A[i].seq
             /\ A[i].seq # 0 => \E j \in 1 .. i - 1 : A[j].dev = A[i].dev /\ A[j].seq = A[i].seq - 1
  <2>1. CASE i \in DOMAIN L
    <3>1. \A j \in 1 .. i - 1 : A[j] = L[j]
      BY <1>1, <2>1
    <3>2. A[i] = L[i]
      BY <1>1, <2>1
    <3>3. /\ \A j \in 1 .. i - 1 : L[j].dev = L[i].dev => L[j].seq < L[i].seq
          /\ L[i].seq # 0 => \E j \in 1 .. i - 1 : L[j].dev = L[i].dev /\ L[j].seq = L[i].seq - 1
      BY <2>1 DEF Numbered
    <3> QED
      BY <3>1, <3>2, <3>3
  <2>2. CASE i = Len(L) + 1
    <3>1. 1 .. i - 1 = DOMAIN L
      BY <1>1, <2>2
    <3> QED
      BY <1>1, <2>2, <3>1
  <2> QED
    BY <1>1, <2>1, <2>2
<1>3. Numbered(A)
  BY <1>2 DEF Numbered
<1> QED
  BY <1>3 DEF A

(* A part of a numbered line is numbered. *)
LEMMA NumberedPrefix ==
  ASSUME NEW L \in Seq(Batch), NEW M \in Seq(Batch), Numbered(L \o M)
  PROVE  Numbered(L)
<1> DEFINE A == L \o M
<1>1. /\ DOMAIN L = 1 .. Len(L) /\ Len(L) \in Nat
      /\ \A i \in DOMAIN L : i \in DOMAIN A /\ A[i] = L[i]
  BY PrefixAt
<1> HIDE DEF A
<1>2. ASSUME NEW i \in DOMAIN L
      PROVE  /\ \A j \in 1 .. i - 1 : L[j].dev = L[i].dev => L[j].seq < L[i].seq
             /\ L[i].seq # 0 => \E j \in 1 .. i - 1 : L[j].dev = L[i].dev /\ L[j].seq = L[i].seq - 1
  <2>1. \A j \in 1 .. i - 1 : A[j] = L[j]
    BY <1>1
  <2>2. A[i] = L[i] /\ i \in DOMAIN A
    BY <1>1
  <2>3. /\ \A j \in 1 .. i - 1 : A[j].dev = A[i].dev => A[j].seq < A[i].seq
        /\ A[i].seq # 0 => \E j \in 1 .. i - 1 : A[j].dev = A[i].dev /\ A[j].seq = A[i].seq - 1
    BY <2>2 DEF Numbered, A
  <2> QED
    BY <2>1, <2>2, <2>3
<1> QED
  BY <1>2 DEF Numbered

(* A batch takes the device's next number, and the device's next number *)
(* moves on by one.                                                     *)
LEMMA NumbersMove ==
  ASSUME NEW L \in Seq(Batch), NEW p, NEW ds, NEW pp, NEW dd, NEW b \in Batch,
         Numbered(L), NumbersUsed(L, p, ds), NumbersFollow(L, p, ds),
         b.seq = NextNumber(p, ds, b.dev), NextNumber(pp, dd, b.dev) = b.seq + 1,
         \A c \in Devices \ {b.dev} : NextNumber(pp, dd, c) = NextNumber(p, ds, c)
  PROVE  /\ Numbered(Append(L, b)) /\ NumbersUsed(Append(L, b), pp, dd)
         /\ NumbersFollow(Append(L, b), pp, dd)
<1> DEFINE A == Append(L, b)
<1>1. /\ A[Len(L) + 1] = b /\ Len(L) \in Nat /\ DOMAIN L = 1 .. Len(L) /\ DOMAIN A = 1 .. Len(L) + 1
      /\ \A i \in DOMAIN A : i \in DOMAIN L \/ i = Len(L) + 1
      /\ \A i \in DOMAIN L : i \in DOMAIN A /\ A[i] = L[i]
  BY AppendAt
<1>2. b.dev \in Devices /\ b.seq \in Nat
  BY DEF Batch
<1>3. \A i \in DOMAIN L : L[i].dev \in Devices /\ L[i].seq \in Nat
  BY BatchAt
<1>4. Numbered(A)
  <2>1. \A i \in DOMAIN L : L[i].dev = b.dev => L[i].seq < b.seq
    BY DEF NumbersUsed
  <2>2. b.seq # 0 => \E i \in DOMAIN L : L[i].dev = b.dev /\ L[i].seq = b.seq - 1
    BY <1>2 DEF NumbersFollow
  <2> QED
    BY <2>1, <2>2, NumberedAppend
<1> HIDE DEF A
<1>5. NumbersUsed(A, pp, dd)
  <2>1. ASSUME NEW i \in DOMAIN A PROVE A[i].seq < NextNumber(pp, dd, A[i].dev)
    <3>1. CASE i \in DOMAIN L
      <4>1. A[i] = L[i] /\ L[i].seq < NextNumber(p, ds, L[i].dev)
        BY <1>1, <3>1 DEF NumbersUsed
      <4>2. CASE L[i].dev = b.dev
        BY <1>2, <1>3, <3>1, <4>1, <4>2
      <4>3. CASE L[i].dev # b.dev
        BY <1>3, <3>1, <4>1, <4>3
      <4> QED
        BY <4>2, <4>3
    <3>2. CASE i = Len(L) + 1
      BY <1>1, <1>2, <3>2
    <3> QED
      BY <1>1, <3>1, <3>2
  <2> QED
    BY <2>1 DEF NumbersUsed
<1>6. NumbersFollow(A, pp, dd)
  <2>1. ASSUME NEW c \in Devices, NextNumber(pp, dd, c) # 0
        PROVE  \E i \in DOMAIN A : A[i].dev = c /\ A[i].seq = NextNumber(pp, dd, c) - 1
    <3>1. CASE c = b.dev
      <4>1. Len(L) + 1 \in DOMAIN A /\ (b.seq + 1) - 1 = b.seq
        BY <1>1, <1>2
      <4> QED
        BY <1>1, <3>1, <4>1
    <3>2. CASE c # b.dev
      <4>1. NextNumber(pp, dd, c) = NextNumber(p, ds, c)
        BY <3>2
      <4>2. PICK i \in DOMAIN L : L[i].dev = c /\ L[i].seq = NextNumber(p, ds, c) - 1
        BY <2>1, <4>1 DEF NumbersFollow
      <4> QED
        BY <1>1, <4>1, <4>2
    <3> QED
      BY <3>1, <3>2
  <2> QED
    BY <2>1 DEF NumbersFollow
<1> QED
  BY <1>4, <1>5, <1>6 DEF A

(* At the start nothing is numbered. *)
LEMMA InitNumber == Init => NumberInv
<1> SUFFICES ASSUME Init PROVE NumberInv
  OBVIOUS
<1>1. emitted = <<>> /\ outbox = <<>> /\ task = "run" /\ splitting = {} /\ DOMAIN <<>> = {}
  BY DEF Init
<1>2. Line = <<>>
  BY <1>1 DEF Line
<1>3. \A d \in Devices : pending[d].obs = <<>> /\ devseq[d] = 0
  BY EmptyHeld DEF Init
<1>4. SplitInv
  BY <1>1, <1>3 DEF SplitInv
<1>5. Numbered(Line) /\ NumbersUsed(Line, pending, devseq)
  BY <1>1, <1>2 DEF Numbered, NumbersUsed
<1>6. NumbersFollow(Line, pending, devseq)
  BY <1>3 DEF NumbersFollow, NextNumber
<1> QED
  BY <1>4, <1>5, <1>6 DEF NumberInv

(* Steps that make no batch keep the numbering. *)
LEMMA NumberKept ==
  ASSUME NumberInv, Line' = Line, UNCHANGED <<pending, devseq, splitting>>,
         task' \notin Flushing \cup {"ended"} => splitting = {},
         task' # "ended" => task # "ended"
  PROVE  NumberInv'
<1>1. SplitInv'
  BY DEF NumberInv, SplitInv
<1> QED
  BY <1>1 DEF NumberInv

(* Taking an observation leaves the next numbers. *)
LEMMA TakeNumber ==
  ASSUME TypeInv, NumberInv, splitting = {}, NEW d \in Devices, NEW o \in Observation, NEW r \in Held,
         r.seq = NextNumber(pending, devseq, d), r.obs = Append(pending[d].obs, o),
         pending' = [pending EXCEPT ![d] = r],
         UNCHANGED <<task, emitted, outbox, devseq, splitting>>
  PROVE  NumberInv'
<1>1. pending \in [Devices -> Held] /\ pending[d].obs \in Seq(Observation)
  BY PendingAt DEF TypeInv, TypeOK, Held
<1>2. r.obs # <<>>
  BY <1>1, AppendProperties
<1>3. pending'[d] = r /\ \A c \in Devices : c # d => pending'[c] = pending[c]
  BY <1>1
<1>4. \A c \in Devices : NextNumber(pending', devseq', c) = NextNumber(pending, devseq, c)
  <2>1. NextNumber(pending', devseq', d) = NextNumber(pending, devseq, d)
    BY <1>2, <1>3 DEF NextNumber
  <2>2. \A c \in Devices : c # d => NextNumber(pending', devseq', c) = NextNumber(pending, devseq, c)
    BY <1>3 DEF NextNumber
  <2> QED
    BY <2>1, <2>2
<1>5. r.seq = devseq[d]
  BY DEF NextNumber, NumberInv, SplitInv
<1>6. SplitInv'
  <2>1. \A c \in Devices : pending'[c].obs # <<>> => pending'[c].seq = devseq[c]
    BY <1>3, <1>5 DEF NumberInv, SplitInv
  <2> QED
    BY <2>1 DEF SplitInv
<1>7. Line' = Line /\ \A i \in DOMAIN Line : Line[i].dev \in Devices
  BY LineType, BatchAt DEF Line, TypeInv
<1>8. NumbersUsed(Line', pending', devseq')
  BY <1>4, <1>7 DEF NumberInv, NumbersUsed
<1>9. task' # "ended" => NumbersFollow(Line', pending', devseq')
  BY <1>4, <1>7 DEF NumberInv, NumbersFollow
<1> QED
  BY <1>6, <1>7, <1>8, <1>9 DEF NumberInv

(* A flush gives its batch the number of the partial one, and the rest the
   next. *)
LEMMA FlushNumber ==
  ASSUME TypeInv, NumberInv, NEW d \in Devices, FlushChunk(d)
  PROVE  NumberInv'
<1> USE DEF TypeInv
<1>1. PICK b \in Batch, r \in Held :
            /\ b.dev = d /\ b.seq = pending[d].seq
            /\ outbox' = Append(outbox, b)
            /\ pending' = [pending EXCEPT ![d] = r]
            /\ \/ /\ r.obs = <<>> /\ splitting' = {}
                  /\ devseq' = [devseq EXCEPT ![d] = b.seq + 1]
               \/ /\ r.obs # <<>> /\ splitting' = {d}
                  /\ r.seq = b.seq + 1 /\ devseq' = devseq
  BY ChunkFacts
<1>2. /\ pending[d].obs # <<>> /\ splitting \subseteq {d} /\ task \in Flushing /\ task' = task
      /\ emitted' = emitted
  BY DEF FlushChunk
<1>3. pending \in [Devices -> Held] /\ devseq \in [Devices -> Nat] /\ Line \in Seq(Batch)
      /\ emitted \in Seq(Batch) /\ outbox \in Seq(Batch)
  BY LineType DEF TypeOK, Held
<1>4. pending'[d] = r /\ \A c \in Devices : c # d => pending'[c] = pending[c]
  BY <1>1, <1>3
<1>5. Line' = Append(Line, b)
  BY <1>1, <1>2, <1>3, LineGrows DEF Line
<1>6. \A c \in Devices : c # d => devseq'[c] = devseq[c]
  BY <1>1, <1>3
<1>7. NextNumber(pending', devseq', d) = b.seq + 1
  <2>1. CASE r.obs = <<>>
    BY <1>1, <1>3, <1>4, <2>1 DEF NextNumber
  <2>2. CASE r.obs # <<>>
    BY <1>1, <1>4, <2>2 DEF NextNumber
  <2> QED
    BY <2>1, <2>2
<1>8. \A c \in Devices \ {b.dev} : NextNumber(pending', devseq', c) = NextNumber(pending, devseq, c)
  BY <1>1, <1>4, <1>6 DEF NextNumber
<1>9. b.seq = NextNumber(pending, devseq, b.dev) /\ NextNumber(pending', devseq', b.dev) = b.seq + 1
  BY <1>1, <1>2, <1>7 DEF NextNumber
<1>10. Numbered(Line) /\ NumbersUsed(Line, pending, devseq) /\ NumbersFollow(Line, pending, devseq)
  BY <1>2 DEF NumberInv, Flushing
<1>11. /\ Numbered(Append(Line, b)) /\ NumbersUsed(Append(Line, b), pending', devseq')
       /\ NumbersFollow(Append(Line, b), pending', devseq')
  BY <1>3, <1>8, <1>9, <1>10, NumbersMove
<1>12. SplitInv'
  <2>1. \A c \in Devices : c # d /\ pending'[c].obs # <<>> => pending'[c].seq = devseq'[c]
    BY <1>2, <1>4, <1>6 DEF NumberInv, SplitInv
  <2>2. CASE r.obs = <<>>
    <3>1. splitting' = {} /\ pending'[d].obs = <<>>
      BY <1>1, <1>4, <2>2
    <3> QED
      BY <2>1, <3>1 DEF SplitInv
  <2>3. CASE r.obs # <<>>
    <3>1. splitting' = {d} /\ pending'[d].obs # <<>> /\ task' \in Flushing
      BY <1>1, <1>2, <1>4, <2>3
    <3> QED
      BY <2>1, <3>1 DEF SplitInv
  <2> QED
    BY <2>2, <2>3
<1> QED
  BY <1>5, <1>11, <1>12 DEF NumberInv

(* A completed batch has the next number of its device. *)
LEMMA RecvNumber ==
  ASSUME TypeInv, NumberInv, RecvObservation
  PROVE  NumberInv'
<1>1. PICK o \in Observation, r \in Held :
            Joined(o, r) /\ (StaysPartial(o, r) \/ \E b \in Batch : Completes(o, r, b))
  BY RecvFacts
<1>2. PICK d \in Devices : d = o.dev
  BY <1>1 DEF Joined
<1>3. /\ r.seq = NextNumber(pending, devseq, d) /\ r.obs = Append(pending[d].obs, o)
      /\ splitting = {} /\ task = "run"
      /\ UNCHANGED <<task, emitted, splitting>>
  BY <1>1, <1>2 DEF Joined, RecvObservation, NumberInv, SplitInv, Flushing
<1>4. CASE StaysPartial(o, r)
  <2>1. pending' = [pending EXCEPT ![d] = r] /\ UNCHANGED <<outbox, devseq>>
    BY <1>2, <1>4 DEF StaysPartial
  <2> QED
    BY <1>3, <2>1, TakeNumber
<1>5. CASE \E b \in Batch : Completes(o, r, b)
  <2>1. PICK b \in Batch : Completes(o, r, b)
    BY <1>5
  <2>2. /\ b.dev = d /\ b.seq = r.seq /\ outbox' = Append(outbox, b)
        /\ pending' = [pending EXCEPT ![d] = Empty]
        /\ devseq' = [devseq EXCEPT ![d] = @ + 1]
    BY <1>2, <2>1 DEF Completes
  <2>3. pending \in [Devices -> Held] /\ devseq \in [Devices -> Nat] /\ Line \in Seq(Batch)
        /\ emitted \in Seq(Batch) /\ outbox \in Seq(Batch)
    BY LineType DEF TypeInv, TypeOK, Held
  <2>4. r.seq = devseq[d]
    BY <1>3 DEF NextNumber, NumberInv, SplitInv
  <2>5. /\ pending'[d].obs = <<>> /\ devseq'[d] = b.seq + 1
        /\ \A c \in Devices : c # d => pending'[c] = pending[c] /\ devseq'[c] = devseq[c]
    BY <2>2, <2>3, <2>4, EmptyHeld
  <2>6. /\ b.seq = NextNumber(pending, devseq, b.dev)
        /\ NextNumber(pending', devseq', b.dev) = b.seq + 1
        /\ \A c \in Devices \ {b.dev} : NextNumber(pending', devseq', c) = NextNumber(pending, devseq, c)
    BY <1>3, <2>2, <2>5 DEF NextNumber
  <2>7. Numbered(Line) /\ NumbersUsed(Line, pending, devseq) /\ NumbersFollow(Line, pending, devseq)
    BY <1>3 DEF NumberInv
  <2>8. /\ Numbered(Append(Line, b)) /\ NumbersUsed(Append(Line, b), pending', devseq')
        /\ NumbersFollow(Append(Line, b), pending', devseq')
    BY <2>3, <2>6, <2>7, NumbersMove
  <2>9. Line' = Append(Line, b)
    BY <1>3, <2>2, <2>3, LineGrows DEF Line
  <2>10. SplitInv'
    <3>1. \A c \in Devices : pending'[c].obs # <<>> => pending'[c].seq = devseq'[c]
      BY <1>3, <2>5 DEF NumberInv, SplitInv
    <3> QED
      BY <1>3, <3>1 DEF SplitInv
  <2> QED
    BY <2>8, <2>9, <2>10 DEF NumberInv
<1> QED
  BY <1>1, <1>4, <1>5

(* Dropping the outbox leaves a numbered line. *)
LEMMA DropNumber ==
  ASSUME TypeInv, NumberInv, outbox' = <<>>, task' = "ended",
         UNCHANGED <<pending, splitting, devseq, emitted>>
  PROVE  NumberInv'
<1>1. emitted \in Seq(Batch) /\ outbox \in Seq(Batch)
  BY LineType DEF TypeInv
<1>2. Line' = emitted
  BY <1>1, ConcatEmptySeq DEF Line
<1>3. Numbered(emitted)
  BY <1>1, NumberedPrefix DEF NumberInv, Line
<1>4. \A i \in DOMAIN emitted : i \in DOMAIN Line /\ Line[i] = emitted[i]
  BY <1>1, PrefixAt DEF Line
<1>5. NumbersUsed(emitted, pending, devseq)
  BY <1>4 DEF NumberInv, NumbersUsed
<1>6. SplitInv'
  BY DEF NumberInv, SplitInv
<1> QED
  BY <1>2, <1>3, <1>5, <1>6 DEF NumberInv

(* Every step keeps the numbering. *)
LEMMA NumberStep ==
  ASSUME TypeInv, NumberInv, [Next]_vars
  PROVE  NumberInv'
<1>1. CASE Signal
  <2>1. Line' = Line /\ UNCHANGED <<pending, devseq, splitting>>
    BY <1>1, SignalLeaves DEF Line
  <2>2. task' # "ended" => task # "ended"
    BY <1>1 DEF Signal, PollersGone, StopPipeline, PumpDone, Reserve, FlushTick, FlushOver, CancelSeen,
       StopSeen, CollectOver, DrainEnd, OutputClosed, TerminateFlush, ConsumerGone, Consume, Post,
       StartFails, vars, srcVars, pumpVars, taskVars
  <2>3. NothingPending => splitting = {}
    BY DEF NothingPending, NumberInv, SplitInv, TypeInv, TypeOK
  <2>4. task' = task \/ task' \in Flushing \cup {"ended"} \/ task \notin Flushing \cup {"ended"}
           \/ NothingPending
    BY <1>1 DEF Signal, PollersGone, StopPipeline, PumpDone, Reserve, FlushTick, FlushOver, CancelSeen,
       StopSeen, CollectOver, DrainEnd, OutputClosed, TerminateFlush, ConsumerGone, Consume, Post,
       StartFails, vars, srcVars, pumpVars, taskVars, Flushing
  <2>5. task' \notin Flushing \cup {"ended"} => splitting = {}
    BY <2>3, <2>4 DEF NumberInv, SplitInv
  <2> QED
    BY <2>1, <2>2, <2>5, NumberKept
<1>2. CASE PumpRecv \/ Push \/ IngestDone \/ PumpTimedOut
  <2>1. /\ Line' = Line /\ UNCHANGED <<pending, devseq, splitting>>
        /\ task' = task \/ task' = "ended"
    BY <1>2 DEF PumpRecv, Push, IngestDone, PumpTimedOut, taskVars, Line
  <2> QED
    BY <2>1, NumberKept DEF NumberInv, SplitInv
<1>3. CASE RecvObservation \/ (\E d \in Devices : FlushChunk(d))
  BY <1>3, RecvNumber, FlushNumber
<1>4. CASE Emit \/ DrainEmit
  <2>1. Send /\ UNCHANGED <<task, pending, splitting, devseq>>
    BY <1>4 DEF Emit, DrainEmit
  <2>2. Line' = Line
    BY <2>1, SendOrder DEF TypeInv
  <2> QED
    BY <2>1, <2>2, NumberKept DEF NumberInv, SplitInv
<1>5. CASE CollectRecv \/ TerminateRecv
  <2>1. TakeInput /\ task \notin Flushing \cup {"ended"}
    BY <1>5 DEF CollectRecv, TerminateRecv, Flushing
  <2>2. PICK o \in Observation : o = Head(input)
    BY <2>1, InputFacts DEF TypeInv, TakeInput
  <2>3. PICK d \in Devices : d = o.dev
    BY AggregateFacts DEF TypeInv
  <2>4. PICK r \in Held :
            /\ r.seq = NextNumber(pending, devseq, d) /\ r.obs = Append(pending[d].obs, o)
            /\ Aggregate(pending, o) = [pending EXCEPT ![d] = r]
    BY <2>3, AggregateFacts DEF TypeInv
  <2>5. /\ pending' = [pending EXCEPT ![d] = r] /\ splitting = {}
        /\ UNCHANGED <<task, emitted, outbox, devseq, splitting>>
    BY <2>1, <2>2, <2>4 DEF TakeInput, NumberInv, SplitInv
  <2> QED
    BY <2>4, <2>5, TakeNumber
<1>6. CASE DrainDrop \/ TerminateEnd
  BY <1>6, DropNumber DEF DrainDrop, TerminateEnd
<1> QED
  BY <1>1, <1>2, <1>3, <1>4, <1>5, <1>6 DEF Next, Signal, Finished

-----------------------------------------------------------------------------
(* The counts *)

(* At the start nothing is counted. *)
LEMMA InitCount == Init => CountInv
<1> SUFFICES ASSUME Init PROVE CountInv
  OBVIOUS
<1>1. ObsCount(pending) = 0
  <2>1. \A d \in DOMAIN pending : pending[d].obs = <<>>
    BY EmptyHeld DEF Init
  <2> QED
    BY <2>1, CountEmpty
<1>2. ObsCount(outbox) = 0 /\ ObsCount(emitted) = 0 /\ Len(input) = 0
  BY CountNone DEF Init
<1>3. IsFiniteSet(accepted) /\ Cardinality(accepted) = 0
  BY FS_EmptySet DEF Init
<1>4. stats.emitted = 0 /\ stats.dropped = 0 /\ buffered = 0
  BY DEF Init
<1>5. 0 <= BufferLimit
  <2>1. PICK m \in Nat, n \in Nat : m = MaxBatch /\ n = Multiplier
    BY Sizes
  <2>2. 0 <= m * n
    OBVIOUS
  <2> QED
    BY <2>1, <2>2 DEF BufferLimit
<1> QED
  BY <1>1, <1>2, <1>3, <1>4, <1>5 DEF CountInv, BufferedExact

(* The summands of the count are numbers. *)
LEMMA Summands ==
  ASSUME TypeOK
  PROVE  /\ Len(input) \in Nat /\ ObsCount(pending) \in Nat /\ ObsCount(outbox) \in Nat
         /\ stats.emitted \in Nat /\ stats.dropped \in Nat /\ ObsCount(emitted) \in Nat
         /\ buffered \in Nat
  BY PendingCountNat, CountNat, LenProperties DEF TypeOK

(* Steps that move no observation keep the counts. *)
LEMMA CountKept ==
  ASSUME CountInv, UNCHANGED <<accepted, input, pending, outbox, stats, emitted, buffered>>,
         task' \in {"run", "flush"} => task \in {"run", "flush"}
  PROVE  CountInv'
  BY DEF CountInv, BufferedExact

(* An accepted observation is in the input. *)
LEMMA PushCount ==
  ASSUME TypeInv, OrderInv, CountInv, Push
  PROVE  CountInv'
<1>1. Head(hand) \notin accepted /\ accepted' = accepted \cup {Head(hand)}
  BY PushOrder DEF Push
<1>2. IsFiniteSet(accepted') /\ Cardinality(accepted') = Cardinality(accepted) + 1
  BY <1>1, FS_AddElement DEF CountInv
<1>3. Len(input') = Len(input) + 1
  <2>1. hand # <<>> /\ hand \in Seq(Observation) /\ input \in Seq(Observation)
    BY DEF Push, SlotInv, TypeOK, TypeInv
  <2> QED
    BY <2>1, HeadTailProperties, AppendProperties DEF Push
<1>4. UNCHANGED <<task, pending, outbox, stats, emitted, buffered>>
  BY DEF Push, taskVars
<1>5. /\ ObsCount(pending)' = ObsCount(pending) /\ ObsCount(outbox)' = ObsCount(outbox)
      /\ ObsCount(emitted)' = ObsCount(emitted) /\ BufferedExact'
  BY <1>4 DEF CountInv, BufferedExact
<1> QED
  BY <1>2, <1>3, <1>4, <1>5, Summands DEF CountInv, TypeInv

(* Observations move from the input to the partial batches, or on to the *)
(* outbox: nothing else about the counts changes.                        *)
LEMMA CountMoved ==
  ASSUME TypeInv, CountInv, TypeOK', UNCHANGED <<accepted, stats, emitted>>,
         Len(input') + ObsCount(pending') + ObsCount(outbox') =
             Len(input) + ObsCount(pending) + ObsCount(outbox),
         BufferedExact'
  PROVE  CountInv'
<1>1. /\ Len(input') \in Nat /\ ObsCount(pending') \in Nat /\ ObsCount(outbox') \in Nat
  <2>1. /\ input' \in Seq(Observation) /\ pending' \in [Devices -> Held] /\ outbox' \in Seq(Batch)
    BY DEF TypeOK, Held
  <2> QED
    BY <2>1, HeldCountNat, CountNat, LenProperties
<1>2. /\ Len(input) \in Nat /\ ObsCount(pending) \in Nat /\ ObsCount(outbox) \in Nat
      /\ stats.emitted \in Nat /\ stats.dropped \in Nat
  BY Summands DEF TypeInv
<1> QED
  BY <1>1, <1>2 DEF CountInv

(* An observation goes from the input to a partial batch. *)
LEMMA TakeCount ==
  ASSUME TypeInv, input # <<>>, NEW d \in Devices, NEW o \in Observation, NEW r \in Held,
         r.obs = Append(pending[d].obs, o),
         pending' = [pending EXCEPT ![d] = r], input' = Tail(input)
  PROVE  /\ Len(input') = Len(input) - 1 /\ Len(input) \in Nat
         /\ ObsCount(pending') = ObsCount(pending) + 1 /\ ObsCount(pending) \in Nat
<1>1. Len(input') = Len(input) - 1 /\ Len(input) \in Nat
  BY InputFacts DEF TypeInv
<1>2. /\ pending \in [Devices -> Held] /\ pending[d].obs \in Seq(Observation)
      /\ Len(pending[d].obs) \in Nat
  BY PendingAt DEF TypeInv, TypeOK, Held
<1>3. Len(r.obs) = Len(pending[d].obs) + 1
  BY <1>2, AppendProperties
<1>4. /\ ObsCount(pending') + Len(pending[d].obs) = ObsCount(pending) + Len(r.obs)
      /\ ObsCount(pending) \in Nat /\ ObsCount(pending') \in Nat
  BY <1>2, CountExcept
<1> QED
  BY <1>1, <1>2, <1>3, <1>4

(* The sums that the moves leave alone. *)
LEMMA SumKept ==
  ASSUME NEW a \in Nat, NEW b \in Nat, NEW c \in Nat, NEW x, NEW y \in Nat, NEW z \in Nat
  PROVE  /\ x = a - 1 /\ y + z = b + c + 1 => x + y + z = a + b + c
         /\ x = a /\ y + z = b + c => x + y + z = a + b + c
  OBVIOUS

(* Receiving keeps the counts, and the limit. *)
LEMMA RecvCount ==
  ASSUME TypeInv, CountInv, TypeOK', RecvObservation
  PROVE  CountInv'
<1>1. PICK o \in Observation, r \in Held :
            Joined(o, r) /\ (StaysPartial(o, r) \/ \E b \in Batch : Completes(o, r, b))
  BY RecvFacts
<1>2. PICK d \in Devices : d = o.dev
  BY <1>1 DEF Joined
<1>3. /\ r.obs = Append(pending[d].obs, o) /\ Len(r.obs) = Len(pending[d].obs) + 1
      /\ input # <<>> /\ input' = Tail(input) /\ buffered' = buffered + 1
      /\ buffered < BufferLimit /\ task = "run"
      /\ UNCHANGED <<task, accepted, stats, emitted>>
  BY <1>1, <1>2 DEF Joined, RecvObservation, pumpVars
<1>4. buffered = ObsCount(pending) + ObsCount(outbox) /\ buffered \in Nat /\ BufferLimit \in Nat
  <2>1. PICK m \in Nat, n \in Nat : m = MaxBatch /\ n = Multiplier
    BY Sizes
  <2>2. m * n \in Nat
    OBVIOUS
  <2> QED
    BY <1>3, <2>1, <2>2 DEF CountInv, BufferedExact, TypeInv, TypeOK, BufferLimit
<1>5. /\ ObsCount(outbox) \in Nat /\ ObsCount(pending) \in Nat /\ Len(input) \in Nat
      /\ Len(input') = Len(input) - 1
  BY <1>3, Summands, InputFacts DEF TypeInv
<1>6. /\ pending \in [Devices -> Held] /\ Len(pending[d].obs) \in Nat
      /\ outbox \in Seq(Batch)
  BY PendingAt DEF TypeInv, TypeOK, Held
<1>7. ObsCount(pending') + ObsCount(outbox') = ObsCount(pending) + ObsCount(outbox) + 1
  <2>1. CASE StaysPartial(o, r)
    <3>1. pending' = [pending EXCEPT ![d] = r] /\ outbox' = outbox
      BY <1>2, <2>1 DEF StaysPartial
    <3>2. ObsCount(pending') = ObsCount(pending) + 1
      BY <1>3, <3>1, TakeCount
    <3> QED
      BY <1>5, <3>1, <3>2
  <2>2. CASE \E b \in Batch : Completes(o, r, b)
    <3>1. PICK b \in Batch : Completes(o, r, b)
      BY <2>2
    <3>2. /\ pending' = [pending EXCEPT ![d] = Empty] /\ outbox' = Append(outbox, b)
          /\ b.obs = r.obs
      BY <1>2, <3>1 DEF Completes
    <3>3. /\ ObsCount(pending') + Len(pending[d].obs) = ObsCount(pending) + Len(Empty.obs)
          /\ ObsCount(pending') \in Nat
      BY <1>6, <3>2, CountExcept, EmptyHeld
    <3>4. Len(Empty.obs) = 0
      BY EmptyHeld
    <3>5. ObsCount(outbox') = ObsCount(outbox) + Len(r.obs)
      BY <1>6, <3>2, CountAppend
    <3> QED
      BY <1>3, <1>5, <1>6, <3>3, <3>4, <3>5
  <2> QED
    BY <1>1, <2>1, <2>2
<1>8. BufferedExact'
  <2>1. buffered' = ObsCount(pending') + ObsCount(outbox') /\ buffered' <= BufferLimit
    BY <1>3, <1>4, <1>5, <1>7
  <2> QED
    BY <2>1 DEF BufferedExact, BufferLimit
<1>9. ObsCount(pending') \in Nat /\ ObsCount(outbox') \in Nat
  BY HeldCountNat, CountNat DEF TypeOK, Held
<1>10. Len(input') + ObsCount(pending') + ObsCount(outbox') =
           Len(input) + ObsCount(pending) + ObsCount(outbox)
  BY <1>5, <1>7, <1>9, SumKept
<1> QED
  BY <1>3, <1>8, <1>10, CountMoved

(* A flush moves observations from a partial batch to the outbox. *)
LEMMA FlushCount ==
  ASSUME TypeInv, CountInv, TypeOK', NEW d \in Devices, FlushChunk(d)
  PROVE  CountInv'
<1>1. PICK t \in 1 .. MaxBatch, b \in Batch, r \in Held :
            /\ t <= Len(pending[d].obs) /\ Len(b.obs) = t
            /\ Len(r.obs) = Len(pending[d].obs) - t
            /\ outbox' = Append(outbox, b)
            /\ pending' = [pending EXCEPT ![d] = r]
  BY ChunkFacts DEF TypeInv
<1>2. UNCHANGED <<task, accepted, stats, emitted, input, buffered>>
  BY DEF FlushChunk, pumpVars
<1>3. /\ pending \in [Devices -> Held] /\ outbox \in Seq(Batch) /\ Len(pending[d].obs) \in Nat
  BY PendingAt DEF TypeInv, TypeOK, Held
<1>9. PICK u \in Nat : u = t
  BY Sizes
<1>4. /\ ObsCount(pending') + Len(pending[d].obs) = ObsCount(pending) + Len(r.obs)
      /\ ObsCount(pending') \in Nat /\ ObsCount(pending) \in Nat
  BY <1>1, <1>3, CountExcept
<1>5. ObsCount(outbox') = ObsCount(outbox) + t /\ ObsCount(outbox) \in Nat
  BY <1>1, <1>3, CountAppend, CountNat
<1>6. ObsCount(pending') + ObsCount(outbox') = ObsCount(pending) + ObsCount(outbox)
  <2>1. PICK l \in Nat, m \in Nat, n \in Nat, k \in Nat :
            /\ l = Len(pending[d].obs) /\ m = ObsCount(pending') /\ n = ObsCount(pending)
            /\ k = ObsCount(outbox)
    BY <1>3, <1>4, <1>5
  <2>2. m + l = n + (l - u) /\ ObsCount(outbox') = k + u
    BY <1>1, <1>4, <1>5, <1>9, <2>1
  <2>3. m + l = n + (l - u) => m + (k + u) = n + k
    OBVIOUS
  <2> QED
    BY <2>1, <2>2, <2>3
<1>7. BufferedExact'
  BY <1>2, <1>6 DEF BufferedExact, CountInv, BufferLimit
<1>8. Len(input') + ObsCount(pending') + ObsCount(outbox') =
          Len(input) + ObsCount(pending) + ObsCount(outbox)
  <2>1. PICK a \in Nat, b1 \in Nat, c1 \in Nat, y1 \in Nat, z1 \in Nat :
            /\ a = Len(input) /\ b1 = ObsCount(pending) /\ c1 = ObsCount(outbox)
            /\ y1 = ObsCount(pending') /\ z1 = ObsCount(outbox')
    BY <1>4, <1>5, Summands, CountNat DEF TypeInv, TypeOK
  <2>2. y1 + z1 = b1 + c1 => a + y1 + z1 = a + b1 + c1
    OBVIOUS
  <2> QED
    BY <1>2, <1>6, <2>1, <2>2
<1> QED
  BY <1>2, <1>7, <1>8, CountMoved

(* A send moves observations from the outbox to the output. *)
LEMMA SendCount ==
  ASSUME TypeInv, CountInv, Emit \/ DrainEmit
  PROVE  CountInv'
<1>1. Send /\ UNCHANGED <<accepted, task, pending, input>>
  BY DEF Emit, DrainEmit, pumpVars
<1>2. PICK n \in Nat : n = Len(Head(outbox).obs)
  BY <1>1, SendFacts, Sizes DEF TypeInv
<1>3. /\ outbox \in Seq(Batch) /\ outbox # <<>> /\ Head(outbox) \in Batch
      /\ outbox' = Tail(outbox) /\ emitted' = Append(emitted, Head(outbox))
      /\ stats'.dropped = stats.dropped /\ stats'.emitted = stats.emitted + n
      /\ emitted \in Seq(Batch)
  BY <1>1, <1>2, SendFacts DEF TypeInv, TypeOK
<1>4. ObsCount(outbox) = n + ObsCount(outbox') /\ ObsCount(outbox') \in Nat
  BY <1>2, <1>3, CountTail
<1>5. ObsCount(emitted') = ObsCount(emitted) + n
  BY <1>2, <1>3, CountAppend
<1>6. BufferedExact'
  <2>1. CASE Emit
    <3>1. task = "run" /\ buffered' = buffered - BatchLen(Head(outbox))
      BY <2>1 DEF Emit
    <3>2. buffered' = buffered - n
      BY <1>2, <3>1 DEF BatchLen
    <3>3. /\ buffered = ObsCount(pending) + ObsCount(outbox) /\ buffered <= BufferLimit
          /\ buffered \in Nat /\ ObsCount(pending) \in Nat /\ BufferLimit \in Int
      <4>1. PICK x \in Nat, y \in Nat : x = MaxBatch /\ y = Multiplier
        BY Sizes
      <4>2. x * y \in Int
        OBVIOUS
      <4> QED
        BY <3>1, <4>1, <4>2, Summands DEF CountInv, BufferedExact, TypeInv, BufferLimit
    <3>4. buffered' = ObsCount(pending') + ObsCount(outbox') /\ buffered' <= BufferLimit
      BY <1>1, <1>4, <3>2, <3>3
    <3> QED
      BY <3>4 DEF BufferedExact, BufferLimit
  <2>2. CASE DrainEmit
    BY <2>2 DEF DrainEmit, BufferedExact
  <2> QED
    BY <2>1, <2>2
<1> QED
  BY <1>1, <1>3, <1>4, <1>5, <1>6, Summands DEF CountInv, TypeInv

(* What is dropped with the outbox is counted as dropped. *)
LEMMA DropCount ==
  ASSUME TypeInv, CountInv, outbox' = <<>>, task' = "ended",
         stats' = [stats EXCEPT !.dropped = @ + ObsCount(outbox)],
         UNCHANGED <<accepted, input, pending, emitted>>
  PROVE  CountInv'
<1>1. /\ stats'.emitted = stats.emitted /\ ObsCount(outbox) \in Nat
      /\ stats'.dropped = stats.dropped + ObsCount(outbox)
  BY DropFacts DEF TypeInv
<1>2. ObsCount(outbox') = 0
  BY CountNone
<1> QED
  BY <1>1, <1>2, Summands DEF CountInv, BufferedExact, TypeInv

(* Every step keeps the counts. *)
LEMMA CountStep ==
  ASSUME TypeInv, OrderInv, CountInv, TypeOK', [Next]_vars
  PROVE  CountInv'
<1>1. CASE Signal
  <2>1. task' \in {"run", "flush"} => task \in {"run", "flush"}
    BY <1>1 DEF Signal, PollersGone, StopPipeline, PumpDone, Reserve, FlushTick, FlushOver, CancelSeen,
       StopSeen, CollectOver, DrainEnd, OutputClosed, TerminateFlush, ConsumerGone, Consume, Post,
       StartFails, vars, srcVars, pumpVars, taskVars
  <2> QED
    BY <1>1, <2>1, SignalLeaves, CountKept
<1>2. CASE PumpRecv \/ IngestDone \/ PumpTimedOut
  <2>1. /\ UNCHANGED <<accepted, input, pending, outbox, stats, emitted, buffered>>
        /\ task' = task \/ task' = "ended"
    BY <1>2 DEF PumpRecv, IngestDone, PumpTimedOut, taskVars
  <2> QED
    BY <2>1, CountKept
<1>3. CASE Push
  BY <1>3, PushCount
<1>4. CASE RecvObservation \/ (\E d \in Devices : FlushChunk(d)) \/ Emit \/ DrainEmit
  BY <1>4, RecvCount, FlushCount, SendCount
<1>5. CASE CollectRecv \/ TerminateRecv
  <2>1. TakeInput /\ task \notin {"run", "flush"} /\ input # <<>>
    BY <1>5 DEF CollectRecv, TerminateRecv, TakeInput
  <2>2. PICK o \in Observation : o = Head(input)
    BY <2>1, InputFacts DEF TypeInv
  <2>3. PICK d \in Devices : d = o.dev
    BY AggregateFacts DEF TypeInv
  <2>4. PICK r \in Held : /\ r.obs = Append(pending[d].obs, o)
                          /\ Aggregate(pending, o) = [pending EXCEPT ![d] = r]
    BY <2>3, AggregateFacts DEF TypeInv
  <2>5. /\ pending' = [pending EXCEPT ![d] = r] /\ input' = Tail(input)
        /\ UNCHANGED <<task, accepted, stats, emitted, outbox>>
    BY <2>1, <2>2, <2>4 DEF TakeInput, pumpVars
  <2>6. /\ Len(input') = Len(input) - 1 /\ Len(input) \in Nat
        /\ ObsCount(pending') = ObsCount(pending) + 1 /\ ObsCount(pending) \in Nat
    BY <2>1, <2>4, <2>5, TakeCount
  <2>7. BufferedExact'
    BY <2>1, <2>5 DEF BufferedExact
  <2>8. Len(input') + ObsCount(pending') + ObsCount(outbox') =
            Len(input) + ObsCount(pending) + ObsCount(outbox)
    <3>1. /\ ObsCount(outbox') = ObsCount(outbox) /\ ObsCount(outbox) \in Nat
          /\ ObsCount(pending') \in Nat
      BY <2>5, <2>6, Summands DEF TypeInv
    <3>2. ObsCount(pending') + ObsCount(outbox') = ObsCount(pending) + ObsCount(outbox) + 1
      BY <2>6, <3>1
    <3> QED
      BY <2>6, <3>1, <3>2, SumKept
  <2> QED
    BY <2>5, <2>7, <2>8, CountMoved
<1>6. CASE DrainDrop \/ TerminateEnd
  BY <1>6, DropCount DEF DrainDrop, TerminateEnd, pumpVars
<1> QED
  BY <1>1, <1>2, <1>3, <1>4, <1>5, <1>6 DEF Next, Signal, Finished

-----------------------------------------------------------------------------
(* The inductive invariant and what follows from it *)

(* The inductive invariant holds in every reachable state. *)
LEMMA Inductive == Init /\ [][Next]_vars => []IInv
<1>1. Init => IInv
  BY InitType, InitControl, InitOrder, InitNumber, InitCount DEF IInv
<1>2. IInv /\ [Next]_vars => IInv'
  <2> SUFFICES ASSUME IInv, [Next]_vars PROVE IInv'
    OBVIOUS
  <2>1. TypeInv'
    <3>1. CASE Signal
      BY <3>1, SignalType DEF IInv
    <3>2. CASE PumpRecv \/ Push \/ IngestDone \/ PumpTimedOut
      BY <3>2, TypeFromPump DEF IInv
    <3>3. CASE \/ RecvObservation \/ (\E d \in Devices : FlushChunk(d)) \/ Emit \/ CollectRecv
               \/ DrainEmit \/ DrainDrop \/ TerminateRecv \/ TerminateEnd
      BY <3>3, TypeFromTask DEF IInv
    <3> QED
      BY <3>1, <3>2, <3>3 DEF Next, Signal, Finished
  <2>2. ControlInv' /\ OrderInv' /\ NumberInv'
    BY ControlStep, OrderStep, NumberStep DEF IInv
  <2>3. CountInv'
    BY <2>1, CountStep DEF IInv, TypeInv
  <2> QED
    BY <2>1, <2>2, <2>3 DEF IInv
<1> QED
  BY <1>1, <1>2, PTL

(* A spot is the pair of its parts. *)
LEMMA SpotIs ==
  ASSUME NEW bs, NEW s \in Spots(bs)
  PROVE  /\ s = <<s[1], s[2]>> /\ s[1] \in DOMAIN bs /\ s[2] \in DOMAIN bs[s[1]].obs
         /\ At(bs, s) = bs[s[1]].obs[s[2]]
<1>1. PICK i \in DOMAIN bs : s \in {i} \X DOMAIN bs[i].obs
  BY DEF Spots
<1> QED
  BY <1>1 DEF At

(* Two places of batches in order hold observations in order. *)
LEMMA PlacesInOrder ==
  ASSUME NEW L \in Seq(Batch), NEW acc, LineOrder(L, acc), NEW s \in Spots(L), NEW t \in Spots(L),
         L[s[1]].dev = L[t[1]].dev, Before(s, t)
  PROVE  At(L, s).seq < At(L, t).seq
<1>1. /\ s[1] \in DOMAIN L /\ s[2] \in DOMAIN L[s[1]].obs /\ At(L, s) = L[s[1]].obs[s[2]]
      /\ t[1] \in DOMAIN L /\ t[2] \in DOMAIN L[t[1]].obs /\ At(L, t) = L[t[1]].obs[t[2]]
  BY SpotIs
<1>2. CASE s[1] < t[1]
  BY <1>1, <1>2 DEF LineOrder
<1>3. CASE s[1] = t[1] /\ s[2] < t[2]
  BY <1>1, <1>3 DEF LineOrder, Own, InOrder
<1> QED
  BY <1>2, <1>3 DEF Before

(* The invariant implies that the counts are exact. *)
LEMMA InvCounts ==
  ASSUME IInv
  PROVE  CountsExact
<1>1. ASSUME task = "ended", handle # "abandoned"
      PROVE  /\ Cardinality(accepted) = stats.emitted + stats.dropped
             /\ stats.emitted = ObsCount(emitted)
  <2>1. input = <<>> /\ outbox = <<>> /\ \A d \in Devices : pending[d].obs = <<>>
    BY <1>1 DEF IInv, ControlInv, NothingPending
  <2>2. ObsCount(outbox) = 0 /\ Len(input) = 0
    BY <2>1, CountNone
  <2>3. ObsCount(pending) = 0
    BY <2>1, CountEmpty, PendingCountNat DEF IInv, TypeInv
  <2>4. stats.emitted \in Nat /\ stats.dropped \in Nat
    BY Summands DEF IInv, TypeInv
  <2> QED
    BY <2>2, <2>3, <2>4 DEF IInv, CountInv
<1>2. emitted \in Seq(Batch) /\ outbox \in Seq(Batch) /\ LineOrder(emitted, accepted)
  BY LineType, LinePrefix DEF IInv, TypeInv, OrderInv, Line
<1>3. ASSUME NEW s \in Spots(emitted) PROVE At(emitted, s) \in accepted
  BY <1>2, SpotIs DEF LineOrder, Own
<1>4. ASSUME NEW s \in Spots(emitted), NEW t \in Spots(emitted), At(emitted, s) = At(emitted, t)
      PROVE  s = t
  <2>1. /\ s = <<s[1], s[2]>> /\ s[1] \in DOMAIN emitted /\ s[2] \in DOMAIN emitted[s[1]].obs
        /\ t = <<t[1], t[2]>> /\ t[1] \in DOMAIN emitted /\ t[2] \in DOMAIN emitted[t[1]].obs
        /\ At(emitted, s) = emitted[s[1]].obs[s[2]] /\ At(emitted, t) = emitted[t[1]].obs[t[2]]
    BY SpotIs
  <2>2. emitted[s[1]].dev = emitted[t[1]].dev
    <3>1. At(emitted, s).dev = emitted[s[1]].dev
      BY <1>2, <2>1 DEF LineOrder, Own
    <3>2. At(emitted, t).dev = emitted[t[1]].dev
      BY <1>2, <2>1 DEF LineOrder, Own
    <3> QED
      BY <1>4, <3>1, <3>2
  <2>3. s[1] \in Nat /\ t[1] \in Nat /\ s[2] \in Nat /\ t[2] \in Nat
    <3>1. emitted[s[1]].obs \in Seq(Observation) /\ emitted[t[1]].obs \in Seq(Observation)
      BY <1>2, <2>1, BatchAt
    <3>2. DOMAIN emitted \subseteq Nat /\ DOMAIN emitted[s[1]].obs \subseteq Nat
          /\ DOMAIN emitted[t[1]].obs \subseteq Nat
      BY <1>2, <3>1, LenProperties
    <3> QED
      BY <2>1, <3>2
  <2>4. ~Before(s, t) /\ ~Before(t, s)
    <3>1. At(emitted, s).seq \in Nat /\ At(emitted, t).seq \in Nat
      BY <1>3 DEF IInv, TypeInv, TypeOK, Observation
    <3>2. Before(s, t) => At(emitted, s).seq < At(emitted, t).seq
      BY <1>2, <2>2, PlacesInOrder
    <3>3. Before(t, s) => At(emitted, t).seq < At(emitted, s).seq
      BY <1>2, <2>2, PlacesInOrder
    <3> QED
      BY <1>4, <3>1, <3>2, <3>3
  <2>5. PICK i \in Nat, j \in Nat, k \in Nat, l \in Nat : s = <<i, k>> /\ t = <<j, l>>
    BY <2>1, <2>3
  <2>6. ~(i < j \/ (i = j /\ k < l)) /\ ~(j < i \/ (j = i /\ l < k))
    BY <2>4, <2>5 DEF Before
  <2>7. i = j /\ k = l
    BY <2>6
  <2> QED
    BY <2>5, <2>7
<1>5. BufferedExact
  BY DEF IInv, CountInv
<1> QED
  BY <1>1, <1>3, <1>4, <1>5 DEF CountsExact, Accounted

(* The invariant implies that the batches are in order. *)
LEMMA InvBatches ==
  ASSUME IInv
  PROVE  BatchesInOrder
<1>1. Numbered(emitted \o outbox)
  BY DEF IInv, NumberInv, Line
<1>2. ASSUME NEW d \in Devices
      PROVE  LET bs == Append(emitted \o outbox, [dev |-> d, seq |-> 0, obs |-> pending[d].obs])
                 mine == {s \in Spots(bs) : bs[s[1]].dev = d}
             IN  /\ \A s \in mine : At(bs, s).dev = d
                 /\ \A s, t \in mine : Before(s, t) => At(bs, s).seq < At(bs, t).seq
  <2> DEFINE b == [dev |-> d, seq |-> 0, obs |-> pending[d].obs]
             bs == Append(Line, b)
             mine == {s \in Spots(bs) : bs[s[1]].dev = d}
  <2>1. b \in Batch /\ b.dev = d /\ b.obs = pending[d].obs
    BY PendingAt DEF IInv, TypeInv, Batch
  <2>2. Line \in Seq(Batch)
    BY LineType DEF IInv, TypeInv
  <2>3. /\ LineOrder(Line, accepted) /\ Own(d, pending[d].obs, accepted)
        /\ \A k \in DOMAIN pending[d].obs : Under(Line, d, pending[d].obs[k].seq)
    BY DEF IInv, OrderInv, PendingOrder
  <2> HIDE DEF b
  <2>4. bs \in Seq(Batch) /\ LineOrder(bs, accepted)
    BY <2>1, <2>2, <2>3, LineAppend, AppendAt
  <2> HIDE DEF bs
  <2>5. ASSUME NEW s \in mine PROVE At(bs, s).dev = d
    BY <2>4, SpotIs DEF LineOrder, Own
  <2>6. ASSUME NEW s \in mine, NEW t \in mine, Before(s, t) PROVE At(bs, s).seq < At(bs, t).seq
    BY <2>4, <2>6, PlacesInOrder
  <2> QED
    BY <2>5, <2>6 DEF bs, b, Line
<1> QED
  BY <1>1, <1>2 DEF BatchesInOrder

(* The state keeps its types: no batch in the outbox is empty or larger than *)
(* max_batch_size, and no channel holds more than its capacity (run,         *)
(* flush_pending_to_outbox, ingest_all).                                     *)
THEOREM PipelineTypes == Spec => []TypeOK
<1>1. IInv => TypeOK
  BY DEF IInv, TypeInv
<1> QED
  BY <1>1, Inductive, PTL DEF Spec

(* When the pipeline ends, DrainStats accounts for every observation that    *)
(* ingest accepted, none is emitted twice, and the count behind the back     *)
(* pressure is what the loop holds (run, terminate_on_output_closed).        *)
THEOREM CountsAreExact == Spec => []CountsExact
<1>1. IInv => CountsExact
  BY InvCounts
<1> QED
  BY <1>1, Inductive, PTL DEF Spec

(* The batches of a device are numbered without a gap or a repetition and    *)
(* hold its observations in the order of their numbers (run,                 *)
(* flush_pending_to_outbox).                                                 *)
THEOREM BatchesAreInOrder == Spec => []BatchesInOrder
<1>1. IInv => BatchesInOrder
  BY InvBatches
<1> QED
  BY <1>1, Inductive, PTL DEF Spec
=============================================================================
