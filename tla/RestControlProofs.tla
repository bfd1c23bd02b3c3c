------------------------- MODULE RestControlProofs -------------------------
(***************************************************************************)
(* Proofs about RestControl: whatever requests, roles, exchanges in flight, *)
(* ledger capacity and failures, what the status endpoint shows of a key is *)
(* what the engine does with it, and 202 is a promise that is kept.         *)
(***************************************************************************)
EXTENDS RestControl, TLAPS

-----------------------------------------------------------------------------
(* Receipts, by what they commit the engine to *)

Pending == <<"Pending", "">>
Unrecorded == Rejected("JOURNAL_UNAVAILABLE")
Verdicts == Results \cup {Rejected("IDEMPOTENCY_RACE"), Rejected("QUEUE_FULL"),
                          Rejected("VALUE_OUT_OF_RANGE")}
Refusals == {Rejected("DEVICE_NOT_FOUND"), Rejected("DEVICE_DISABLED")}
Shown == Verdicts \cup Refusals \cup {Unrecorded}
Silent == {Rejected("INSUFFICIENT_ROLE"), <<"Err", "ENGINE_CLOSED">>,
           <<"Err", "EMPTY_REQUEST_ID">>, <<"Err", "IDEMPOTENCY_CONFLICT">>}
Receipts == {Pending} \cup Shown \cup Silent

(* The device of the key exists and is enabled. *)
Open(k) == Known(k[1]) /\ Catalog[k[1]] # "disabled"

(* v is the truth about key k: the result on record, one of the results of a
   key that was settled more than once, or the refusal of a device for which
   the engine will never act.                                                *)
Truth(k, v) ==
    \/ k \in forgotten
    \/ engine[k].state = "settled" /\ (engine[k].result = v \/ (k \in unsure /\ v \in Results))
    \/ engine[k].state = "none" /\ ~Open(k) /\ v \in Refusals

(* What a receipt v for key k means until it is replied. *)
Told(k, v) ==
    /\ v = Pending \/ v \in Verdicts => engine[k].state # "none"
    /\ v \in Shown => Truth(k, v)
    /\ v = Pending \/ v \in Shown => k \in authorised

-----------------------------------------------------------------------------
(* The inductive invariant *)

CallStates == [stage : {"idle", "in", "returned"}, req : Requests \cup {NoRequest},
               receipt : Receipts \cup {Unset}]
Records == [state : {"none", "running", "abandoned", "settled"},
            hash : {r.hash : r \in Submits} \cup {""},
            result : Verdicts \cup {Unset}, holds : Verdicts \cup {Unset},
            reply : Verdicts \cup {Unset}]

TypeInv ==
    /\ call \in [Calls -> CallStates]
    /\ engine \in [Keys -> Records] /\ unsure \subseteq Keys
    /\ waiters \in [Keys -> Nat]

(* The index of the ledger names exactly its entries. *)
LedgerInv ==
    /\ DOMAIN entries \subseteq Keys /\ DOMAIN byQuery = DOMAIN entries
    /\ \A k \in DOMAIN entries : byQuery[k] = k /\ entries[k] \in Shown \cup {Running}

(* Every exchange carries a request, and an answer of the engine is true. *)
CallInv ==
    \A c \in Calls :
        /\ call[c].stage # "idle" => call[c].req \in Requests
        /\ call[c].stage = "returned" =>
               /\ call[c].req.kind = "submit" /\ call[c].receipt \in Receipts
               /\ Told(Key(call[c].req), call[c].receipt)

(* One record: there is one only for a device the engine may act on; what the
   worker holds and what it replies is the result on record, unless the key
   was settled more than once, and then all of them are results of an
   execution.                                                                *)
EngineFine(k) ==
    /\ engine[k].state # "none" => Open(k)
    /\ engine[k].state = "settled" => engine[k].result \in Verdicts
    /\ engine[k].state = "settled" /\ (engine[k].reply = Unset \/ k \in unsure) =>
           engine[k].result \in Results
    /\ k \in unsure => engine[k].state \in {"running", "settled"}
    /\ engine[k].state = "settled" /\ engine[k].reply = Unset /\ engine[k].holds = Unset =>
           k \in unsure
    /\ engine[k].holds # Unset =>
           /\ engine[k].state = "settled" /\ engine[k].reply = Unset
           /\ engine[k].holds \in Results
           /\ engine[k].holds = engine[k].result \/ k \in unsure
    /\ engine[k].reply # Unset =>
           /\ engine[k].state = "settled" /\ engine[k].reply \in Verdicts
           /\ engine[k].reply = engine[k].result \/ k \in unsure
           /\ k \in unsure => engine[k].reply \in Results

EngineInv == \A k \in Keys : EngineFine(k)

(* An entry is attended while it runs and true once it has a result. *)
EntryInv ==
    \A k \in DOMAIN entries :
        /\ entries[k] = Running => waiters[k] > 0
        /\ entries[k] # Running => Truth(k, entries[k])
        /\ k \in authorised

(* What a waiting task waits for is on record, and shows as running as long
   as the engine may act.                                                    *)
WaitInv ==
    \A k \in Keys :
        waiters[k] > 0 =>
            /\ engine[k].state # "none" /\ k \in authorised
            /\ k \notin forgotten /\ engine[k].state = "running" =>
                   k \in DOMAIN entries /\ entries[k] = Running

IInv == TypeInv /\ LedgerInv /\ CallInv /\ EngineInv /\ EntryInv /\ WaitInv

-----------------------------------------------------------------------------
(* Receipts *)

(* The four sorts of receipts are told apart by what Reply looks at. *)
LEMMA ReceiptFacts ==
  /\ \A v \in Shown : /\ v # Running /\ v # Pending /\ v # <<"unknown", "">>
                      /\ v[1] # "Err" /\ v[1] # "Pending" /\ ~DeniedReceipt(v)
  /\ \A v \in Silent : v[1] = "Err" \/ DeniedReceipt(v)
  /\ Pending[1] = "Pending" /\ ~DeniedReceipt(Pending) /\ Running # <<"unknown", "">>
  /\ Results \subseteq Verdicts /\ Verdicts \subseteq Shown /\ Unset \notin Verdicts
  /\ \A v \in Refusals \cup {Unrecorded} : v \in Shown /\ v \notin Verdicts
  BY DEF Shown, Verdicts, Refusals, Silent, Unrecorded, Pending, Running, Results, Rejected,
     DeniedReceipt, Unset

(* Only an answer that is pending or a result of an execution becomes 202. *)
LEMMA AcceptedReceipts ==
  ASSUME NEW v \in Receipts, ReplyStatus(v) = 202
  PROVE  v = Pending \/ v \in Verdicts
<1>1. CASE v \in Silent
  BY <1>1 DEF Silent, ReplyStatus, Rejected, RejectedStatus, SubmitErrorStatus, SemanticCodes
<1>2. CASE v \in Refusals \cup {Unrecorded}
  BY <1>2 DEF Refusals, Unrecorded, ReplyStatus, Rejected, RejectedStatus
<1> QED
  BY <1>1, <1>2 DEF Receipts, Shown

-----------------------------------------------------------------------------
(* What the steps do to an exchange and to a record *)

(* The handler is idle again, or waits in the gate with a request. *)
LEMMA AnswerDoes ==
  ASSUME TypeInv, NEW c \in Calls, Answer(c)
  PROVE  /\ call' \in [Calls -> CallStates] /\ call'[c].stage = "idle"
         /\ \A d \in Calls \ {c} : call'[d] = call[d]
<1>1. Idle \in CallStates /\ Idle.stage = "idle"
  BY DEF Idle, CallStates
<1>2. call \in [Calls -> CallStates] /\ call' = [call EXCEPT ![c] = Idle]
  BY DEF TypeInv, Answer
<1> QED
  BY <1>1, <1>2

(* The engine answers v: the exchange keeps its request. *)
LEMMA ReturnsDoes ==
  ASSUME TypeInv, NEW c \in Calls, NEW v \in Receipts, Returns(c, v)
  PROVE  /\ call' \in [Calls -> CallStates]
         /\ call'[c].stage = "returned" /\ call'[c].receipt = v /\ call'[c].req = call[c].req
         /\ \A d \in Calls \ {c} : call'[d] = call[d]
<1>1. call \in [Calls -> CallStates] /\ call[c] \in CallStates
  BY DEF TypeInv
<1>2. PICK x \in CallStates : x = [call[c] EXCEPT !.stage = "returned", !.receipt = v]
  BY <1>1 DEF CallStates
<1>3. x.stage = "returned" /\ x.receipt = v /\ x.req = call[c].req
  BY <1>1, <1>2 DEF CallStates
<1>4. call' = [call EXCEPT ![c] = x]
  BY <1>1, <1>2 DEF Returns
<1> QED
  BY <1>1, <1>3, <1>4

(* One record of the engine changes. *)
LEMMA BecomesDoes ==
  ASSUME TypeInv, NEW k \in Keys, NEW h \in {r.hash : r \in Submits} \cup {""},
         NEW st \in {"none", "running", "abandoned", "settled"},
         NEW v \in Verdicts \cup {Unset}, Becomes(k, h, st, v)
  PROVE  /\ engine' \in [Keys -> Records]
         /\ engine'[k].state = st /\ engine'[k].result = v
         /\ engine'[k].holds = Unset /\ engine'[k].reply = v
         /\ \A x \in Keys \ {k} : engine'[x] = engine[x]
<1>1. PICK y \in Records : y = [state |-> st, hash |-> h, result |-> v, holds |-> Unset,
                                reply |-> v]
  BY DEF Records
<1>2. y.state = st /\ y.result = v /\ y.holds = Unset /\ y.reply = v
  BY <1>1
<1>3. engine \in [Keys -> Records] /\ engine' = [engine EXCEPT ![k] = y]
  BY <1>1 DEF TypeInv, Becomes
<1> QED
  BY <1>2, <1>3

(* An exchange inside submit has a request with a key. *)
LEMMA SubmitHasKey ==
  ASSUME CallInv, NEW c \in Calls, call[c].stage # "idle", call[c].req.kind = "submit"
  PROVE  /\ call[c].req \in Submits /\ Key(call[c].req) \in Keys
         /\ Key(call[c].req)[1] = call[c].req.device
<1>1. call[c].req \in Submits
  BY DEF CallInv, Submits
<1> QED
  BY <1>1 DEF Keys, Key

(* What the checks before the record have established. *)
LEMMA AdmittedOpens ==
  ASSUME CallInv, NEW c \in Calls, Admitted(c)
  PROVE  /\ call[c].stage = "in" /\ call[c].req.kind = "submit"
         /\ call[c].req \in Submits /\ Key(call[c].req) \in Keys /\ Open(Key(call[c].req))
<1>1. call[c].stage = "in" /\ call[c].req.kind = "submit"
  BY DEF Admitted, WellFormed, InSubmit
<1>2. /\ call[c].req \in Submits /\ Key(call[c].req) \in Keys
      /\ Key(call[c].req)[1] = call[c].req.device
  BY <1>1, SubmitHasKey
<1>3. Known(call[c].req.device) /\ Catalog[call[c].req.device] # "disabled"
  BY DEF Admitted, Admission
<1> QED
  BY <1>1, <1>2, <1>3 DEF Open

-----------------------------------------------------------------------------
(* The ledger *)

LedgerOK(l) ==
    /\ DOMAIN l.byQuery = DOMAIN l.entries
    /\ \A k \in DOMAIN l.entries : l.byQuery[k] = k

(* A key that is evicted has an entry with a result. *)
LEMMA RoomDoes ==
  ASSUME NEW l, LedgerOK(l)
  PROVE  LET m == MakeRoom(l)
         IN  /\ LedgerOK(m) /\ DOMAIN m.entries \subseteq DOMAIN l.entries
             /\ \A x \in DOMAIN m.entries : m.entries[x] = l.entries[x]
             /\ \A x \in DOMAIN l.entries : l.entries[x] = Running => x \in DOMAIN m.entries
<1>1. PICK gone : /\ gone = {l.order[i] : i \in {i \in Evictable(l) :
                                Cardinality({j \in Evictable(l) : j < i})
                                    < Cardinality(DOMAIN l.entries) + 1 - Capacity}}
                  /\ MakeRoom(l) = Evict(l, gone)
  BY DEF MakeRoom
<1>2. \A k \in gone : k \in DOMAIN l.entries /\ l.entries[k] # Running
  BY <1>1 DEF Evictable
<1>3. PICK found : found = {k \in gone : QueryKey(k) \in DOMAIN l.byQuery
                                          /\ l.byQuery[QueryKey(k)] = k}
  OBVIOUS
<1>4. {QueryKey(k) : k \in found} = gone
  BY <1>2, <1>3 DEF LedgerOK, QueryKey
<1>5. PICK q : q = Remaining(l.order, gone)
  OBVIOUS
<1>6. MakeRoom(l) = [entries |-> Without(l.entries, gone), byQuery |-> Without(l.byQuery, gone),
                     order |-> q]
  BY <1>1, <1>3, <1>4, <1>5 DEF Evict
<1>7. /\ MakeRoom(l).entries = Without(l.entries, gone)
      /\ MakeRoom(l).byQuery = Without(l.byQuery, gone)
  BY <1>6
<1> QED
  BY <1>2, <1>7 DEF LedgerOK, Without

(* register of key k with r: other entries stay, or go when they have a
   result; the entry of k gets the result r, or is Running if it is new.     *)
LEMMA RegisterDoes ==
  ASSUME NEW l, LedgerOK(l), NEW k, NEW r
  PROVE  LET m == Register(l, k, r)
         IN  /\ LedgerOK(m) /\ DOMAIN m.entries \subseteq DOMAIN l.entries \cup {k}
             /\ \A x \in DOMAIN m.entries \ {k} : m.entries[x] = l.entries[x]
             /\ \A x \in DOMAIN l.entries : l.entries[x] = Running => x \in DOMAIN m.entries
             /\ k \in DOMAIN m.entries
             /\ m.entries[k] = IF k \in DOMAIN l.entries /\ r = Running THEN l.entries[k] ELSE r
<1>1. CASE k \in DOMAIN l.entries /\ r = Running
  BY <1>1 DEF Register, RegisterKnown
<1>2. CASE k \in DOMAIN l.entries /\ r # Running
  <2>1. Register(l, k, r) = [l EXCEPT !.entries[k] = r]
    BY <1>2 DEF Register, RegisterKnown
  <2> QED
    BY <1>2, <2>1 DEF LedgerOK
<1>3. CASE k \notin DOMAIN l.entries
  <2>1. PICK m : m = MakeRoom(l)
    OBVIOUS
  <2>2. /\ LedgerOK(m) /\ DOMAIN m.entries \subseteq DOMAIN l.entries
        /\ \A x \in DOMAIN m.entries : m.entries[x] = l.entries[x]
        /\ \A x \in DOMAIN l.entries : l.entries[x] = Running => x \in DOMAIN m.entries
    BY <2>1, RoomDoes
  <2>3. PICK q : q = Append(m.order, k)
    OBVIOUS
  <2>4. Register(l, k, r) = [entries |-> With(m.entries, k, r), byQuery |-> With(m.byQuery, k, k),
                             order |-> q]
    BY <1>3, <2>1, <2>3 DEF Register, QueryKey
  <2>5. /\ Register(l, k, r).entries = With(m.entries, k, r)
        /\ Register(l, k, r).byQuery = With(m.byQuery, k, k)
    BY <2>4
  <2> QED
    BY <1>3, <2>2, <2>5 DEF LedgerOK, With
<1> QED
  BY <1>1, <1>2, <1>3

(* The same, for the step that registers. *)
LEMMA RegisterStep ==
  ASSUME LedgerInv, NEW k \in Keys, NEW r \in Shown \cup {Running},
         LedgerBecomes(Register(Ledger, k, r))
  PROVE  /\ LedgerInv'
         /\ DOMAIN entries' \subseteq DOMAIN entries \cup {k} /\ k \in DOMAIN entries'
         /\ \A x \in DOMAIN entries' \ {k} : entries'[x] = entries[x]
         /\ \A x \in DOMAIN entries : entries[x] = Running => x \in DOMAIN entries'
         /\ entries'[k] = IF k \in DOMAIN entries /\ r = Running THEN entries[k] ELSE r
<1>1. PICK l : l = Ledger
  OBVIOUS
<1>2. l.entries = entries /\ l.byQuery = byQuery
  BY <1>1 DEF Ledger
<1>3. LedgerOK(l)
  BY <1>2 DEF LedgerInv, LedgerOK
<1>4. PICK m : m = Register(l, k, r)
  OBVIOUS
<1>5. entries' = m.entries /\ byQuery' = m.byQuery
  BY <1>1, <1>4 DEF LedgerBecomes
<1>6. /\ LedgerOK(m) /\ DOMAIN m.entries \subseteq DOMAIN l.entries \cup {k}
      /\ \A x \in DOMAIN m.entries \ {k} : m.entries[x] = l.entries[x]
      /\ \A x \in DOMAIN l.entries : l.entries[x] = Running => x \in DOMAIN m.entries
      /\ k \in DOMAIN m.entries
      /\ m.entries[k] = IF k \in DOMAIN l.entries /\ r = Running THEN l.entries[k] ELSE r
  BY <1>3, <1>4, RegisterDoes
<1> QED
  BY <1>2, <1>5, <1>6 DEF LedgerInv, LedgerOK

(* What the status endpoint answers. *)
LEMMA QueryIs ==
  ASSUME LedgerInv, NEW k
  PROVE  Query(k) = IF k \in DOMAIN entries THEN entries[k] ELSE <<"unknown", "">>
  BY DEF Query, QueryKey, LedgerInv

-----------------------------------------------------------------------------
(* What a step does *)

(* The record of k stays, or goes on without being forgotten; a new one is
   made only for a device on which the engine may act; a result on record is
   replaced only where a worker died, by another result of an execution.     *)
Advances(k) ==
    /\ k \in unsure => k \in unsure'
    /\ \/ engine'[k] = engine[k]
       \/ /\ engine[k].state = "running" \/ (engine[k].state = "none" /\ Open(k))
          /\ engine'[k].state # "none"
       \/ /\ engine[k].state = "settled" /\ engine'[k].state = "settled"
          /\ \/ engine'[k].result = engine[k].result
             \/ k \in unsure' /\ engine[k].result \in Results

(* What was said of a key stays true, unless the record is purged. *)
LEMMA TruthKept ==
  ASSUME NEW k, NEW v, Truth(k, v), forgotten \subseteq forgotten',
         Advances(k) \/ k \in forgotten'
  PROVE  Truth(k, v)'
  BY DEF Truth, Advances

(* What a receipt commits the engine to stays true as records advance. *)
LEMMA ToldKept ==
  ASSUME NEW k, NEW v, Told(k, v), forgotten \subseteq forgotten',
         authorised \subseteq authorised', Advances(k)
  PROVE  Told(k, v)'
<1>1. v \in Shown => Truth(k, v)'
  BY TruthKept DEF Told
<1>2. v = Pending \/ v \in Verdicts => engine'[k].state # "none"
  BY DEF Told, Advances
<1> QED
  BY <1>1, <1>2 DEF Told

(* A submission for key k that the engine answers with v. *)
Answered(c, k, v) ==
    /\ k = Key(call[c].req) /\ Returns(c, v) /\ v \in Receipts
    /\ call[c].stage = "in" /\ call[c].req.kind = "submit"
    /\ \A x \in Keys : Advances(x)
    /\ forgotten \subseteq forgotten' /\ authorised \subseteq authorised'
    /\ engine' \in [Keys -> Records] /\ Told(k, v)'
    /\ UNCHANGED <<ledger, waiters, unsure>>

(* Refused before the record: nothing is promised, and nothing is shown of a
   key for which the subject may not ask.                                    *)
LEMMA RefusedAnswers ==
  ASSUME TypeInv, CallInv, EngineInv, NEW c \in Calls, SubmitRefused(c)
  PROVE  \E k, v : Answered(c, k, v)
<1>1. PICK r, k : r = call[c].req /\ k = Key(r)
  OBVIOUS
<1>2. /\ call[c].stage = "in" /\ call[c].req.kind = "submit"
      /\ UNCHANGED <<ledger, waiters, engine, unsure, forgotten>>
      /\ authorised' = IF MayAsk(Subject(r), r.device, r.op)
                       THEN authorised \cup {k} ELSE authorised
  BY <1>1 DEF SubmitRefused, WellFormed, InSubmit
<1>3. r \in Submits /\ k \in Keys /\ k[1] = r.device
  BY <1>1, <1>2, SubmitHasKey
<1>4. \A x \in Keys : Advances(x)
  BY <1>2 DEF Advances
<1>5. PICK code : code = Admission(Subject(r), r.device, r.op)
  OBVIOUS
<1>6. \/ Returns(c, <<"Err", "ENGINE_CLOSED">>) \/ Returns(c, <<"Err", "EMPTY_REQUEST_ID">>)
      \/ code # "ok" /\ Returns(c, Rejected(code))
  BY <1>1, <1>5 DEF SubmitRefused
<1>7. PICK v : Returns(c, v) /\ (v \in Silent \/ (code # "ok" /\ v = Rejected(code)))
  BY <1>6 DEF Silent
<1>8. v \in Receipts /\ Told(k, v)'
  <2>1. CASE v \in Silent
    <3>1. v # Pending /\ v \notin Shown /\ v \notin Verdicts
      BY <2>1, ReceiptFacts
    <3> QED
      BY <2>1, <3>1 DEF Receipts, Told
  <2>2. CASE code = "INSUFFICIENT_ROLE" /\ v = Rejected(code)
    BY <2>1, <2>2 DEF Silent
  <2>3. CASE code \in {"DEVICE_NOT_FOUND", "DEVICE_DISABLED"} /\ v = Rejected(code)
    <3>1. ~Open(k) /\ k \in authorised'
      <4>1. MayAsk(Subject(r), r.device, r.op)
        BY <1>5, <2>3 DEF Admission
      <4>2. ~Known(r.device) \/ Catalog[r.device] = "disabled"
        BY <1>5, <2>3 DEF Admission
      <4> QED
        BY <1>2, <1>3, <4>1, <4>2 DEF Open
    <3>2. engine[k].state = "none" /\ v \in Refusals
      BY <1>3, <2>3, <3>1 DEF EngineInv, EngineFine, Refusals
    <3>3. v \in Shown /\ v \notin Verdicts /\ v # Pending
      BY <3>2, ReceiptFacts
    <3> QED
      BY <1>2, <3>1, <3>2, <3>3 DEF Told, Truth, Receipts, Shown
  <2> QED
    BY <1>5, <1>7, <2>1, <2>2, <2>3 DEF Admission
<1> QED
  BY <1>1, <1>2, <1>4, <1>7, <1>8 DEF Answered, TypeInv

(* The journal failed: the refusal is shown, and the key is forgotten. *)
LEMMA UnrecordedAnswers ==
  ASSUME TypeInv, CallInv, NEW c \in Calls, SubmitUnrecorded(c)
  PROVE  \E k, v : Answered(c, k, v)
<1>1. PICK k : k = Key(call[c].req)
  OBVIOUS
<1>2. /\ call[c].stage = "in" /\ call[c].req.kind = "submit"
      /\ UNCHANGED <<ledger, waiters, engine, unsure>> /\ Returns(c, Unrecorded)
      /\ forgotten' = forgotten \cup {k}
      /\ authorised' = authorised \cup {k}
  BY <1>1, AdmittedOpens DEF SubmitUnrecorded, Authorised, Unrecorded
<1>3. \A x \in Keys : Advances(x)
  BY <1>2 DEF Advances
<1>4. Unrecorded \in Receipts /\ Told(k, Unrecorded)'
  <2>1. Unrecorded \in Shown /\ Unrecorded \notin Verdicts /\ Unrecorded # Pending
    BY ReceiptFacts
  <2> QED
    BY <1>2, <2>1 DEF Told, Truth, Receipts
<1> QED
  BY <1>1, <1>2, <1>3, <1>4 DEF Answered, TypeInv

(* A new key is on record when the engine answers. *)
LEMMA NewAnswers ==
  ASSUME TypeInv, CallInv, NEW c \in Calls, SubmitNew(c)
  PROVE  \E k, v : Answered(c, k, v)
<1>1. PICK r, k : r = call[c].req /\ k = Key(call[c].req)
  OBVIOUS
<1>2. /\ call[c].stage = "in" /\ call[c].req.kind = "submit" /\ r \in Submits /\ k \in Keys
      /\ Open(k)
  BY <1>1, AdmittedOpens DEF SubmitNew
<1>3. /\ UNCHANGED <<ledger, waiters, unsure, forgotten>> /\ engine[k].state = "none"
      /\ authorised' = authorised \cup {k}
  BY <1>1 DEF SubmitNew, Authorised
<1>4. r.hash \in {x.hash : x \in Submits} \cup {""}
  BY <1>2
<1>5. CASE Returns(c, Pending) /\ Becomes(k, r.hash, "running", Unset)
  <2>1. /\ engine' \in [Keys -> Records] /\ engine'[k].state = "running"
        /\ \A x \in Keys \ {k} : engine'[x] = engine[x]
    BY <1>2, <1>4, <1>5, BecomesDoes
  <2>2. \A x \in Keys : Advances(x)
    BY <1>2, <1>3, <2>1 DEF Advances
  <2>3. Told(k, Pending)'
    BY <1>3, <2>1, ReceiptFacts DEF Told
  <2> QED
    BY <1>1, <1>2, <1>3, <1>5, <2>1, <2>2, <2>3 DEF Answered, Receipts
<1>6. ASSUME NEW code \in {"IDEMPOTENCY_RACE", "QUEUE_FULL", "VALUE_OUT_OF_RANGE"},
             Returns(c, Rejected(code)), Becomes(k, r.hash, "settled", Rejected(code))
      PROVE  \E x, y : Answered(c, x, y)
  <2>1. PICK v \in Verdicts : v = Rejected(code)
    BY <1>6 DEF Verdicts
  <2>2. /\ engine' \in [Keys -> Records] /\ engine'[k].state = "settled" /\ engine'[k].result = v
        /\ \A x \in Keys \ {k} : engine'[x] = engine[x]
    BY <1>2, <1>4, <1>6, <2>1, BecomesDoes
  <2>3. \A x \in Keys : Advances(x)
    BY <1>2, <1>3, <2>2 DEF Advances
  <2>4. Told(k, v)'
    BY <1>3, <2>2 DEF Told, Truth
  <2> QED
    BY <1>1, <1>2, <1>3, <1>6, <2>1, <2>2, <2>3, <2>4 DEF Answered, Receipts, Shown
<1>7. \/ Returns(c, Pending) /\ Becomes(k, r.hash, "running", Unset)
      \/ \E code \in {"IDEMPOTENCY_RACE", "QUEUE_FULL", "VALUE_OUT_OF_RANGE"} :
            Returns(c, Rejected(code)) /\ Becomes(k, r.hash, "settled", Rejected(code))
  BY <1>1 DEF SubmitNew, Pending
<1> QED
  BY <1>5, <1>6, <1>7

(* A key that is known shares what the engine has on record. *)
LEMMA AgainAnswers ==
  ASSUME TypeInv, CallInv, EngineInv, NEW c \in Calls, SubmitAgain(c)
  PROVE  \E k, v : Answered(c, k, v)
<1>1. PICK k : k = Key(call[c].req)
  OBVIOUS
<1>2. call[c].stage = "in" /\ call[c].req.kind = "submit" /\ k \in Keys
  BY <1>1, AdmittedOpens DEF SubmitAgain
<1>3. /\ UNCHANGED <<ledger, waiters, engine, unsure, forgotten>> /\ engine[k].state # "none"
      /\ authorised' = authorised \cup {k}
  BY <1>1 DEF SubmitAgain, Authorised
<1>4. PICK v : /\ Returns(c, v)
               /\ \/ v = <<"Err", "IDEMPOTENCY_CONFLICT">> \/ v = Pending
                  \/ engine[k].state = "settled" /\ v = engine[k].result
  BY <1>1 DEF SubmitAgain, Pending
<1>5. \A x \in Keys : Advances(x)
  BY <1>3 DEF Advances
<1>6. v \in Receipts /\ Told(k, v)'
  <2>1. CASE v = <<"Err", "IDEMPOTENCY_CONFLICT">>
    <3>1. v \in Silent
      BY <2>1 DEF Silent
    <3>2. v # Pending /\ v \notin Shown /\ v \notin Verdicts
      BY <3>1, ReceiptFacts
    <3> QED
      BY <3>1, <3>2 DEF Receipts, Told
  <2>2. CASE v = Pending
    BY <1>3, <2>2, ReceiptFacts DEF Told, Receipts
  <2>3. CASE engine[k].state = "settled" /\ v = engine[k].result
    <3>1. v \in Verdicts
      BY <1>2, <2>3 DEF EngineInv, EngineFine
    <3> QED
      BY <1>3, <2>3, <3>1 DEF Told, Truth, Receipts, Shown
  <2> QED
    BY <1>4, <2>1, <2>2, <2>3
<1> QED
  BY <1>1, <1>2, <1>3, <1>4, <1>5, <1>6 DEF Answered, TypeInv

(* The exchange arrives, is dropped or ends; the rest of the state stays. *)
LEMMA ArriveDoes ==
  ASSUME TypeInv, NEW c \in Calls, NEW r \in Requests, Arrive(c, r)
  PROVE  /\ call' \in [Calls -> CallStates] /\ call'[c].stage = "in" /\ call'[c].req = r
         /\ \A d \in Calls \ {c} : call'[d] = call[d]
         /\ UNCHANGED <<ledger, waiters, engine, unsure, authorised, forgotten>>
<1>1. PICK x \in CallStates : x = [stage |-> "in", req |-> r, receipt |-> Unset]
  BY DEF CallStates
<1>2. x.stage = "in" /\ x.req = r
  BY <1>1
<1>3. call \in [Calls -> CallStates] /\ call' = [call EXCEPT ![c] = x]
  BY <1>1 DEF TypeInv, Arrive
<1>4. UNCHANGED <<ledger, waiters, engine, unsure, authorised, forgotten>>
  BY DEF Arrive
<1> QED
  BY <1>2, <1>3, <1>4

(* The handler is dropped; a record may be left behind. *)
LEMMA DisconnectDoes ==
  ASSUME TypeInv, CallInv, NEW c \in Calls, Disconnect(c)
  PROVE  /\ Answer(c) /\ engine' \in [Keys -> Records]
         /\ \A x \in Keys : Advances(x)
         /\ \A x \in Keys : \/ engine'[x] = engine[x]
                            \/ /\ engine[x].state = "none" /\ engine'[x].state = "abandoned"
                               /\ engine'[x].holds = Unset /\ engine'[x].reply = Unset
         /\ authorised \subseteq authorised' /\ UNCHANGED <<ledger, waiters, unsure, forgotten>>
<1>1. PICK r, k : r = call[c].req /\ k = Key(call[c].req)
  OBVIOUS
<1>2. r \in Submits /\ k \in Keys /\ Open(k)
  BY <1>1, AdmittedOpens DEF Disconnect
<1>3. /\ Answer(c) /\ authorised \subseteq authorised'
      /\ UNCHANGED <<ledger, waiters, unsure, forgotten>>
  BY DEF Disconnect, Answer, Authorised
<1>4. CASE UNCHANGED engine
  BY <1>3, <1>4 DEF Advances, TypeInv
<1>5. CASE engine[k].state = "none" /\ Becomes(k, r.hash, "abandoned", Unset)
  <2>1. r.hash \in {x.hash : x \in Submits} \cup {""}
    BY <1>2
  <2>2. /\ engine' \in [Keys -> Records] /\ engine'[k].state = "abandoned"
        /\ engine'[k].holds = Unset /\ engine'[k].reply = Unset
        /\ \A x \in Keys \ {k} : engine'[x] = engine[x]
    BY <1>2, <1>5, <2>1, BecomesDoes
  <2> QED
    BY <1>2, <1>3, <1>5, <2>2 DEF Advances
<1> QED
  BY <1>1, <1>4, <1>5 DEF Disconnect

(* The steps of the worker, and of what a dead one left behind. *)
Moves(k) == Settle(k) \/ Deliver(k) \/ WorkerDies(k) \/ LateWrite(k)

(* A record that is settled, replied to or settled again stays a fine one. *)
LEMMA MovesDoes ==
  ASSUME TypeInv, EngineInv, NEW k \in Keys, Moves(k)
  PROVE  /\ engine' \in [Keys -> Records] /\ unsure' \subseteq Keys /\ EngineFine(k)'
         /\ \A x \in Keys \ {k} : engine'[x] = engine[x] /\ (x \in unsure' <=> x \in unsure)
         /\ \A x \in Keys : Advances(x)
         /\ UNCHANGED <<call, ledger, waiters, authorised, forgotten>>
<1>1. PICK e \in Records : e = engine[k]
  BY DEF TypeInv
<1>2. EngineFine(k)
  BY DEF EngineInv
<1>3. Results \subseteq Verdicts /\ Unset \notin Verdicts /\ Inherited \subseteq Results
  BY ReceiptFacts DEF Results, Inherited
<1>4. ASSUME NEW st \in {"running", "settled"}, NEW res \in Verdicts \cup {Unset},
             NEW h \in Verdicts \cup {Unset}, NEW rp \in Verdicts \cup {Unset},
             engine' = [engine EXCEPT ![k] = [e EXCEPT !.state = st, !.result = res,
                                                       !.holds = h, !.reply = rp]]
      PROVE  /\ engine' \in [Keys -> Records]
             /\ engine'[k].state = st /\ engine'[k].result = res
             /\ engine'[k].holds = h /\ engine'[k].reply = rp
             /\ \A x \in Keys \ {k} : engine'[x] = engine[x]
  <2>1. PICK f \in Records : f = [e EXCEPT !.state = st, !.result = res, !.holds = h, !.reply = rp]
    BY <1>1, <1>4 DEF Records
  <2>2. f.state = st /\ f.result = res /\ f.holds = h /\ f.reply = rp
    BY <1>1, <2>1 DEF Records
  <2>3. engine \in [Keys -> Records] /\ engine' = [engine EXCEPT ![k] = f]
    BY <1>4, <2>1 DEF TypeInv
  <2> QED
    BY <2>2, <2>3
<1>5. /\ e.state \in {"none", "running", "abandoned", "settled"}
      /\ e.result \in Verdicts \cup {Unset} /\ e.holds \in Verdicts \cup {Unset}
      /\ e.reply \in Verdicts \cup {Unset} /\ engine \in [Keys -> Records]
  BY <1>1 DEF Records, TypeInv
<1>6. CASE Settle(k)
  <2>1. PICK res \in Results :
            /\ engine' = [engine EXCEPT ![k].state = "settled", ![k].result = res, ![k].holds = res]
            /\ unsure' = unsure /\ e.state \in {"running", "settled"}
            /\ e.holds = Unset /\ e.reply = Unset
            /\ UNCHANGED <<call, ledger, waiters, authorised, forgotten>>
    BY <1>1, <1>3, <1>6 DEF Settle, Unreplied
  <2>2. engine' = [engine EXCEPT ![k] = [e EXCEPT !.state = "settled", !.result = res,
                                                  !.holds = res, !.reply = Unset]]
    BY <1>1, <1>5, <2>1 DEF Records
  <2>3. /\ engine' \in [Keys -> Records] /\ engine'[k].state = "settled" /\ engine'[k].result = res
        /\ engine'[k].holds = res /\ engine'[k].reply = Unset
        /\ \A x \in Keys \ {k} : engine'[x] = engine[x]
    BY <1>3, <1>4, <2>2
  <2> QED
    BY <1>1, <1>2, <1>3, <2>1, <2>3 DEF EngineFine, Advances, TypeInv, Open
<1>7. CASE Deliver(k)
  <2>1. /\ engine' = [engine EXCEPT ![k].reply = e.holds, ![k].holds = Unset]
        /\ unsure' = unsure /\ e.holds # Unset
        /\ UNCHANGED <<call, ledger, waiters, authorised, forgotten>>
    BY <1>1, <1>7 DEF Deliver
  <2>2. e.state = "settled" /\ e.holds \in Results
    BY <1>1, <1>2, <2>1 DEF EngineFine
  <2>3. engine' = [engine EXCEPT ![k] = [e EXCEPT !.state = "settled", !.result = e.result,
                                                  !.holds = Unset, !.reply = e.holds]]
    BY <1>1, <1>5, <2>1, <2>2 DEF Records
  <2>4. /\ engine' \in [Keys -> Records] /\ engine'[k].state = "settled"
        /\ engine'[k].result = e.result
        /\ engine'[k].holds = Unset /\ engine'[k].reply = e.holds
        /\ \A x \in Keys \ {k} : engine'[x] = engine[x]
    BY <1>4, <1>5, <2>3
  <2> QED
    BY <1>1, <1>2, <1>3, <2>1, <2>2, <2>4 DEF EngineFine, Advances, TypeInv, Open
<1>8. CASE WorkerDies(k)
  <2>1. /\ engine' = [engine EXCEPT ![k].holds = Unset]
        /\ unsure' = unsure \cup {k} /\ e.state \in {"running", "settled"} /\ e.reply = Unset
        /\ UNCHANGED <<call, ledger, waiters, authorised, forgotten>>
    BY <1>1, <1>8 DEF WorkerDies, Unreplied
  <2>a. PICK st \in {"running", "settled"}, res \in Verdicts \cup {Unset} :
            st = e.state /\ res = e.result
    BY <1>5, <2>1
  <2>2. engine' = [engine EXCEPT ![k] = [e EXCEPT !.state = st, !.result = res,
                                                  !.holds = Unset, !.reply = Unset]]
    BY <1>1, <1>5, <2>1, <2>a DEF Records
  <2>3. /\ engine' \in [Keys -> Records] /\ engine'[k].state = e.state
        /\ engine'[k].result = e.result
        /\ engine'[k].holds = Unset /\ engine'[k].reply = Unset
        /\ \A x \in Keys \ {k} : engine'[x] = engine[x]
    BY <1>4, <2>a, <2>2
  <2> QED
    BY <1>1, <1>2, <1>3, <2>1, <2>3 DEF EngineFine, Advances, TypeInv, Open
<1>9. CASE LateWrite(k)
  <2>1. PICK res \in Results :
            /\ engine' = [engine EXCEPT ![k].state = "settled", ![k].result = res]
            /\ unsure' = unsure /\ k \in unsure
            /\ UNCHANGED <<call, ledger, waiters, authorised, forgotten>>
    BY <1>9 DEF LateWrite
  <2>a. PICK h, rp \in Verdicts \cup {Unset} : h = e.holds /\ rp = e.reply
    BY <1>5
  <2>2. engine' = [engine EXCEPT ![k] = [e EXCEPT !.state = "settled", !.result = res,
                                                  !.holds = h, !.reply = rp]]
    BY <1>1, <1>5, <2>1, <2>a DEF Records
  <2>3. /\ engine' \in [Keys -> Records] /\ engine'[k].state = "settled" /\ engine'[k].result = res
        /\ engine'[k].holds = e.holds /\ engine'[k].reply = e.reply
        /\ \A x \in Keys \ {k} : engine'[x] = engine[x]
    <3>1. "settled" \in {"running", "settled"} /\ res \in Verdicts \cup {Unset}
      BY <1>3
    <3> QED
      BY <1>4, <2>a, <2>2, <3>1
  <2> QED
    BY <1>1, <1>2, <1>3, <2>1, <2>3 DEF EngineFine, Advances, TypeInv, Open
<1> QED
  BY <1>6, <1>7, <1>8, <1>9 DEF Moves

(* A record is purged when nobody waits for it. *)
LEMMA ExpireDoes ==
  ASSUME TypeInv, NEW k \in Keys, Expire(k)
  PROVE  /\ engine' \in [Keys -> Records] /\ engine'[k] = Unknown /\ Unknown.state = "none"
         /\ waiters[k] = 0 /\ unsure' = unsure \ {k}
         /\ \A x \in Keys \ {k} : engine'[x] = engine[x]
         /\ \A c \in Calls : call[c].stage = "returned" => Key(call[c].req) # k
         /\ forgotten' = forgotten \cup {k} /\ UNCHANGED <<call, ledger, waiters, authorised>>
<1>1. Unknown \in Records /\ Unknown.state = "none"
  BY DEF Unknown, Records
<1>2. engine \in [Keys -> Records] /\ engine' = [engine EXCEPT ![k] = Unknown]
  BY DEF TypeInv, Expire
<1>3. /\ waiters[k] = 0 /\ unsure' = unsure \ {k} /\ \A c \in Calls : call[c].stage = "returned" => Key(call[c].req) # k
      /\ forgotten' = forgotten \cup {k} /\ UNCHANGED <<call, ledger, waiters, authorised>>
  BY DEF Expire
<1> QED
  BY <1>1, <1>2, <1>3

(* The new process knows what was settled, and nothing is in flight. *)
LEMMA RestartDoes ==
  ASSUME TypeInv, EngineInv, Restart
  PROVE  /\ call' \in [Calls -> CallStates] /\ \A c \in Calls : call'[c].stage = "idle"
         /\ engine' \in [Keys -> Records] /\ waiters' = [k \in Keys |-> 0]
         /\ EngineInv' /\ unsure' = {}
         /\ entries' = <<>> /\ byQuery' = <<>>
<1>1. Idle \in CallStates /\ Idle.stage = "idle"
  BY DEF Idle, CallStates
<1>2. call' = [c \in Calls |-> Idle] /\ unsure' = {}
  BY DEF Restart
<1>3. ASSUME NEW k \in Keys
      PROVE  engine'[k] \in Records /\ EngineFine(k)'
  <2>1. engine[k] \in Records /\ EngineFine(k)
    BY DEF TypeInv, EngineInv
  <2>2. CASE engine[k].state = "none"
    <3>1. engine'[k] = Unknown
      BY <2>2 DEF Restart
    <3>2. /\ Unknown \in Records /\ Unknown.state = "none" /\ Unknown.holds = Unset
          /\ Unknown.reply = Unset
      BY DEF Unknown, Records
    <3> QED
      BY <1>2, <3>1, <3>2 DEF EngineFine
  <2>3. CASE engine[k].state # "none"
    <3>1. PICK v \in Verdicts :
              v = IF engine[k].state = "settled" THEN engine[k].result ELSE <<"Indeterminate", "">>
      BY <2>1 DEF EngineFine, Verdicts, Results
    <3>2. engine'[k] = [engine[k] EXCEPT !.state = "settled", !.result = v, !.holds = Unset,
                                         !.reply = v]
      BY <2>3, <3>1 DEF Restart, Recovered
    <3>3. /\ engine'[k] \in Records /\ engine'[k].state = "settled" /\ engine'[k].result = v
          /\ engine'[k].holds = Unset /\ engine'[k].reply = v
      BY <2>1, <3>1, <3>2 DEF Records
    <3>4. Open(k)' /\ v # Unset
      BY <2>1, <2>3, <3>1, ReceiptFacts DEF EngineFine, Open
    <3> QED
      BY <1>2, <3>1, <3>3, <3>4 DEF EngineFine
  <2> QED
    BY <2>2, <2>3
<1>4. engine' \in [Keys -> Records]
  <2>1. engine' = [k \in Keys |-> engine'[k]]
    BY DEF Restart
  <2> QED
    BY <1>3, <2>1
<1>5. waiters' = [k \in Keys |-> 0] /\ entries' = <<>> /\ byQuery' = <<>>
  BY DEF Restart
<1> QED
  BY <1>1, <1>2, <1>3, <1>4, <1>5 DEF EngineInv

(* Reply and the waiting task register; nothing else touches the ledger. *)
LEMMA ReplyDoes ==
  ASSUME TypeInv, LedgerInv, CallInv, NEW c \in Calls, Reply(c)
  PROVE  \E k \in Keys, v \in Receipts :
            /\ Answer(c) /\ UNCHANGED <<engine, unsure, authorised, forgotten>> /\ Told(k, v)
            /\ \/ v \in Silent /\ UNCHANGED <<ledger, waiters>>
               \/ /\ v = Pending /\ LedgerBecomes(Register(Ledger, k, Running))
                  /\ waiters' = [waiters EXCEPT ![k] = @ + 1]
               \/ /\ v \in Shown /\ LedgerBecomes(Register(Ledger, k, v))
                  /\ UNCHANGED waiters
<1>1. call[c].stage = "returned" /\ Answer(c) /\ UNCHANGED <<engine, unsure, authorised, forgotten>>
  BY DEF Reply
<1>2. /\ call[c].req.kind = "submit" /\ call[c].receipt \in Receipts
      /\ Told(Key(call[c].req), call[c].receipt)
  BY <1>1 DEF CallInv
<1>3. PICK k \in Keys, v \in Receipts : k = Key(call[c].req) /\ v = call[c].receipt
  BY <1>1, <1>2, SubmitHasKey
<1>4. \/ (v[1] = "Err" \/ DeniedReceipt(v)) /\ UNCHANGED <<ledger, waiters>>
      \/ /\ v[1] # "Err" /\ ~DeniedReceipt(v) /\ v[1] = "Pending"
         /\ LedgerBecomes(Register(Ledger, k, Running))
         /\ waiters' = [waiters EXCEPT ![k] = @ + 1]
      \/ /\ v[1] # "Err" /\ ~DeniedReceipt(v) /\ v[1] # "Pending"
         /\ LedgerBecomes(Register(Ledger, k, v)) /\ UNCHANGED waiters
  BY <1>3 DEF Reply
<1>5. v = Pending \/ v \in Shown \/ v \in Silent
  BY DEF Receipts
<1>6. CASE v \in Silent
  BY <1>1, <1>2, <1>3, <1>4, <1>6, ReceiptFacts
<1>7. CASE v = Pending
  <2>1. v[1] = "Pending" /\ v[1] # "Err" /\ ~DeniedReceipt(v)
    BY <1>7, ReceiptFacts
  <2> QED
    BY <1>1, <1>2, <1>3, <1>4, <1>7, <2>1
<1>8. CASE v \in Shown
  BY <1>1, <1>2, <1>3, <1>4, <1>8, ReceiptFacts
<1> QED
  BY <1>5, <1>6, <1>7, <1>8

(* A waiting task enters the result of the engine into the ledger. *)
LEMMA WaiterDoes ==
  ASSUME TypeInv, EngineInv, NEW k \in Keys, Waiter(k)
  PROVE  \E v \in Shown :
            /\ waiters[k] > 0 /\ engine[k].state = "settled" /\ Truth(k, v)
            /\ v = engine[k].result \/ (k \in unsure /\ v \in Results)
            /\ waiters' \in [Keys -> Nat] /\ \A x \in Keys \ {k} : waiters'[x] = waiters[x]
            /\ LedgerBecomes(Register(Ledger, k, v))
            /\ UNCHANGED <<call, engine, unsure, authorised, forgotten>>
<1>1. /\ waiters[k] > 0 /\ engine[k].reply # Unset
      /\ waiters' = [waiters EXCEPT ![k] = @ - 1]
      /\ LedgerBecomes(Register(Ledger, k, engine[k].reply))
      /\ UNCHANGED <<call, engine, unsure, authorised, forgotten>>
  BY DEF Waiter
<1>2. PICK v : v = engine[k].reply
  OBVIOUS
<1>3. /\ engine[k].state = "settled" /\ v \in Verdicts
      /\ v = engine[k].result \/ (k \in unsure /\ v \in Results)
  BY <1>1, <1>2 DEF EngineInv, EngineFine
<1>4. v \in Shown /\ Truth(k, v)
  BY <1>3, ReceiptFacts DEF Truth
<1>5. waiters' \in [Keys -> Nat] /\ \A x \in Keys \ {k} : waiters'[x] = waiters[x]
  BY <1>1 DEF TypeInv
<1> QED
  BY <1>1, <1>2, <1>3, <1>4, <1>5

(* The sorts of steps. *)
Quiet == UNCHANGED <<call, ledger, waiters, engine, unsure, authorised, forgotten>>

(* The steps, grouped by what they do to ledger and engine. *)
LEMMA StepIs ==
  ASSUME TypeInv, CallInv, EngineInv, [Next]_vars
  PROVE  \/ \E c \in Calls : \E k, v : Answered(c, k, v)
         \/ \E c \in Calls : \/ \E r \in Requests : Arrive(c, r)
                             \/ Disconnect(c) \/ Reply(c)
                             \/ /\ Answer(c)
                                /\ UNCHANGED <<ledger, waiters, engine, unsure, authorised, forgotten>>
         \/ \E k \in Keys : Waiter(k) \/ Moves(k) \/ Expire(k)
         \/ Quiet \/ Restart
<1>1. ASSUME NEW c \in Calls, Read(c) \/ Malformed(c)
      PROVE  Answer(c) /\ UNCHANGED <<ledger, waiters, engine, unsure, authorised, forgotten>>
  BY <1>1 DEF Read, Malformed
<1>2. CASE Stop \/ CloseEngine
  BY <1>2 DEF Stop, CloseEngine, Quiet
<1>3. CASE UNCHANGED vars
  BY <1>3 DEF vars, Quiet, ledger
<1>4. ASSUME NEW c \in Calls, SubmitRefused(c) \/ SubmitUnrecorded(c) \/ SubmitNew(c) \/ SubmitAgain(c)
      PROVE  \E k, v : Answered(c, k, v)
  BY <1>4, RefusedAnswers, UnrecordedAnswers, NewAnswers, AgainAnswers
<1> QED
  BY <1>1, <1>2, <1>3, <1>4 DEF Next, Moves

-----------------------------------------------------------------------------
(* Every step keeps the invariant *)

(* Every step keeps the types. *)
LEMMA TypeStep ==
  ASSUME TypeInv, LedgerInv, CallInv, EngineInv, [Next]_vars
  PROVE  TypeInv'
<1>1. ASSUME NEW c \in Calls, NEW k, NEW v, Answered(c, k, v) PROVE TypeInv'
  <2>1. call' \in [Calls -> CallStates]
    BY <1>1, ReturnsDoes DEF Answered
  <2> QED
    BY <1>1, <2>1 DEF Answered, TypeInv
<1>2. ASSUME NEW c \in Calls, NEW r \in Requests, Arrive(c, r) PROVE TypeInv'
  BY <1>2, ArriveDoes DEF TypeInv
<1>3. ASSUME NEW c \in Calls, Disconnect(c) PROVE TypeInv'
  <2>1. Answer(c) /\ engine' \in [Keys -> Records] /\ UNCHANGED <<waiters, unsure>>
    BY <1>3, DisconnectDoes
  <2> QED
    BY <2>1, AnswerDoes DEF TypeInv
<1>4. ASSUME NEW c \in Calls, Reply(c) PROVE TypeInv'
  <2>1. PICK k \in Keys : /\ Answer(c) /\ UNCHANGED <<engine, unsure>>
                          /\ waiters' = waiters \/ waiters' = [waiters EXCEPT ![k] = @ + 1]
    BY <1>4, ReplyDoes
  <2>2. waiters' \in [Keys -> Nat]
    BY <2>1 DEF TypeInv
  <2> QED
    BY <2>1, <2>2, AnswerDoes DEF TypeInv
<1>5. ASSUME NEW c \in Calls, Answer(c), UNCHANGED <<engine, unsure, waiters>> PROVE TypeInv'
  BY <1>5, AnswerDoes DEF TypeInv
<1>6. ASSUME NEW k \in Keys, Waiter(k) PROVE TypeInv'
  BY <1>6, WaiterDoes DEF TypeInv
<1>7. ASSUME NEW k \in Keys, Moves(k) PROVE TypeInv'
  BY <1>7, MovesDoes DEF TypeInv
<1>8. ASSUME NEW k \in Keys, Expire(k) PROVE TypeInv'
  BY <1>8, ExpireDoes DEF TypeInv
<1>9. CASE Quiet
  BY <1>9 DEF Quiet, TypeInv
<1>10. CASE Restart
  BY <1>10, RestartDoes DEF TypeInv
<1> QED
  BY <1>1, <1>2, <1>3, <1>4, <1>5, <1>6, <1>7, <1>8, <1>9, <1>10, StepIs

(* Every step keeps index and entries of the ledger together. *)
LEMMA LedgerStep ==
  ASSUME TypeInv, LedgerInv, CallInv, EngineInv, [Next]_vars
  PROVE  LedgerInv'
<1>1. ASSUME UNCHANGED ledger PROVE LedgerInv'
  BY <1>1 DEF ledger, LedgerInv
<1>2. ASSUME NEW c \in Calls, Reply(c) PROVE LedgerInv'
  <2>1. PICK k \in Keys, v \in Shown \cup {Running} :
            UNCHANGED ledger \/ LedgerBecomes(Register(Ledger, k, v))
    BY <1>2, ReplyDoes
  <2> QED
    BY <1>1, <2>1, RegisterStep
<1>3. ASSUME NEW k \in Keys, Waiter(k) PROVE LedgerInv'
  BY <1>3, WaiterDoes, RegisterStep
<1>4. CASE Restart
  BY <1>4, RestartDoes DEF LedgerInv
<1>5. ASSUME NEW c \in Calls, NEW k, NEW v, Answered(c, k, v) PROVE LedgerInv'
  BY <1>1, <1>5 DEF Answered
<1>6. ASSUME NEW c \in Calls, NEW r \in Requests, Arrive(c, r) PROVE LedgerInv'
  BY <1>1, <1>6, ArriveDoes
<1>7. ASSUME NEW c \in Calls, Disconnect(c) PROVE LedgerInv'
  BY <1>1, <1>7, DisconnectDoes
<1>8. ASSUME NEW k \in Keys, Moves(k) \/ Expire(k) PROVE LedgerInv'
  BY <1>1, <1>8, MovesDoes, ExpireDoes
<1>9. CASE Quiet
  BY <1>1, <1>9 DEF Quiet
<1> QED
  BY <1>1, <1>2, <1>3, <1>4, <1>5, <1>6, <1>7, <1>8, <1>9, StepIs

(* One exchange: idle, or with a request and, after the engine, an answer. *)
CallFine(c) ==
    /\ call[c].stage # "idle" => call[c].req \in Requests
    /\ call[c].stage = "returned" =>
           /\ call[c].req.kind = "submit" /\ call[c].receipt \in Receipts
           /\ Told(Key(call[c].req), call[c].receipt)

(* An exchange that a step leaves alone stays as it was said. *)
LEMMA CallKept ==
  ASSUME CallInv, NEW d \in Calls, call'[d] = call[d], forgotten \subseteq forgotten',
         authorised \subseteq authorised',
         call[d].stage = "returned" => Advances(Key(call[d].req))
  PROVE  CallFine(d)'
<1>1. CASE call[d].stage = "returned"
  <2>1. PICK k, v : k = Key(call[d].req) /\ v = call[d].receipt
    OBVIOUS
  <2>2. /\ call[d].req \in Requests /\ call[d].req.kind = "submit" /\ v \in Receipts /\ Told(k, v)
    BY <1>1, <2>1 DEF CallInv
  <2>3. Told(k, v)'
    BY <1>1, <2>1, <2>2, ToldKept
  <2>4. Key(call'[d].req) = k /\ call'[d].receipt = v
    BY <2>1
  <2> QED
    BY <2>2, <2>3, <2>4 DEF CallFine
<1>2. CASE call[d].stage # "returned"
  BY <1>2 DEF CallFine, CallInv
<1> QED
  BY <1>1, <1>2

(* Every step keeps the receipts on their way true. *)
LEMMA CallStep ==
  ASSUME TypeInv, LedgerInv, CallInv, EngineInv, [Next]_vars
  PROVE  CallInv'
<1>1. SUFFICES ASSUME NEW d \in Calls PROVE CallFine(d)'
  BY DEF CallInv, CallFine
<1>2. ASSUME call'[d].stage = "idle" PROVE CallFine(d)'
  BY <1>2 DEF CallFine
<1>3. call[d].stage = "returned" => Key(call[d].req) \in Keys
  BY SubmitHasKey DEF CallInv
<1>4. ASSUME call'[d] = call[d], forgotten \subseteq forgotten',
             authorised \subseteq authorised', \A x \in Keys : Advances(x)
      PROVE  CallFine(d)'
  BY <1>3, <1>4, CallKept
<1>5. ASSUME NEW c \in Calls, NEW k, NEW v, Answered(c, k, v) PROVE CallFine(d)'
  <2>1. /\ call'[c].stage = "returned" /\ call'[c].receipt = v /\ call'[c].req = call[c].req
        /\ \A x \in Calls \ {c} : call'[x] = call[x]
    BY <1>5, ReturnsDoes DEF Answered
  <2>2. CASE d = c
    <3>1. /\ call[c].req \in Requests /\ call[c].req.kind = "submit" /\ v \in Receipts
          /\ Told(k, v)' /\ Key(call'[c].req) = k
      BY <1>5, <2>1 DEF Answered, CallInv
    <3> QED
      BY <2>1, <2>2, <3>1 DEF CallFine
  <2>3. CASE d # c
    BY <1>4, <1>5, <2>1, <2>3 DEF Answered
  <2> QED
    BY <2>2, <2>3
<1>6. ASSUME NEW c \in Calls, NEW r \in Requests, Arrive(c, r) PROVE CallFine(d)'
  <2>1. /\ call'[c].stage = "in" /\ call'[c].req = r
        /\ \A x \in Calls \ {c} : call'[x] = call[x]
        /\ UNCHANGED <<engine, unsure, authorised, forgotten>>
    BY <1>6, ArriveDoes
  <2>2. CASE d = c
    BY <2>1, <2>2 DEF CallFine
  <2>3. CASE d # c
    BY <1>4, <2>1, <2>3 DEF Advances
  <2> QED
    BY <2>2, <2>3
<1>7. ASSUME NEW c \in Calls, Answer(c), forgotten \subseteq forgotten',
             authorised \subseteq authorised', \A x \in Keys : Advances(x)
      PROVE  CallFine(d)'
  <2>1. call'[c].stage = "idle" /\ \A x \in Calls \ {c} : call'[x] = call[x]
    BY <1>7, AnswerDoes
  <2>2. CASE d = c
    BY <1>2, <2>1, <2>2
  <2>3. CASE d # c
    BY <1>4, <1>7, <2>1, <2>3
  <2> QED
    BY <2>2, <2>3
<1>8. ASSUME NEW c \in Calls, Disconnect(c) PROVE CallFine(d)'
  BY <1>7, <1>8, DisconnectDoes
<1>9. ASSUME NEW c \in Calls, Answer(c), UNCHANGED <<engine, unsure, authorised, forgotten>>
      PROVE  CallFine(d)'
  BY <1>7, <1>9 DEF Advances
<1>10. ASSUME NEW c \in Calls, Reply(c) PROVE CallFine(d)'
  BY <1>9, <1>10 DEF Reply
<1>11. ASSUME NEW k \in Keys, Waiter(k) PROVE CallFine(d)'
  BY <1>4, <1>11 DEF Waiter, Advances
<1>12. ASSUME NEW k \in Keys, Moves(k) PROVE CallFine(d)'
  BY <1>4, <1>12, MovesDoes
<1>13. ASSUME NEW k \in Keys, Expire(k) PROVE CallFine(d)'
  <2>1. /\ call' = call /\ forgotten \subseteq forgotten' /\ authorised' = authorised
        /\ unsure' = unsure \ {k}
        /\ \A x \in Keys \ {k} : engine'[x] = engine[x]
        /\ call[d].stage = "returned" => Key(call[d].req) # k
    BY <1>13, ExpireDoes
  <2>2. call[d].stage = "returned" => Advances(Key(call[d].req))
    BY <1>3, <2>1 DEF Advances
  <2> QED
    BY <2>1, <2>2, CallKept
<1>14. CASE Quiet
  BY <1>4, <1>14 DEF Quiet, Advances
<1>15. CASE Restart
  BY <1>2, <1>15, RestartDoes
<1> QED
  BY <1>5, <1>6, <1>8, <1>9, <1>10, <1>11, <1>12, <1>13, <1>14, <1>15, StepIs

(* Every step keeps the records of the engine authorised. *)
LEMMA EngineStep ==
  ASSUME TypeInv, LedgerInv, CallInv, EngineInv, [Next]_vars
  PROVE  EngineInv'
<1>1. ASSUME \A k \in Keys : \/ engine'[k] = engine[k] /\ (k \in unsure' <=> k \in unsure)
                             \/ EngineFine(k)'
      PROVE  EngineInv'
  <2>1. ASSUME NEW k \in Keys, engine'[k] = engine[k], k \in unsure' <=> k \in unsure
        PROVE  EngineFine(k)'
    BY <2>1 DEF EngineInv, EngineFine, Open
  <2> QED
    BY <1>1, <2>1 DEF EngineInv
<1>2. ASSUME NEW c \in Calls, SubmitNew(c) PROVE EngineInv'
  <2>1. PICK r, k : r = call[c].req /\ k = Key(call[c].req)
    OBVIOUS
  <2>2. /\ r \in Submits /\ k \in Keys /\ Open(k) /\ engine[k].state = "none" /\ unsure' = unsure
        /\ r.hash \in {x.hash : x \in Submits} \cup {""}
    BY <1>2, <2>1, AdmittedOpens DEF SubmitNew
  <2>3. k \notin unsure' /\ Open(k)'
    BY <2>2 DEF EngineInv, EngineFine, Open
  <2>4. CASE Becomes(k, r.hash, "running", Unset)
    <3>1. /\ engine'[k].state = "running" /\ engine'[k].holds = Unset /\ engine'[k].reply = Unset
          /\ \A x \in Keys \ {k} : engine'[x] = engine[x]
      BY <2>2, <2>4, BecomesDoes
    <3>2. EngineFine(k)'
      BY <2>3, <3>1 DEF EngineFine
    <3> QED
      BY <1>1, <2>2, <3>1, <3>2
  <2>5. ASSUME NEW v \in Verdicts, Becomes(k, r.hash, "settled", v) PROVE EngineInv'
    <3>1. /\ engine'[k].state = "settled" /\ engine'[k].result = v /\ engine'[k].holds = Unset
          /\ engine'[k].reply = v /\ \A x \in Keys \ {k} : engine'[x] = engine[x]
      BY <2>2, <2>5, BecomesDoes
    <3>2. EngineFine(k)'
      BY <2>3, <2>5, <3>1, ReceiptFacts DEF EngineFine
    <3> QED
      BY <1>1, <2>2, <3>1, <3>2
  <2>6. \/ Becomes(k, r.hash, "running", Unset)
        \/ \E v \in Verdicts : Becomes(k, r.hash, "settled", v)
    BY <1>2, <2>1 DEF SubmitNew, Verdicts
  <2> QED
    BY <2>4, <2>5, <2>6
<1>3. ASSUME NEW c \in Calls, Disconnect(c) PROVE EngineInv'
  <2>1. ASSUME NEW k \in Keys, engine'[k] # engine[k] PROVE EngineFine(k)'
    <3>1. /\ Advances(k) /\ engine[k].state = "none" /\ engine'[k].state = "abandoned"
          /\ engine'[k].holds = Unset /\ engine'[k].reply = Unset /\ unsure' = unsure
      BY <1>3, <2>1, DisconnectDoes
    <3>2. k \notin unsure' /\ Open(k)'
      BY <2>1, <3>1 DEF Advances, EngineInv, EngineFine, Open
    <3> QED
      BY <3>1, <3>2 DEF EngineFine
  <2>2. unsure' = unsure
    BY <1>3, DisconnectDoes
  <2> QED
    BY <1>1, <2>1, <2>2
<1>4. ASSUME NEW k \in Keys, Moves(k) PROVE EngineInv'
  BY <1>1, <1>4, MovesDoes
<1>5. ASSUME NEW k \in Keys, Expire(k) PROVE EngineInv'
  <2>1. /\ engine'[k] = Unknown /\ unsure' = unsure \ {k}
        /\ \A x \in Keys \ {k} : engine'[x] = engine[x]
    BY <1>5, ExpireDoes
  <2>2. Unknown.state = "none" /\ Unknown.holds = Unset /\ Unknown.reply = Unset
    BY DEF Unknown
  <2>3. EngineFine(k)'
    BY <2>1, <2>2 DEF EngineFine
  <2> QED
    BY <1>1, <2>1, <2>3
<1>6. CASE Restart
  BY <1>6, RestartDoes
<1>7. CASE engine' = engine /\ unsure' = unsure
  BY <1>1, <1>7
<1>8. ASSUME NEW c \in Calls, \/ \E r \in Requests : Arrive(c, r)
                              \/ Read(c) \/ Malformed(c) \/ SubmitRefused(c)
                              \/ SubmitUnrecorded(c) \/ SubmitAgain(c) \/ Reply(c)
      PROVE  engine' = engine /\ unsure' = unsure
  BY <1>8 DEF Arrive, Read, Malformed, SubmitRefused, SubmitUnrecorded, SubmitAgain, Reply
<1>9. ASSUME NEW k \in Keys, Waiter(k) PROVE engine' = engine /\ unsure' = unsure
  BY <1>9 DEF Waiter
<1>10. CASE Stop \/ CloseEngine \/ UNCHANGED vars
  BY <1>7, <1>10 DEF Stop, CloseEngine, vars
<1> QED
  BY <1>2, <1>3, <1>4, <1>5, <1>6, <1>7, <1>8, <1>9, <1>10 DEF Next, Moves

(* A step that leaves the ledger alone keeps what it shows. *)
LEMMA EntriesKept ==
  ASSUME LedgerInv, EntryInv, UNCHANGED ledger, forgotten \subseteq forgotten',
         authorised \subseteq authorised',
         \A x \in Keys : waiters'[x] = waiters[x] /\ (Advances(x) \/ x \in forgotten')
  PROVE  EntryInv'
<1>1. ASSUME NEW k \in DOMAIN entries, entries[k] # Running PROVE Truth(k, entries[k])'
  <2>1. PICK v : v = entries[k] /\ entries'[k] = v
    BY DEF ledger
  <2>2. Truth(k, v)'
    BY <1>1, <2>1, TruthKept DEF EntryInv, LedgerInv
  <2> QED
    BY <2>1, <2>2 DEF Truth
<1>2. entries' = entries
  BY DEF ledger
<1> QED
  BY <1>1, <1>2 DEF EntryInv, LedgerInv

(* A step that registers v for k, where v is the truth about k or k has a
   waiting task.                                                             *)
LEMMA EntriesAfter ==
  ASSUME LedgerInv, EntryInv, NEW k \in Keys, NEW v \in Shown \cup {Running},
         LedgerBecomes(Register(Ledger, k, v)), UNCHANGED <<engine, unsure, authorised, forgotten>>,
         \A x \in Keys \ {k} : waiters'[x] = waiters[x],
         k \in authorised, v # Running => Truth(k, v), v = Running => waiters'[k] > 0
  PROVE  EntryInv'
<1>1. /\ DOMAIN entries' \subseteq DOMAIN entries \cup {k} /\ k \in DOMAIN entries'
      /\ \A x \in DOMAIN entries' \ {k} : entries'[x] = entries[x]
      /\ entries'[k] = IF k \in DOMAIN entries /\ v = Running THEN entries[k] ELSE v
  BY RegisterStep
<1>2. \A x, u : Truth(x, u) => Truth(x, u)'
  BY DEF Truth
<1>3. ASSUME NEW x \in DOMAIN entries', NEW u, u = entries'[x]
      PROVE  /\ u = Running => waiters'[x] > 0
             /\ u # Running => Truth(x, u)'
             /\ x \in authorised'
  <2>1. CASE x # k
    <3>1. x \in DOMAIN entries /\ x \in Keys /\ u = entries[x] /\ waiters'[x] = waiters[x]
      BY <1>1, <1>3, <2>1 DEF LedgerInv
    <3>2. u # Running => Truth(x, u)
      BY <3>1 DEF EntryInv
    <3> QED
      BY <1>2, <3>1, <3>2 DEF EntryInv
  <2>2. CASE x = k /\ k \in DOMAIN entries /\ v = Running
    <3>1. u = entries[k] /\ waiters'[k] > 0
      BY <1>1, <1>3, <2>2
    <3>2. u # Running => Truth(k, u)
      BY <2>2, <3>1 DEF EntryInv
    <3> QED
      BY <1>2, <2>2, <3>1, <3>2
  <2>3. CASE x = k /\ ~(k \in DOMAIN entries /\ v = Running)
    <3>1. u = v
      BY <1>1, <1>3, <2>3
    <3> QED
      BY <1>2, <2>3, <3>1
  <2> QED
    BY <2>1, <2>2, <2>3
<1> QED
  BY <1>3 DEF EntryInv, Truth

(* Every step keeps the entries attended or true. *)
LEMMA EntryStep ==
  ASSUME IInv, [Next]_vars
  PROVE  EntryInv'
<1> USE DEF IInv
<1>1. ASSUME NEW c \in Calls, NEW k, NEW v, Answered(c, k, v) PROVE EntryInv'
  BY <1>1, EntriesKept DEF Answered
<1>2. ASSUME UNCHANGED <<ledger, waiters, engine, unsure, authorised, forgotten>> PROVE EntryInv'
  <2>1. \A x \in Keys : Advances(x)
    BY <1>2 DEF Advances
  <2> QED
    BY <1>2, <2>1, EntriesKept
<1>3. ASSUME NEW c \in Calls, NEW r \in Requests, Arrive(c, r) PROVE EntryInv'
  BY <1>2, <1>3, ArriveDoes
<1>4. ASSUME NEW c \in Calls, Disconnect(c) PROVE EntryInv'
  BY <1>4, EntriesKept, DisconnectDoes
<1>5. ASSUME NEW c \in Calls, Reply(c) PROVE EntryInv'
  <2>1. PICK k \in Keys, v \in Receipts :
            /\ UNCHANGED <<engine, unsure, authorised, forgotten>> /\ Told(k, v)
            /\ \/ v \in Silent /\ UNCHANGED <<ledger, waiters>>
               \/ /\ v = Pending /\ LedgerBecomes(Register(Ledger, k, Running))
                  /\ waiters' = [waiters EXCEPT ![k] = @ + 1]
               \/ /\ v \in Shown /\ LedgerBecomes(Register(Ledger, k, v))
                  /\ UNCHANGED waiters
    BY <1>5, ReplyDoes
  <2>2. CASE UNCHANGED <<ledger, waiters>>
    BY <1>2, <2>1, <2>2
  <2>3. CASE /\ v = Pending /\ LedgerBecomes(Register(Ledger, k, Running))
             /\ waiters' = [waiters EXCEPT ![k] = @ + 1]
    <3>1. waiters'[k] > 0 /\ \A x \in Keys \ {k} : waiters'[x] = waiters[x]
      BY <2>3 DEF TypeInv
    <3>2. k \in authorised
      BY <2>1, <2>3 DEF Told
    <3> QED
      BY <2>1, <2>3, <3>1, <3>2, EntriesAfter
  <2>4. CASE v \in Shown /\ LedgerBecomes(Register(Ledger, k, v)) /\ UNCHANGED waiters
    <3>1. k \in authorised /\ Truth(k, v) /\ v # Running
      BY <2>1, <2>4, ReceiptFacts DEF Told
    <3> QED
      BY <2>1, <2>4, <3>1, EntriesAfter
  <2> QED
    BY <2>1, <2>2, <2>3, <2>4
<1>6. ASSUME NEW k \in Keys, Waiter(k) PROVE EntryInv'
  <2>1. PICK v \in Shown :
            /\ waiters[k] > 0 /\ engine[k].state = "settled" /\ Truth(k, v)
            /\ \A x \in Keys \ {k} : waiters'[x] = waiters[x]
            /\ LedgerBecomes(Register(Ledger, k, v))
            /\ UNCHANGED <<engine, unsure, authorised, forgotten>>
    BY <1>6, WaiterDoes
  <2>2. k \in authorised /\ v # Running
    BY <2>1, ReceiptFacts DEF WaitInv
  <2> QED
    BY <2>1, <2>2, EntriesAfter
<1>7. ASSUME NEW k \in Keys, Moves(k) PROVE EntryInv'
  BY <1>7, EntriesKept, MovesDoes
<1>8. ASSUME NEW k \in Keys, Expire(k) PROVE EntryInv'
  <2>1. \A x \in Keys : Advances(x) \/ x \in forgotten'
    BY <1>8, ExpireDoes DEF Advances
  <2> QED
    BY <1>8, <2>1, EntriesKept, ExpireDoes
<1>9. CASE Quiet
  BY <1>2, <1>9 DEF Quiet
<1>10. CASE Restart
  BY <1>10, RestartDoes DEF EntryInv
<1> QED
  BY <1>1, <1>2, <1>3, <1>4, <1>5, <1>6, <1>7, <1>8, <1>9, <1>10, StepIs

(* What waiting tasks wait for. *)
WaitFine(k) ==
    waiters[k] > 0 =>
        /\ engine[k].state # "none" /\ k \in authorised
        /\ k \notin forgotten /\ engine[k].state = "running" =>
               k \in DOMAIN entries /\ entries[k] = Running

(* Every step keeps what a task waits for running in the ledger. *)
LEMMA WaitStep ==
  ASSUME IInv, [Next]_vars
  PROVE  WaitInv'
<1> USE DEF IInv
<1> SUFFICES ASSUME NEW x \in Keys PROVE WaitFine(x)'
  BY DEF WaitInv, WaitFine
<1>0. WaitFine(x)
  BY DEF WaitInv, WaitFine
<1>1. ASSUME UNCHANGED <<ledger, waiters>>, forgotten \subseteq forgotten',
             authorised \subseteq authorised', Advances(x)
      PROVE  WaitFine(x)'
  BY <1>0, <1>1 DEF WaitFine, Advances, ledger
<1>2. ASSUME NEW c \in Calls, NEW k, NEW v, Answered(c, k, v) PROVE WaitFine(x)'
  BY <1>1, <1>2 DEF Answered
<1>3. ASSUME UNCHANGED <<ledger, waiters, engine, unsure, authorised, forgotten>> PROVE WaitFine(x)'
  BY <1>1, <1>3 DEF Advances
<1>4. ASSUME NEW c \in Calls, NEW r \in Requests, Arrive(c, r) PROVE WaitFine(x)'
  BY <1>3, <1>4, ArriveDoes
<1>5. ASSUME NEW c \in Calls, Disconnect(c) PROVE WaitFine(x)'
  BY <1>1, <1>5, DisconnectDoes
<1>6. ASSUME NEW k \in Keys, NEW v \in Shown \cup {Running}, LedgerBecomes(Register(Ledger, k, v)),
             UNCHANGED <<engine, unsure, authorised, forgotten>>, x # k, waiters'[x] = waiters[x]
      PROVE  WaitFine(x)'
  <2>1. /\ \A y \in DOMAIN entries' \ {k} : entries'[y] = entries[y]
        /\ \A y \in DOMAIN entries : entries[y] = Running => y \in DOMAIN entries'
    BY <1>6, RegisterStep
  <2> QED
    BY <1>0, <1>6, <2>1 DEF WaitFine
<1>7. ASSUME NEW c \in Calls, Reply(c) PROVE WaitFine(x)'
  <2>1. PICK k \in Keys, v \in Receipts :
            /\ UNCHANGED <<engine, unsure, authorised, forgotten>> /\ Told(k, v)
            /\ \/ v \in Silent /\ UNCHANGED <<ledger, waiters>>
               \/ /\ v = Pending /\ LedgerBecomes(Register(Ledger, k, Running))
                  /\ waiters' = [waiters EXCEPT ![k] = @ + 1]
               \/ /\ v \in Shown /\ LedgerBecomes(Register(Ledger, k, v))
                  /\ UNCHANGED waiters
    BY <1>7, ReplyDoes
  <2>2. CASE UNCHANGED <<ledger, waiters>>
    BY <1>3, <2>1, <2>2
  <2>3. CASE /\ v = Pending /\ LedgerBecomes(Register(Ledger, k, Running))
             /\ waiters' = [waiters EXCEPT ![k] = @ + 1]
    <3>1. CASE x # k
      BY <1>6, <2>1, <2>3, <3>1 DEF TypeInv
    <3>2. CASE x = k
      <4>1. engine[k].state # "none" /\ k \in authorised
        BY <2>1, <2>3 DEF Told
      <4>2. /\ k \in DOMAIN entries'
            /\ entries'[k] = IF k \in DOMAIN entries THEN entries[k] ELSE Running
        BY <2>3, RegisterStep
      <4>3. ASSUME k \notin forgotten, engine[k].state = "running", k \in DOMAIN entries
            PROVE  entries[k] = Running
        BY <4>3 DEF EntryInv, Truth
      <4> QED
        BY <2>1, <3>2, <4>1, <4>2, <4>3 DEF WaitFine
    <3> QED
      BY <3>1, <3>2
  <2>4. CASE v \in Shown /\ LedgerBecomes(Register(Ledger, k, v)) /\ UNCHANGED waiters
    <3>1. CASE x # k
      BY <1>6, <2>1, <2>4, <3>1
    <3>2. CASE x = k
      <4>1. k \in forgotten \/ engine[k].state # "running"
        BY <2>1, <2>4 DEF Told, Truth
      <4> QED
        BY <1>0, <2>1, <2>4, <3>2, <4>1 DEF WaitFine
    <3> QED
      BY <3>1, <3>2
  <2> QED
    BY <2>1, <2>2, <2>3, <2>4
<1>8. ASSUME NEW k \in Keys, Waiter(k) PROVE WaitFine(x)'
  <2>1. PICK v \in Shown :
            /\ waiters[k] > 0 /\ engine[k].state = "settled"
            /\ \A y \in Keys \ {k} : waiters'[y] = waiters[y]
            /\ LedgerBecomes(Register(Ledger, k, v))
            /\ UNCHANGED <<engine, unsure, authorised, forgotten>>
    BY <1>8, WaiterDoes
  <2>2. CASE x # k
    BY <1>6, <2>1, <2>2
  <2>3. CASE x = k
    BY <1>0, <2>1, <2>3 DEF WaitFine
  <2> QED
    BY <2>2, <2>3
<1>9. ASSUME NEW k \in Keys, Moves(k) PROVE WaitFine(x)'
  BY <1>1, <1>9, MovesDoes
<1>10. ASSUME NEW k \in Keys, Expire(k) PROVE WaitFine(x)'
  <2>1. /\ waiters[k] = 0 /\ unsure' = unsure \ {k} /\ UNCHANGED <<ledger, waiters, authorised>>
        /\ forgotten \subseteq forgotten' /\ \A y \in Keys \ {k} : engine'[y] = engine[y]
    BY <1>10, ExpireDoes
  <2>2. CASE x # k
    BY <1>1, <2>1, <2>2 DEF Advances
  <2>3. CASE x = k
    BY <2>1, <2>3 DEF WaitFine
  <2> QED
    BY <2>2, <2>3
<1>11. CASE Quiet
  BY <1>3, <1>11 DEF Quiet
<1>12. CASE Restart
  BY <1>12, RestartDoes DEF WaitFine
<1> QED
  BY <1>2, <1>3, <1>4, <1>5, <1>7, <1>8, <1>9, <1>10, <1>11, <1>12, StepIs

-----------------------------------------------------------------------------
(* The invariant *)

(* The invariant holds initially. *)
LEMMA InitInv == Init => IInv
<1> SUFFICES ASSUME Init PROVE IInv
  OBVIOUS
<1>1. TypeInv
  <2>1. Idle \in CallStates /\ Unknown \in Records
    BY DEF Idle, CallStates, Unknown, Records
  <2> QED
    BY <2>1 DEF Init, TypeInv
<1>2. LedgerInv /\ EntryInv
  BY DEF Init, LedgerInv, EntryInv
<1>3. CallInv
  BY DEF Init, CallInv, Idle
<1>4. EngineInv /\ WaitInv
  <2>1. Unknown.state = "none" /\ Unknown.holds = Unset /\ Unknown.reply = Unset
    BY DEF Unknown
  <2>2. unsure = {} /\ \A k \in Keys : engine[k] = Unknown /\ waiters[k] = 0
    BY DEF Init
  <2> QED
    BY <2>1, <2>2 DEF EngineInv, EngineFine, WaitInv
<1> QED
  BY <1>1, <1>2, <1>3, <1>4 DEF IInv

(* Every step keeps the invariant. *)
LEMMA StepInv == IInv /\ [Next]_vars => IInv'
<1> SUFFICES ASSUME IInv, [Next]_vars PROVE IInv'
  OBVIOUS
<1>1. TypeInv' /\ LedgerInv' /\ CallInv' /\ EngineInv'
  BY TypeStep, LedgerStep, CallStep, EngineStep DEF IInv
<1>2. EntryInv' /\ WaitInv'
  BY EntryStep, WaitStep
<1> QED
  BY <1>1, <1>2 DEF IInv

(* The ledger, the records of the engine and the exchanges in flight agree in
   every reachable state, for any requests, roles, number of exchanges,
   ledger capacity and failures (RequestLedger, EngineControlAdapter).       *)
THEOREM LedgerInvariant == Spec => []IInv
  BY InitInv, StepInv, PTL DEF Spec

(* 202 is answered only for a request that the engine has on record, and until
   its action has ended the status endpoint finds it, although the ledger
   evicts (post_control, register, evict_oldest_settled).                    *)
THEOREM PromisesAreKept == Spec => []PromiseKept
<1>1. IInv => PromiseKept
  <2> SUFFICES ASSUME IInv PROVE PromiseIsRecorded /\ AcceptedIsFindable
    BY DEF PromiseKept
  <2> USE DEF IInv
  <2>1. ASSUME NEW c \in Calls, call[c].stage = "returned", ReplyStatus(call[c].receipt) = 202
        PROVE  engine[Key(call[c].req)].state # "none"
    <3>1. call[c].receipt \in Receipts /\ Told(Key(call[c].req), call[c].receipt)
      BY <2>1 DEF CallInv
    <3>2. call[c].receipt = Pending \/ call[c].receipt \in Verdicts
      BY <2>1, <3>1, AcceptedReceipts
    <3> QED
      BY <3>1, <3>2 DEF Told
  <2>2. ASSUME NEW k \in Keys \ forgotten, waiters[k] > 0, engine[k].state = "running"
        PROVE  Query(k) # <<"unknown", "">>
    <3>1. k \in DOMAIN entries /\ entries[k] = Running
      BY <2>2 DEF WaitInv
    <3> QED
      BY <3>1, QueryIs, ReceiptFacts
  <2> QED
    BY <2>1, <2>2 DEF PromiseIsRecorded, AcceptedIsFindable
<1> QED
  BY <1>1, LedgerInvariant, PTL

(* The status endpoint shows a result only when the action has ended and, unless
   a worker died while it settled the key, only the one on record; it shows
   running only while a task waits for the result, and shows nothing of a key
   that no sufficiently privileged subject has asked for (query, register,
   is_authorization_rejection).                                              *)
THEOREM StatusIsRight == Spec => []StatusRight
<1>1. IInv => StatusRight
  <2> SUFFICES ASSUME IInv, NEW k \in Keys
               PROVE  /\ k \notin forgotten /\ Query(k) \notin {Running, <<"unknown", "">>} =>
                             /\ engine[k].state \in {"settled", "none"}
                             /\ engine[k].state = "settled" /\ k \notin unsure =>
                                    Query(k) = engine[k].result
                      /\ Query(k) = Running => waiters[k] > 0
                      /\ Query(k) # <<"unknown", "">> => k \in authorised
    BY DEF StatusRight, StatusTruthful, RunningIsAttended, OnlyAuthorised
  <2>1. Query(k) = IF k \in DOMAIN entries THEN entries[k] ELSE <<"unknown", "">>
    BY QueryIs DEF IInv
  <2>2. Running # <<"unknown", "">>
    BY ReceiptFacts
  <2> QED
    BY <2>1, <2>2 DEF IInv, EntryInv, Truth
<1> QED
  BY <1>1, LedgerInvariant, PTL

(* A result of an execution that was shown is not taken back by a retry, a
   second waiting task or a later registration, and never turns to running; it
   can be evicted and, where a worker died while it settled the key, be
   replaced by the result of another settlement (register: "Some" replaces,
   "None" leaves alone).                                                     *)
THEOREM ResultsStand == Spec => ResultStands
<1> DEFINE Kept(k) == \/ Query(k)' \in {Query(k), <<"unknown", "">>}
                      \/ k \in unsure /\ Query(k)' \in Results
<1> DEFINE Stands == \A k \in Keys \ forgotten' : Query(k) \in Results => Kept(k)
<1>1. ASSUME IInv, [Next]_vars PROVE Stands
  <2> SUFFICES ASSUME NEW k \in Keys, k \notin forgotten', Query(k) \in Results
               PROVE  Kept(k)
    OBVIOUS
  <2> USE <1>1
  <2>1. k \in DOMAIN entries /\ entries[k] = Query(k)
    <3>1. <<"unknown", "">> \notin Results
      BY ReceiptFacts
    <3>2. Query(k) = IF k \in DOMAIN entries THEN entries[k] ELSE <<"unknown", "">>
      BY QueryIs DEF IInv
    <3> QED
      BY <3>1, <3>2
  <2>2. Query(k)' = IF k \in DOMAIN entries' THEN entries'[k] ELSE <<"unknown", "">>
    <3>1. LedgerInv'
      BY StepInv DEF IInv
    <3> QED
      BY <3>1 DEF Query, QueryKey, LedgerInv
  <2>3. entries[k] \in Results /\ entries[k] # Running /\ entries[k] \notin Refusals
    BY <2>1, ReceiptFacts
  <2>4. ASSUME k \notin forgotten
        PROVE  /\ engine[k].state = "settled"
               /\ engine[k].result = entries[k] \/ (k \in unsure /\ engine[k].result \in Results)
    BY <2>1, <2>3, <2>4 DEF IInv, EntryInv, Truth, EngineInv, EngineFine
  <2>5. CASE UNCHANGED ledger
    BY <2>1, <2>2, <2>5 DEF ledger
  <2>6. ASSUME NEW x \in Keys, NEW v \in Shown \cup {Running},
               LedgerBecomes(Register(Ledger, x, v)), UNCHANGED forgotten,
               x = k => v = Running \/ v = entries[k] \/ (k \in unsure /\ v \in Results)
        PROVE  Kept(k)
    <3>1. /\ \A y \in DOMAIN entries' \ {x} : entries'[y] = entries[y]
          /\ entries'[x] = IF x \in DOMAIN entries /\ v = Running THEN entries[x] ELSE v
      BY <2>6, RegisterStep DEF IInv
    <3> QED
      BY <2>1, <2>2, <2>6, <3>1
  <2>7. ASSUME NEW c \in Calls, Reply(c) PROVE Kept(k)
    <3>1. PICK x \in Keys, v \in Receipts :
              /\ UNCHANGED <<engine, unsure, forgotten>> /\ Told(x, v)
              /\ \/ UNCHANGED ledger
                 \/ v = Pending /\ LedgerBecomes(Register(Ledger, x, Running))
                 \/ v \in Shown /\ LedgerBecomes(Register(Ledger, x, v))
      BY <2>7, ReplyDoes DEF IInv
    <3>2. CASE v \in Shown /\ LedgerBecomes(Register(Ledger, x, v))
      <4>1. x = k => v = entries[k] \/ (k \in unsure /\ v \in Results)
        BY <2>4, <3>1, <3>2 DEF Told, Truth
      <4> QED
        BY <2>6, <3>1, <3>2, <4>1
    <3> QED
      BY <2>5, <2>6, <3>1, <3>2
  <2>8. ASSUME NEW x \in Keys, Waiter(x) PROVE Kept(k)
    <3>1. PICK v \in Shown :
              /\ v = engine[x].result \/ (x \in unsure /\ v \in Results)
              /\ UNCHANGED forgotten /\ LedgerBecomes(Register(Ledger, x, v))
      BY <2>8, WaiterDoes DEF IInv
    <3> QED
      BY <2>4, <2>6, <3>1
  <2>9. CASE Restart
    <3>1. DOMAIN entries' = {}
      BY <2>9, RestartDoes DEF IInv
    <3> QED
      BY <2>2, <3>1
  <2>10. ASSUME NEW c \in Calls, NEW x, NEW v, Answered(c, x, v) PROVE UNCHANGED ledger
    BY <2>10 DEF Answered
  <2>11. ASSUME NEW c \in Calls, (\E r \in Requests : Arrive(c, r)) \/ Disconnect(c)
         PROVE  UNCHANGED ledger
    BY <2>11 DEF Arrive, Disconnect
  <2>12. ASSUME NEW x \in Keys, Moves(x) \/ Expire(x) PROVE UNCHANGED ledger
    BY <2>12, MovesDoes DEF Expire, IInv
  <2>13. Quiet => UNCHANGED ledger
    BY DEF Quiet
  <2> QED
    BY <2>5, <2>7, <2>8, <2>9, <2>10, <2>11, <2>12, <2>13, StepIs DEF IInv
<1>2. IInv /\ [Next]_vars => [Stands]_vars
  BY <1>1
<1> QED
  BY <1>2, LedgerInvariant, PTL DEF Spec, ResultStands
=============================================================================
