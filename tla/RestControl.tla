---------------------------- MODULE RestControl ----------------------------
(***************************************************************************)
(* The control endpoints of crates/rest-api: authentication, the           *)
(* concurrency gate, the submission through the adapter, the ledger that   *)
(* answers status queries, and the tasks that wait for results; with the   *)
(* read-only endpoints that share the gate, and the stop of the server.    *)
(*                                                                         *)
(* The control engine is seen through its promise for one idempotency key  *)
(* (ControlSubmit shows how it keeps it): the key is refused before it is  *)
(* registered, or accepted by at most one submission, settled in the       *)
(* journal and then replied to; equal submissions share the result,        *)
(* different ones conflict.  A worker that dies between the two makes the  *)
(* engine settle the key again, and with another result.  There is one     *)
(* namespace per adapter, so a key is a device and a request id.           *)
(***************************************************************************)
EXTENDS ControlAccess, Integers, FiniteSets

CONSTANTS
    Calls,          \* HTTP exchanges in flight at one time
    Requests,       \* what clients send
    Capacity,       \* REQUEST_LEDGER_CAPACITY
    MaxConcurrency, \* permits of the gate
    MaxWaiters,     \* bound: a key with as many waiting tasks is not sent again
    MaxTrouble      \* bound: failed inserts of the journal, clients that disconnect
                    \* inside submit, dead workers, purged records and restarts, together

Submits == {r \in Requests : r.kind = "submit"}
Key(r) == <<r.device, r.id>>
Keys == {Key(r) : r \in Submits}

ASSUME RestAssumption ==
    /\ IsFiniteSet(Calls)
    /\ Capacity \in Nat \ {0} /\ MaxConcurrency \in Nat \ {0}
    /\ MaxWaiters \in Nat \ {0} /\ MaxTrouble \in Nat

VARIABLES
    call,       \* the state of each exchange
    entries,    \* LedgerInner.entries: key -> result, "running" without one
    byQuery,    \* LedgerInner.by_query
    order,      \* LedgerInner.order
    waiters,    \* how many tasks wait for the receipt of each key
    engine,     \* what the engine knows of each key: the record of the journal, what the
                \* worker is about to reply, and the reply that the receipts share
    unsure,     \* keys whose worker died while it settled them (history)
    server,     \* "up" or "down": the serve task
    closed,     \* ControlEngine is shut down
    authorised, \* keys that a subject with a sufficient role asked for (history)
    forgotten,  \* keys the ledger may know and the journal not: refused for want
                \* of a record, or purged (history)
    trouble     \* failures so far

ledger == <<entries, byQuery, order>>
vars == <<call, entries, byQuery, order, waiters, engine, unsure, server, closed,
          authorised, forgotten, trouble>>

-----------------------------------------------------------------------------
NoRequest == [kind |-> "none"]
Unset == <<"none", "">>
Idle == [stage |-> "idle", req |-> NoRequest, receipt |-> Unset]

Unknown == [state |-> "none", hash |-> "", result |-> Unset, holds |-> Unset, reply |-> Unset]
Results == {<<"Succeeded", "">>, <<"Indeterminate", "">>, <<"Cancelled", "">>}
Inherited == {<<"Indeterminate", "">>, <<"Cancelled", "">>}
Running == <<"running", "">>
Rejected(code) == <<"Rejected", code>>

(* The permits in use: an exchange holds one from acquire to its answer.    *)
Holding == {c \in Calls : call[c].stage \in {"in", "returned"}}

Subject(r) == (CHOOSE e \in Authenticate(Credentials, r.token) : TRUE).subject
TokenRole(r) == (CHOOSE e \in Authenticate(Credentials, r.token) : TRUE).role

(* The handler returns, with a status: the slot can be used again.          *)
Answer(c) == call' = [call EXCEPT ![c] = Idle]

Trouble == trouble < MaxTrouble /\ trouble' = trouble + 1

Init ==
    /\ call = [c \in Calls |-> Idle]
    /\ entries = <<>> /\ byQuery = <<>> /\ order = <<>>
    /\ waiters = [k \in Keys |-> 0]
    /\ engine = [k \in Keys |-> Unknown] /\ unsure = {}
    /\ server = "up" /\ closed = FALSE
    /\ authorised = {} /\ forgotten = {}
    /\ trouble = 0

-----------------------------------------------------------------------------
(* The ledger *)

(* Mutant of QueryKey: the request id alone, as if it were global. *)
QueryKeyById(k) == <<"any", k[2]>>

(* The key under which a status query looks an entry up. *)
QueryKey(k) == k

(* Mutant of Evictable: the oldest entry goes, finished or not. *)
EvictableAny(l) == {i \in DOMAIN l.order : l.order[i] \in DOMAIN l.entries}

(* Running entries are never evicted.                                       *)
Evictable(l) ==
    {i \in DOMAIN l.order : l.order[i] \in DOMAIN l.entries /\ l.entries[l.order[i]] # Running}

Without(f, S) == [y \in DOMAIN f \ S |-> f[y]]
With(f, x, v) == [y \in DOMAIN f \cup {x} |-> IF y = x THEN v ELSE f[y]]
Remaining(q, gone) == SelectSeq(q, LAMBDA k : k \notin gone)

(* evict_oldest_settled, for the keys of the entries that go.               *)
Evict(l, gone) ==
    LET found == {k \in gone : QueryKey(k) \in DOMAIN l.byQuery /\ l.byQuery[QueryKey(k)] = k}
    IN  [entries |-> Without(l.entries, gone),
         byQuery |-> Without(l.byQuery, {QueryKey(k) : k \in found}),
         order |-> Remaining(l.order, gone)]

(* The loop of register: the oldest settled entries go until there is room  *)
(* for one more, as far as there are any.                                   *)
MakeRoom(l) ==
    LET surplus == Cardinality(DOMAIN l.entries) + 1 - Capacity
        older(i) == {j \in Evictable(l) : j < i}
    IN  Evict(l, {l.order[i] : i \in {i \in Evictable(l) : Cardinality(older(i)) < surplus}})

(* Mutant of RegisterKnown: the retry of a finished request shows as running. *)
RegisterKnownAnew(l, k, r) == [l EXCEPT !.entries[k] = r]

(* register of a key that has an entry: only a result changes it.           *)
RegisterKnown(l, k, r) == IF r = Running THEN l ELSE [l EXCEPT !.entries[k] = r]

(* register; r is Running for an accepted request without a result.         *)
Register(l, k, r) ==
    IF k \in DOMAIN l.entries THEN RegisterKnown(l, k, r)
    ELSE LET m == MakeRoom(l)
         IN  [entries |-> With(m.entries, k, r),
              byQuery |-> With(m.byQuery, QueryKey(k), k),
              order |-> Append(m.order, k)]

Ledger == [entries |-> entries, byQuery |-> byQuery, order |-> order]
LedgerBecomes(l) == entries' = l.entries /\ byQuery' = l.byQuery /\ order' = l.order

(* query: unknown, running or settled with a result.                        *)
Query(k) ==
    IF QueryKey(k) \in DOMAIN byQuery /\ byQuery[QueryKey(k)] \in DOMAIN entries
    THEN entries[byQuery[QueryKey(k)]] ELSE <<"unknown", "">>

-----------------------------------------------------------------------------
(* A request arrives *)

(* Path, authentication and, for a status query, the segments and the role  *)
(* are checked before the gate; a request that fails here is answered at    *)
(* once and changes nothing.  The read-only endpoints ask for no token.     *)
FrontCheck(r) ==
    CASE r.kind # "read" /\ Authenticate(Credentials, r.token) = {} -> "UNAUTHENTICATED"
      [] ~r.path -> "BAD_REQUEST"
      [] r.kind = "status" /\ ~role_ordering(TokenRole(r), StatusRequiredRole) -> "INSUFFICIENT_ROLE"
      [] OTHER -> "ok"

(* acquire: a permit of the gate.  A request waits for one without effect,  *)
(* and is answered 503 after CONCURRENCY_WAIT, again without effect.        *)
Acquire == Cardinality(Holding) < MaxConcurrency

Arrive(c, r) ==
    /\ server = "up"
    /\ call[c].stage = "idle"
    /\ FrontCheck(r) = "ok"
    /\ r.kind = "submit" => waiters[Key(r)] < MaxWaiters
    /\ Acquire
    /\ call' = [call EXCEPT ![c] = [stage |-> "in", req |-> r, receipt |-> Unset]]
    /\ UNCHANGED <<ledger, waiters, engine, unsure, server, closed, authorised, forgotten, trouble>>

(* What only reads: the snapshot behind devices, device, resources,         *)
(* properties, health and metrics; the ledger behind control_status.        *)
Reads == {"read", "status"}

Read(c) ==
    /\ call[c].stage = "in" /\ call[c].req.kind \in Reads
    /\ Answer(c)
    /\ UNCHANGED <<ledger, waiters, engine, unsure, server, closed, authorised, forgotten, trouble>>

-----------------------------------------------------------------------------
(* Submission *)

InSubmit(c) == call[c].stage = "in" /\ call[c].req.kind = "submit"
Returns(c, receipt) ==
    call' = [call EXCEPT ![c].stage = "returned", ![c].receipt = receipt]

(* parse_submission fails: the engine is not asked.                         *)
Malformed(c) ==
    /\ InSubmit(c) /\ call[c].req.op = "malformed"
    /\ Answer(c)
    /\ UNCHANGED <<ledger, waiters, engine, unsure, server, closed, authorised, forgotten, trouble>>

WellFormed(c) == InSubmit(c) /\ call[c].req.op # "malformed"

(* Refused before the idempotency record: a closed engine, an empty id, or  *)
(* what Admission says.                                                     *)
SubmitRefused(c) ==
    LET r == call[c].req
        code == Admission(Subject(r), r.device, r.op)
    IN  /\ WellFormed(c)
        /\ \/ closed /\ Returns(c, <<"Err", "ENGINE_CLOSED">>)
           \/ ~closed /\ r.id = Empty /\ Returns(c, <<"Err", "EMPTY_REQUEST_ID">>)
           \/ /\ ~closed /\ r.id # Empty /\ code # "ok"
              /\ Returns(c, Rejected(code))
        /\ authorised' = IF MayAsk(Subject(r), r.device, r.op)
                         THEN authorised \cup {Key(r)} ELSE authorised
        /\ UNCHANGED <<ledger, waiters, engine, unsure, server, closed, forgotten, trouble>>

Admitted(c) ==
    LET r == call[c].req
    IN  WellFormed(c) /\ ~closed /\ r.id # Empty /\ Admission(Subject(r), r.device, r.op) = "ok"

Authorised(c) == authorised' = authorised \cup {Key(call[c].req)}

(* The insert into the journal fails: nothing is recorded.                  *)
SubmitUnrecorded(c) ==
    /\ Admitted(c)
    /\ engine[Key(call[c].req)].state = "none"
    /\ Trouble
    /\ Returns(c, Rejected("JOURNAL_UNAVAILABLE"))
    /\ forgotten' = forgotten \cup {Key(call[c].req)}
    /\ Authorised(c)
    /\ UNCHANGED <<ledger, waiters, engine, unsure, server, closed>>

(* A new record; a request that is refused has its reply at once.           *)
Becomes(k, hash, state, result) ==
    engine' = [engine EXCEPT ![k] = [state |-> state, hash |-> hash, result |-> result,
                                     holds |-> Unset, reply |-> result]]

(* An equal submission, whose insert failed, has not taken its entry of the *)
(* active map away yet: the record is inserted, but not executed.           *)
Raced(c) ==
    \E d \in Calls \ {c} :
        /\ call[d].stage = "returned" /\ Key(call[d].req) = Key(call[c].req)
        /\ call[d].receipt = Rejected("JOURNAL_UNAVAILABLE")

(* A new key: validation decides, then the queue of the device, which may   *)
(* be full or cooling down.                                                 *)
SubmitNew(c) ==
    LET r == call[c].req
        k == Key(r)
        refusals == IF Raced(c) THEN {"IDEMPOTENCY_RACE"}
                    ELSE IF r.valid THEN {"QUEUE_FULL"} ELSE {"VALUE_OUT_OF_RANGE"}
    IN  /\ Admitted(c) /\ engine[k].state = "none"
        /\ \/ /\ r.valid /\ ~Raced(c)
              /\ Returns(c, <<"Pending", "">>)
              /\ Becomes(k, r.hash, "running", Unset)
           \/ \E code \in refusals :
                 /\ Returns(c, Rejected(code))
                 /\ Becomes(k, r.hash, "settled", Rejected(code))
        /\ Authorised(c)
        /\ UNCHANGED <<ledger, waiters, unsure, server, closed, forgotten, trouble>>

(* A key the engine knows: another payload conflicts, an equal one shares.  *)
SubmitAgain(c) ==
    LET r == call[c].req
        rec == engine[Key(r)]
    IN  /\ Admitted(c) /\ rec.state # "none"
        /\ Returns(c, IF rec.hash # r.hash THEN <<"Err", "IDEMPOTENCY_CONFLICT">>
                      ELSE IF rec.state = "settled" THEN rec.result
                      ELSE <<"Pending", "">>)
        /\ Authorised(c)
        /\ UNCHANGED <<ledger, waiters, engine, unsure, server, closed, forgotten, trouble>>

(* The client disconnects while submit waits for the disk: the handler is   *)
(* dropped.  A record may be left that nobody will ever run.                *)
Disconnect(c) ==
    LET k == Key(call[c].req)
    IN  /\ Admitted(c)
        /\ Trouble
        /\ call' = [call EXCEPT ![c] = Idle]
        /\ \/ UNCHANGED engine
           \/ /\ engine[k].state = "none"
              /\ Becomes(k, call[c].req.hash, "abandoned", Unset)
        /\ Authorised(c)
        /\ UNCHANGED <<ledger, waiters, unsure, server, closed, forgotten>>

(* is_authorization_rejection *)
DeniedReceipt(receipt) == receipt \in {Rejected("INSUFFICIENT_ROLE"), Rejected("UNKNOWN_SUBJECT")}

(* The status the client sees for a receipt.                                *)
ReplyStatus(receipt) ==
    CASE receipt[1] = "Err" -> SubmitErrorStatus(receipt[2])
      [] receipt[1] = "Rejected" -> RejectedStatus(receipt[2])
      [] OTHER -> 202

(* EngineControlAdapter::submit after the engine's answer: the ledger, the  *)
(* waiting task, and the reply.                                             *)
Reply(c) ==
    LET receipt == call[c].receipt
        k == Key(call[c].req)
    IN  /\ call[c].stage = "returned"
        /\ IF receipt[1] = "Err" \/ DeniedReceipt(receipt)
           THEN UNCHANGED <<ledger, waiters>>
           ELSE IF receipt[1] = "Pending"
           THEN /\ LedgerBecomes(Register(Ledger, k, Running))
                /\ waiters' = [waiters EXCEPT ![k] = @ + 1]
           ELSE /\ LedgerBecomes(Register(Ledger, k, receipt))
                /\ UNCHANGED waiters
        /\ Answer(c)
        /\ UNCHANGED <<engine, unsure, server, closed, authorised, forgotten, trouble>>

(* The task that waits for the receipt records the reply, over whatever a   *)
(* retry has read from the journal and recorded before.                     *)
Waiter(k) ==
    /\ waiters[k] > 0 /\ engine[k].reply # Unset
    /\ waiters' = [waiters EXCEPT ![k] = @ - 1]
    /\ LedgerBecomes(Register(Ledger, k, engine[k].reply))
    /\ UNCHANGED <<call, engine, unsure, server, closed, authorised, forgotten, trouble>>

-----------------------------------------------------------------------------
(* The engine, the server and the process *)

(* settle_entry is under way or still to come.                              *)
Unreplied(k) == engine[k].state \in {"running", "settled"} /\ engine[k].reply = Unset

(* The journal is settled, once more if the worker before died: what that   *)
(* one left is Indeterminate or, found in draining, Cancelled.              *)
Settle(k) ==
    /\ Unreplied(k) /\ engine[k].holds = Unset
    /\ \E res \in IF k \in unsure THEN Inherited ELSE Results :
          engine' = [engine EXCEPT ![k].state = "settled", ![k].result = res, ![k].holds = res]
    /\ UNCHANGED <<call, ledger, waiters, unsure, server, closed, authorised, forgotten, trouble>>

(* After the audit event, the reply.                                        *)
Deliver(k) ==
    /\ engine[k].holds # Unset
    /\ engine' = [engine EXCEPT ![k].reply = engine[k].holds, ![k].holds = Unset]
    /\ UNCHANGED <<call, ledger, waiters, unsure, server, closed, authorised, forgotten, trouble>>

(* The worker panics or is aborted while it waits for the journal or the    *)
(* audit sink: there is no reply, and the entry will be settled again.      *)
WorkerDies(k) ==
    /\ Unreplied(k)
    /\ Trouble
    /\ engine' = [engine EXCEPT ![k].holds = Unset]
    /\ unsure' = unsure \cup {k}
    /\ UNCHANGED <<call, ledger, waiters, server, closed, authorised, forgotten>>

(* The journal task that the dead worker waited for writes its result after *)
(* all; the last writer wins.                                               *)
LateWrite(k) ==
    /\ k \in unsure
    /\ \E res \in Results :
          engine' = [engine EXCEPT ![k].state = "settled", ![k].result = res]
    /\ UNCHANGED <<call, ledger, waiters, unsure, server, closed, authorised, forgotten, trouble>>

(* The record is purged after the retention, long after its waiters, and    *)
(* whatever a dead worker has left, ended.                                  *)
Expire(k) ==
    /\ engine[k].reply # Unset /\ waiters[k] = 0
    /\ \A c \in Calls : call[c].stage = "returned" => Key(call[c].req) # k
    /\ Trouble
    /\ engine' = [engine EXCEPT ![k] = Unknown]
    /\ forgotten' = forgotten \cup {k} /\ unsure' = unsure \ {k}
    /\ UNCHANGED <<call, ledger, waiters, server, closed, authorised>>

(* RestApiServer::shutdown: no new connection.  The open ones have a grace, *)
(* after which only the accepting task is aborted: their handlers go on.    *)
(* The engine is shut down after the server; it settles what it has.        *)
Stop ==
    /\ server = "up"
    /\ server' = "down"
    /\ UNCHANGED <<call, ledger, waiters, engine, unsure, closed, authorised, forgotten, trouble>>

CloseEngine ==
    /\ server = "down" /\ ~closed
    /\ closed' = TRUE
    /\ UNCHANGED <<call, ledger, waiters, engine, unsure, server, authorised, forgotten, trouble>>

(* A settled record has its reply; nothing of the old process settles it.   *)
Recovered(rec) ==
    LET res == IF rec.state = "settled" THEN rec.result ELSE <<"Indeterminate", "">>
    IN  [rec EXCEPT !.state = "settled", !.result = res, !.holds = Unset, !.reply = res]

(* A new process: the ledger is gone, unfinished records are Indeterminate. *)
Restart ==
    /\ closed
    /\ Trouble
    /\ call' = [c \in Calls |-> Idle]
    /\ entries' = <<>> /\ byQuery' = <<>> /\ order' = <<>>
    /\ waiters' = [k \in Keys |-> 0]
    /\ engine' = [k \in Keys |->
                     IF engine[k].state = "none" THEN Unknown ELSE Recovered(engine[k])]
    /\ unsure' = {}
    /\ server' = "up" /\ closed' = FALSE
    /\ UNCHANGED <<authorised, forgotten>>

-----------------------------------------------------------------------------
Next ==
    \/ \E c \in Calls : \/ \E r \in Requests : Arrive(c, r)
                        \/ Read(c) \/ Malformed(c)
                        \/ SubmitRefused(c) \/ SubmitUnrecorded(c)
                        \/ SubmitNew(c) \/ SubmitAgain(c)
                        \/ Disconnect(c) \/ Reply(c)
    \/ \E k \in Keys : \/ Waiter(k) \/ Expire(k)
                       \/ Settle(k) \/ Deliver(k) \/ WorkerDies(k) \/ LateWrite(k)
    \/ Stop \/ CloseEngine \/ Restart

Spec == Init /\ [][Next]_vars

-----------------------------------------------------------------------------
(* Properties *)

TypeOK ==
    /\ \A c \in Calls : call[c].stage \in {"idle", "in", "returned"}
    /\ DOMAIN entries \subseteq Keys
    /\ order \in Seq(Keys)
    /\ waiters \in [Keys -> Nat]
    /\ server \in {"up", "down"}
    /\ Cardinality(Holding) <= MaxConcurrency

(* A request that the client was told is accepted, and that may still act,  *)
(* is never unknown to the status endpoint.                                 *)
AcceptedIsFindable ==
    \A k \in Keys \ forgotten : 
        waiters[k] > 0 /\ engine[k].state = "running" => Query(k) # <<"unknown", "">>

(* 202 is promised only for a request that the engine has on record, so     *)
(* that a retry after a restart cannot run it a second time.                *)
PromiseIsRecorded ==
    \A c \in Calls :
        call[c].stage = "returned" /\ ReplyStatus(call[c].receipt) = 202 =>
            engine[Key(call[c].req)].state # "none"

(* Nothing is recorded about a key on behalf of subjects that may not ask   *)
(* for it.                                                                  *)
OnlyAuthorised ==
    \A k \in Keys : Query(k) # <<"unknown", "">> => k \in authorised

(* While the engine may still act for a key, its status is not a result,    *)
(* and a result is the one on record, except for a key whose worker died    *)
(* while it settled it; exempt are keys the engine has forgotten (refused   *)
(* without a record, or purged) and the ledger has not.                     *)
StatusTruthful ==
    \A k \in Keys \ forgotten :
        Query(k) \notin {Running, <<"unknown", "">>} =>
            /\ engine[k].state \in {"settled", "none"}
            /\ engine[k].state = "settled" /\ k \notin unsure => Query(k) = engine[k].result

(* An entry that shows as running has a task that will replace it by the   *)
(* result: no entry is left running once the last waiter has ended.         *)
RunningIsAttended ==
    \A k \in Keys : Query(k) = Running => waiters[k] > 0

(* 202 is a promise: the request is on record and can be asked for until    *)
(* its action has ended (post_control, ControlLedger::register).            *)
PromiseKept == PromiseIsRecorded /\ AcceptedIsFindable

(* What the status endpoint shows is what the engine does, it does not show *)
(* running for ever, and it shows nothing of requests nobody was allowed to *)
(* make (ControlLedger, query_control).                                     *)
StatusRight == StatusTruthful /\ RunningIsAttended /\ OnlyAuthorised

(* A result of an execution that the status endpoint has shown stays until  *)
(* it is evicted or the process ends: a retry or a second waiting task does *)
(* not take it back.  Only where a worker died while it settled the key may *)
(* the result of another settlement replace it, never running.              *)
ResultStands ==
    [][\A k \in Keys \ forgotten' :
          Query(k) \in Results =>
              \/ Query(k)' \in {Query(k), <<"unknown", "">>}
              \/ k \in unsure /\ Query(k)' \in Results]_vars

(* Does not hold (README, Findings): register overwrites a result that a    *)
(* retry was shown with the reply of a later settlement of the same key.    *)
ShownForGood ==
    [][\A k \in Keys \ forgotten' :
          Query(k) \in Results => Query(k)' \in {Query(k), <<"unknown", "">>}]_vars
=============================================================================
