----------------------------- MODULE MqttWorker -----------------------------
(***************************************************************************)
(* The MQTT client: callers queue publications, one worker task forwards   *)
(* them to rumqttc, drives its event loop and settles the receipts by      *)
(* packet identifier.                                                      *)
(*   crates/mqtt-client/src/client.rs   MqttClient, run_worker             *)
(* rumqttc (external) is modelled from the contract client.rs relies on:   *)
(* a window of identifiers, one slot for a message whose identifier is     *)
(* still taken, resends under the old identifiers after a reconnect.       *)
(* A publication is [id, kind, dev]; id 0 is one the worker makes itself.  *)
(***************************************************************************)
EXTENDS Integers, FiniteSets, SequencesExt

CONSTANTS
    Devices,        \* devices with a status topic (numbers: BTreeSet order)
    WillDevice,     \* the device of the LWT, 0 without one
    Scenarios,      \* [calls, reorder, losses, late]: the calls [kind, dev] in order; the
                    \* broker may acknowledge in any order; bounds on the connection
                    \* losses, and on those during the shutdown
    Cap,            \* publish_capacity
    Window,         \* max_inflight
    MaxRetries      \* max_reconnect_retries

ASSUME MWAssumption ==
    /\ Devices \subseteq Nat \ {0} /\ WillDevice \in Devices \cup {0}
    /\ Scenarios \subseteq [calls : Seq([kind : {"data", "online", "offline"}, dev : Devices]),
                            reorder : BOOLEAN, losses : Nat, late : Nat]
    /\ {Cap, Window, MaxRetries} \subseteq Nat \ {0}

VARIABLES
    scenario, sent, \* the scenario, and how many calls were made
    stop,           \* MqttClient::shutdown was called
    chan,           \* request channel
    result,         \* per call: "open" or how its receipt was settled
    pc,             \* worker: "top" | "select" | "backoff" | "offline" | "disconnect" | "flush" | "ended"
    connected, failures,
    queues,         \* [pending, online, republish, needs, gauge]
    awaiting,       \* awaiting_ack: [msg, counted, pkid, parked, leftover]; 0 is None
    lastPuback,
    collision,      \* [pkid, recovered, reset]: the worker's three collision variables
    asked, written, \* DISCONNECT was queued, was written
    net,            \* rumqttc has a connection
    rchan, resend,  \* rumqttc: its channel and EventLoop::pending, of [msg, pkid]
    slots,          \* rumqttc: unacknowledged publications by identifier
    slot,           \* rumqttc: the collided publication
    ids,            \* rumqttc: [last, acked], last_pkid and last_puback
    events,         \* rumqttc: events not yet returned by poll
    wire, acks,     \* packets to the broker, identifiers on their way back
    got,            \* calls whose publication the broker has received
    retained,       \* broker: retained status per device
    will,           \* broker: the will is armed
    losses,         \* connection losses so far
    astray          \* a loss came when reset_pkids cannot follow rumqttc, or was not
                    \* followed by it at all (history)

callVars == <<scenario, sent, stop>>
ackVars == <<awaiting, collision, result>>
rumqttc == <<net, rchan, resend, slots, slot, ids>>
brokerVars == <<wire, acks, got, retained, will, losses>>
stopVars == <<asked, written>>
linkVars == <<connected, failures>>
vars == <<callVars, chan, pc, linkVars, queues, ackVars, lastPuback, stopVars,
          rumqttc, events, brokerVars, astray>>

Nil == [id |-> 0, kind |-> "none", dev |-> 0]
Status(kind, d) == [id |-> 0, kind |-> kind, dev |-> d]
Disconnect == Status("disconnect", 0)
Request(m, counted) == [msg |-> m, counted |-> counted]
Entry(r) == [msg |-> r.msg, counted |-> r.counted, pkid |-> 0, parked |-> 0, leftover |-> FALSE]

\* Receipts of the calls in S, settled with r; a publication of the worker
\* itself has no receipt.
Settle(S, r) == result' = [i \in DOMAIN result |-> IF i \in S THEN r ELSE result[i]]
IdsOf(q) == {q[i].msg.id : i \in DOMAIN q}
Counted(q) == Cardinality({i \in DOMAIN q : q[i].counted})

----------------------------------------------------------------------------
(* The queues in front of rumqttc. *)

\* step_online_republish: tracked devices move to pending while it has room.
Republish(q) ==
    LET n == IF Len(q.republish) < Cap - Len(q.pending)
             THEN Len(q.republish) ELSE Cap - Len(q.pending)
        new == [i \in 1 .. n |-> Request(Status("online", q.republish[i]), TRUE)]
    IN  [q EXCEPT !.pending = @ \o new,
                  !.republish = SubSeq(@, n + 1, Len(@)),
                  !.needs = ~(Len(q.pending) + n < Cap),
                  !.gauge = @ + n]

\* The pending online publications a deregistration withdraws.
Withdrawn(q, m) ==
    IF m.kind = "offline"
    THEN SelectSeq(q.pending, LAMBDA r : r.msg.kind = "online" /\ r.msg.dev = m.dev)
    ELSE <<>>

\* accept_request.
Accept(q, m) ==
    [q EXCEPT !.pending = Append(SelectSeq(@, LAMBDA r : r \notin Range(Withdrawn(q, m))),
                                 Request(m, TRUE)),
              !.online = IF m.kind = "offline" THEN @ \ {m.dev} ELSE @,
              !.republish = IF m.kind = "offline" THEN SelectSeq(@, LAMBDA d : d # m.dev) ELSE @,
              !.gauge = @ + 1 - Counted(Withdrawn(q, m))]

\* The try_recv loop: requests are accepted in order while pending has room.
Receive(q, reqs) ==
    FoldLeft(LAMBDA a, m : IF a.rest = <<>> /\ Len(a.q.pending) < Cap
                           THEN [a EXCEPT !.q = Accept(@, m),
                                          !.gone = @ \cup IdsOf(Withdrawn(a.q, m))]
                           ELSE [a EXCEPT !.rest = Append(@, m)],
             [q |-> q, rest |-> <<>>, gone |-> {}], reqs)

\* forward_pending: the first requests, at most limit, move to rumqttc's
\* channel while it has room; an online status is tracked from now on.  Every
\* error of try_publish is TryRequest, the channel is full: the topics were
\* validated by accept_request.
Forward(q, limit) ==
    LET room == Cap - Len(rchan)
        k == CHOOSE n \in 0 .. limit : /\ n <= room /\ n <= Len(q.pending)
                                       /\ n = limit \/ n = room \/ n = Len(q.pending)
        first == SubSeq(q.pending, 1, k)
    IN  /\ rchan' = rchan \o [i \in 1 .. k |-> [msg |-> first[i].msg, pkid |-> 0]]
        /\ awaiting' = awaiting \o [i \in 1 .. k |-> Entry(first[i])]
        /\ queues' = [q EXCEPT !.pending = SubSeq(@, k + 1, Len(@)),
                               !.online = @ \cup {r.msg.dev : r \in {x \in Range(first) : x.msg.kind = "online"}}]

----------------------------------------------------------------------------
(* Receipts by packet identifier. *)

\* The first entry whose field has the value, 0 when there is none.
First(field, n) == LET S == {i \in DOMAIN awaiting : awaiting[i][field] = n}
                   IN  IF S = {} THEN 0 ELSE CHOOSE i \in S : \A j \in S : i <= j

\* The oldest entry without an identifier that is not parked.
Oldest(aw) == LET S == {i \in DOMAIN aw : aw[i].pkid = 0 /\ aw[i].parked = 0}
              IN  IF S = {} THEN 0 ELSE CHOOSE i \in S : \A j \in S : i <= j

\* assign_pkid.
Assign(aw, pkid) ==
    LET e == Oldest(aw)
    IN  IF e = 0 THEN aw ELSE [aw EXCEPT ![e].pkid = pkid]

\* Mutant: a write of the identifier always ends the collision.
PublishEventUnparks(pkid) ==
    LET e == First("parked", pkid)
    IN  /\ awaiting' = Assign(IF e # 0 THEN [awaiting EXCEPT ![e].parked = 0] ELSE awaiting, pkid)
        /\ collision' = IF e # 0 THEN [collision EXCEPT !.pkid = 0, !.recovered = FALSE] ELSE collision
        /\ UNCHANGED <<result, queues>>

\* on_publish_event: the write that ends a collision unparks its entry; the
\* first write of that identifier after a reconnect is only the resend.
OnPublishEvent(pkid) ==
    LET e == First("parked", pkid)
        ends == collision.recovered \/ ~collision.reset
    IN  /\ awaiting' = Assign(IF e # 0 /\ ends THEN [awaiting EXCEPT ![e].parked = 0] ELSE awaiting, pkid)
        /\ collision' = CASE e = 0 -> collision
                          [] e # 0 /\ ends -> [collision EXCEPT !.pkid = 0, !.recovered = FALSE]
                          [] OTHER -> [collision EXCEPT !.reset = FALSE]
        /\ UNCHANGED <<result, queues>>

\* park_collided: that entry waits in rumqttc's collision slot.
ParkCollided(aw, pkid) ==
    LET e == Oldest(aw)
    IN  /\ awaiting' = IF e = 0 THEN aw ELSE [aw EXCEPT ![e].parked = pkid]
        /\ collision' = [collision EXCEPT !.recovered = FALSE, !.pkid = IF e = 0 THEN @ ELSE pkid]

\* Mutant: the entry of the older collision stays parked.
AwaitAckForgets(pkid) ==
    /\ ParkCollided(awaiting, pkid)
    /\ UNCHANGED <<result, queues>>

\* on_await_ack_event: the entry of an older collision can never be written
\* any more and fails; the oldest entry without an identifier is parked.
OnAwaitAckEvent(pkid) ==
    LET old == IF collision.pkid # 0 THEN First("parked", collision.pkid) ELSE 0
    IN  /\ Settle(IF old = 0 THEN {} ELSE {awaiting[old].msg.id}, "overwritten")
        /\ queues' = [queues EXCEPT !.gauge = @ - (IF old # 0 /\ awaiting[old].counted THEN 1 ELSE 0)]
        /\ ParkCollided(IF old = 0 THEN awaiting ELSE RemoveAt(awaiting, old), pkid)

\* on_puback_event, resolve_puback: the first entry with the identifier.
OnPubackEvent(pkid) ==
    LET e == First("pkid", pkid)
    IN  /\ collision' = [collision EXCEPT !.recovered = @ \/ collision.pkid = pkid]
        /\ Settle(IF e = 0 THEN {} ELSE {awaiting[e].msg.id}, "ok")
        /\ queues' = [queues EXCEPT !.gauge = @ - (IF e # 0 /\ awaiting[e].counted THEN 1 ELSE 0)]
        /\ awaiting' = IF e = 0 THEN awaiting ELSE RemoveAt(awaiting, e)

\* reset_pkids: the order in which rumqttc will send again - what the last
\* session did not resend, the identifiers in flight from last_puback on, then
\* what was still in the channel.
ResetPkids ==
    LET key(e) == CASE e.pkid = 0 /\ e.leftover -> 0
                    [] e.pkid # 0 /\ e.pkid > lastPuback -> e.pkid
                    [] e.pkid # 0 /\ e.pkid <= lastPuback -> Window + e.pkid
                    [] OTHER -> 2 * Window + 1
        before(i, j) == \/ key(awaiting[i]) < key(awaiting[j])
                        \/ key(awaiting[i]) = key(awaiting[j]) /\ i < j
        order == SetToSortSeq(DOMAIN awaiting, before)
    IN  [i \in DOMAIN awaiting |-> [awaiting[order[i]] EXCEPT !.pkid = 0, !.leftover = TRUE]]

\* fail_all_queued, at the end of the worker.
FailAllQueued(err) ==
    /\ Settle({m.id : m \in Range(chan)} \cup IdsOf(queues.pending) \cup IdsOf(awaiting), err)
    /\ queues' = [queues EXCEPT !.pending = <<>>,
                                !.gauge = @ - Counted(queues.pending) - Counted(awaiting)]
    /\ awaiting' = <<>>
    /\ chan' = <<>>
    /\ pc' = "ended"

----------------------------------------------------------------------------
Init ==
    /\ scenario \in Scenarios /\ sent = 0 /\ stop = FALSE
    /\ chan = <<>> /\ result = [i \in DOMAIN scenario.calls |-> "open"]
    /\ pc = "top" /\ connected = FALSE /\ failures = 0
    /\ queues = [pending |-> <<>>, online |-> {}, republish |-> <<>>, needs |-> FALSE, gauge |-> 0]
    /\ awaiting = <<>> /\ lastPuback = 0
    /\ collision = [pkid |-> 0, recovered |-> FALSE, reset |-> FALSE]
    /\ asked = FALSE /\ written = FALSE
    /\ net = FALSE /\ rchan = <<>> /\ resend = <<>>
    /\ slots = [p \in 1 .. Window |-> Nil] /\ slot = [msg |-> Nil, pkid |-> 0]
    /\ ids = [last |-> 0, acked |-> 0] /\ events = <<>>
    /\ wire = <<>> /\ acks = <<>> /\ got = {}
    /\ retained = [d \in Devices |-> "none"] /\ will = FALSE
    /\ losses = 0 /\ astray = FALSE

(* Callers. *)

\* publish_inner: the request enters the channel, or the worker is gone.
Publish ==
    /\ sent < Len(scenario.calls) /\ ~stop
    /\ sent' = sent + 1
    /\ LET m == [id |-> sent + 1, kind |-> scenario.calls[sent + 1].kind, dev |-> scenario.calls[sent + 1].dev]
       IN  \/ /\ pc # "ended" /\ Len(chan) < Cap
              /\ chan' = Append(chan, m)
              /\ UNCHANGED result
           \/ /\ pc = "ended"
              /\ Settle({m.id}, "closed")
              /\ UNCHANGED chan
    /\ UNCHANGED <<scenario, stop, pc, linkVars, queues, awaiting, collision, lastPuback, stopVars,
                   rumqttc, events, brokerVars, astray>>

Shutdown ==
    /\ ~stop
    /\ stop' = TRUE
    /\ UNCHANGED <<scenario, sent, chan, pc, linkVars, queues, ackVars, lastPuback, stopVars,
                   rumqttc, events, brokerVars, astray>>

(* The worker's loop. *)

\* The part of an iteration before select!: republish, receive, forward.
Prepare ==
    /\ pc = "top" /\ pc' = "select"
    /\ \/ /\ ~connected
          /\ UNCHANGED <<chan, queues, ackVars, rchan>>
       \/ /\ connected
          /\ LET q == IF queues.needs THEN Republish(queues) ELSE queues
                 r == Receive(q, chan)
             IN  /\ Forward(r.q, Len(r.q.pending))
                 /\ chan' = r.rest
                 /\ Settle(r.gone, "closed")
          /\ UNCHANGED collision
    /\ UNCHANGED <<callVars, linkVars, lastPuback, stopVars, net, resend, slots, slot, ids,
                   events, brokerVars, astray>>

\* The recv branch.
RecvRequest ==
    /\ pc = "select" /\ connected /\ chan # <<>> /\ Len(queues.pending) < Cap
    /\ queues' = Accept(queues, Head(chan))
    /\ Settle(IdsOf(Withdrawn(queues, Head(chan))), "closed")
    /\ chan' = Tail(chan)
    /\ pc' = "top"
    /\ UNCHANGED <<callVars, linkVars, awaiting, collision, lastPuback, stopVars, rumqttc,
                   events, brokerVars, astray>>

HandleEvent(ev) ==
    \/ ev.kind = "publish" /\ OnPublishEvent(ev.pkid)
    \/ ev.kind = "await" /\ OnAwaitAckEvent(ev.pkid)
    \/ ev.kind = "puback" /\ OnPubackEvent(ev.pkid)
    \/ ev.kind = "disconnect" /\ UNCHANGED <<ackVars, queues>>

\* The poll branch with an event.
PollEvent ==
    /\ pc = "select" /\ events # <<>>
    /\ HandleEvent(Head(events))
    /\ lastPuback' = IF Head(events).kind = "puback" THEN Head(events).pkid ELSE lastPuback
    /\ connected' = TRUE /\ failures' = 0
    /\ events' = Tail(events)
    /\ pc' = "top"
    /\ UNCHANGED <<callVars, chan, stopVars, rumqttc, brokerVars, astray>>

\* The poll branch with the ConnAck of a new connection.
Connect ==
    /\ pc = "select" /\ ~net
    /\ net' = TRUE /\ will' = TRUE
    /\ connected' = TRUE /\ failures' = 0
    /\ pc' = "top"
    /\ UNCHANGED <<callVars, chan, queues, ackVars, lastPuback, stopVars, rchan, resend, slots,
                   slot, ids, events, wire, acks, got, retained, losses, astray>>

\* Mutant: only what the last round has left is published again.
RebuildKeepsProgress(q) == [q EXCEPT !.needs = TRUE]

\* rebuild_online_republish.
RebuildRepublish(q) == [q EXCEPT !.republish = SetToSortSeq(q.online, <), !.needs = TRUE]

\* The poll branch with an error.
PollError ==
    /\ connected' = FALSE /\ failures' = failures + 1
    /\ \/ /\ failures + 1 >= MaxRetries
          /\ FailAllQueued("disconnected")
          /\ UNCHANGED collision
       \/ /\ failures + 1 < MaxRetries
          /\ awaiting' = ResetPkids
          /\ collision' = IF collision.pkid # 0
                          THEN [collision EXCEPT !.recovered = FALSE, !.reset = TRUE]
                          ELSE collision
          /\ queues' = RebuildRepublish(queues)
          /\ pc' = "backoff"
          /\ UNCHANGED <<chan, result>>

BackoffOver ==
    /\ pc = "backoff"
    /\ pc' = "top"
    /\ UNCHANGED <<callVars, chan, linkVars, queues, ackVars, lastPuback, stopVars, rumqttc,
                   events, brokerVars, astray>>

(* The end of the worker. *)

\* Phase zero: requests at the front of pending that carry an offline status.
OfflineLeft(q) ==
    LET S == {n \in 0 .. Len(q.pending) : \A i \in 1 .. n : q.pending[i].msg.kind = "offline"}
    IN  CHOOSE n \in S : \A k \in S : k <= n

\* One round of phase zero: it is over when no offline state is left.
ForwardOffline(q, limit) ==
    /\ Forward(q, limit)
    /\ pc' = IF OfflineLeft(queues') = 0 THEN "disconnect" ELSE "offline"

\* The shutdown branch: without a connection everything fails at once; with
\* one, the offline states of all tracked devices go in front.
StopSeen ==
    /\ stop /\ pc \in {"backoff", "select"}
    /\ \/ /\ ~connected
          /\ FailAllQueued("closed")
          /\ UNCHANGED rchan
       \/ /\ connected
          /\ LET offs == [i \in 1 .. Cardinality(queues.online) |->
                             Request(Status("offline", SetToSortSeq(queues.online, <)[i]), FALSE)]
             IN  IF offs = <<>>
                 THEN pc' = "disconnect" /\ UNCHANGED <<queues, awaiting, rchan>>
                 ELSE ForwardOffline([queues EXCEPT !.pending = offs \o @], Len(offs))
          /\ UNCHANGED <<chan, result>>
    /\ UNCHANGED <<callVars, linkVars, collision, lastPuback, stopVars, net, resend, slots, slot,
                   ids, events, brokerVars, astray>>

\* Phase zero: an event is handled, and more offline states are forwarded.
OfflineEvent ==
    /\ pc = "offline" /\ events # <<>>
    /\ HandleEvent(Head(events))
    /\ events' = Tail(events)
    /\ pc' = "forward"
    /\ UNCHANGED <<callVars, chan, linkVars, lastPuback, stopVars, rumqttc, brokerVars, astray>>

OfflineForward ==
    /\ pc = "forward"
    /\ ForwardOffline(queues, OfflineLeft(queues))
    /\ UNCHANGED <<callVars, chan, linkVars, result, collision, lastPuback, stopVars, net, resend,
                   slots, slot, ids, events, brokerVars, astray>>

\* Phase one: DISCONNECT is queued once, as soon as the channel has room.
AskDisconnect ==
    /\ pc = "disconnect" /\ ~asked /\ Len(rchan) < Cap
    /\ rchan' = Append(rchan, [msg |-> Disconnect, pkid |-> 0])
    /\ asked' = TRUE
    /\ UNCHANGED <<callVars, chan, pc, linkVars, queues, ackVars, lastPuback, written, net, resend,
                   slots, slot, ids, events, brokerVars, astray>>

\* Phases one and two: an event is handled.
StoppingEvent ==
    /\ pc \in {"disconnect", "flush"} /\ events # <<>>
    /\ HandleEvent(Head(events))
    /\ events' = Tail(events)
    /\ written' = (written \/ Head(events).kind = "disconnect")
    /\ pc' = IF written' THEN "flush" ELSE pc
    /\ UNCHANGED <<callVars, chan, linkVars, lastPuback, asked, rumqttc, brokerVars, astray>>

\* Phase one polls a lost connection up again.
StoppingConnect ==
    /\ pc = "disconnect" /\ ~net
    /\ net' = TRUE /\ will' = TRUE
    /\ UNCHANGED <<callVars, chan, pc, linkVars, queues, ackVars, lastPuback, stopVars, rchan,
                   resend, slots, slot, ids, events, wire, acks, got, retained, losses, astray>>

\* The grace period is over, or phase two has nothing to wait for.
StopOver ==
    /\ pc \in {"offline", "disconnect", "flush"}
    /\ FailAllQueued("closed")
    /\ UNCHANGED <<callVars, linkVars, collision, lastPuback, stopVars, rumqttc, events, brokerVars, astray>>

(* rumqttc, which runs inside poll. *)

Polling == pc \in {"select", "offline", "disconnect", "flush"} /\ net /\ events = <<>>
Event(kind, pkid) == [kind |-> kind, pkid |-> pkid]
NextPkid == ids.last + 1

\* The next request: resends first; from the channel only below the window and
\* without a collision.  A taken identifier parks the publication.
Write ==
    /\ Polling
    /\ \/ resend # <<>>
       \/ rchan # <<>> /\ slot.pkid = 0 /\ \E p \in 1 .. Window : slots[p] = Nil
    /\ LET r == IF resend # <<>> THEN Head(resend) ELSE Head(rchan)
           pkid == IF r.pkid = 0 THEN NextPkid ELSE r.pkid
       IN  /\ resend' = IF resend # <<>> THEN Tail(resend) ELSE resend
           /\ rchan' = IF resend # <<>> THEN rchan ELSE Tail(rchan)
           /\ \/ /\ r.msg = Disconnect
                 /\ events' = <<Event("disconnect", 0)>>
                 /\ wire' = Append(wire, [msg |-> Disconnect, pkid |-> 0])
                 /\ UNCHANGED <<slots, slot, ids>>
              \/ /\ r.msg # Disconnect /\ slots[pkid] # Nil
                 /\ events' = <<Event("await", pkid)>>
                 /\ slot' = [msg |-> r.msg, pkid |-> pkid]
                 /\ ids' = IF r.pkid = 0 THEN [ids EXCEPT !.last = NextPkid % Window] ELSE ids
                 /\ UNCHANGED <<slots, wire>>
              \/ /\ r.msg # Disconnect /\ slots[pkid] = Nil
                 /\ events' = <<Event("publish", pkid)>>
                 /\ slots' = [slots EXCEPT ![pkid] = r.msg]
                 /\ wire' = Append(wire, [msg |-> r.msg, pkid |-> pkid])
                 /\ ids' = IF r.pkid = 0 THEN [ids EXCEPT !.last = NextPkid % Window] ELSE ids
                 /\ UNCHANGED slot
    /\ UNCHANGED <<callVars, chan, pc, linkVars, queues, ackVars, lastPuback, stopVars, net, acks,
                   got, retained, will, losses, astray>>

\* A PUBACK: the collided publication of that identifier is written first.
ReadAck(i) ==
    /\ Polling /\ i \in DOMAIN acks /\ (i = 1 \/ scenario.reorder)
    /\ LET pkid == acks[i]
           hit == slot.pkid = pkid
       IN  /\ slots' = [slots EXCEPT ![pkid] = IF hit THEN slot.msg ELSE Nil]
           /\ slot' = IF hit THEN [msg |-> Nil, pkid |-> 0] ELSE slot
           /\ wire' = IF hit THEN Append(wire, slot) ELSE wire
           /\ events' = (IF hit THEN <<Event("publish", pkid)>> ELSE <<>>) \o <<Event("puback", pkid)>>
           /\ ids' = [ids EXCEPT !.acked = pkid]
    /\ acks' = RemoveAt(acks, i)
    /\ UNCHANGED <<callVars, chan, pc, linkVars, queues, ackVars, lastPuback, stopVars, net, rchan,
                   resend, got, retained, will, losses, astray>>

\* EventLoop::clean: what is to be sent again, the collided one stays apart.
Clean ==
    LET order == [i \in 1 .. Window |-> ((ids.acked + i - 1) % Window) + 1]
        held == SelectSeq(order, LAMBDA p : slots[p] # Nil)
    IN  /\ resend' = resend \o [i \in DOMAIN held |-> [msg |-> slots[held[i]], pkid |-> held[i]]] \o rchan
        /\ rchan' = <<>>
        /\ slots' = [p \in 1 .. Window |-> Nil]
        /\ net' = FALSE

\* Bounds on the losses.
MayLose ==
    /\ losses < scenario.losses
    /\ pc # "select" => losses < scenario.late

\* A loss the identifiers do not survive: a leftover of the last session is
\* parked, and reset_pkids sorts it in front of publications rumqttc sends
\* again before it; or the loss comes in phase zero, which does not call
\* reset_pkids at all although phase one connects again.
Strays ==
    \/ /\ pc = "select" /\ failures + 1 < MaxRetries
       /\ \E i \in DOMAIN awaiting : awaiting[i].parked # 0 /\ awaiting[i].leftover
    \/ pc = "offline" /\ awaiting # <<>>

\* poll returns an error: the connection is lost, with what was on its way;
\* the broker publishes the will.  poll hands out the events it has buffered
\* before it touches the connection again, so none is left when it fails.
Lose ==
    /\ Polling /\ (will => MayLose)
    /\ losses' = IF will THEN losses + 1 ELSE losses
    /\ Clean
    /\ wire' = <<>> /\ acks' = <<>>
    /\ retained' = IF will /\ WillDevice # 0 THEN [retained EXCEPT ![WillDevice] = "offline"] ELSE retained
    /\ will' = FALSE
    /\ \/ /\ pc = "select"
          /\ PollError
       \/ /\ pc = "offline" /\ pc' = "disconnect"
          /\ UNCHANGED <<chan, linkVars, queues, ackVars>>
       \/ /\ pc \in {"disconnect", "flush"}
          /\ FailAllQueued("closed")
          /\ UNCHANGED <<linkVars, collision>>
    /\ astray' = (astray \/ Strays)
    /\ UNCHANGED <<callVars, lastPuback, stopVars, slot, ids, events, got>>

\* poll returns an error: no connection was made.
ConnectFails ==
    /\ ~net /\ MayLose
    /\ losses' = losses + 1
    /\ \/ /\ pc = "select"
          /\ PollError
       \/ /\ pc = "disconnect"
          /\ FailAllQueued("closed")
          /\ UNCHANGED <<linkVars, collision>>
    /\ astray' = (astray \/ Strays)
    /\ UNCHANGED <<callVars, lastPuback, stopVars, rumqttc, events, wire, acks, got, retained, will>>

(* The scenario. *)

BrokerRecv ==
    /\ wire # <<>>
    /\ LET p == Head(wire)
       IN  /\ got' = got \cup ({p.msg.id} \ {0})
           /\ retained' = IF p.msg.kind \in {"online", "offline"}
                          THEN [retained EXCEPT ![p.msg.dev] = p.msg.kind] ELSE retained
           /\ acks' = IF p.msg = Disconnect THEN acks ELSE Append(acks, p.pkid)
           /\ will' = (will /\ p.msg # Disconnect)
    /\ wire' = Tail(wire)
    /\ UNCHANGED <<callVars, chan, pc, linkVars, queues, ackVars, lastPuback, stopVars, rumqttc,
                   events, losses, astray>>

----------------------------------------------------------------------------
Finished == pc = "ended" /\ wire = <<>> /\ UNCHANGED vars

Next ==
    \/ Publish \/ Shutdown
    \/ Prepare \/ RecvRequest \/ PollEvent \/ Connect \/ BackoffOver
    \/ StopSeen \/ OfflineEvent \/ OfflineForward \/ AskDisconnect
    \/ StoppingEvent \/ StoppingConnect \/ StopOver
    \/ Write \/ (\E i \in 1 .. Window : ReadAck(i))
    \/ Lose \/ ConnectFails
    \/ BrokerRecv
    \/ Finished

Spec == Init /\ [][Next]_vars

(* The worker runs, timers fire, and a connection that is not lost makes   *)
(* progress; callers, losses and the shutdown are free.                    *)
Fairness ==
    /\ WF_vars(Prepare) /\ WF_vars(RecvRequest) /\ WF_vars(PollEvent) /\ WF_vars(Connect)
    /\ WF_vars(BackoffOver)
    /\ WF_vars(StopSeen) /\ WF_vars(OfflineEvent) /\ WF_vars(OfflineForward)
    /\ WF_vars(StopOver)
    /\ WF_vars(Write) /\ WF_vars(\E i \in 1 .. Window : ReadAck(i)) /\ WF_vars(BrokerRecv)

LiveSpec == Spec /\ Fairness

----------------------------------------------------------------------------
(* Properties. *)

Msg == [id : Nat, kind : {"none", "data", "online", "offline", "disconnect"}, dev : Nat]
Pkid == 0 .. Window

\* The state keeps its types: the queues stay within their capacity and the
\* identifiers within the window (run_worker, AwaitingAck, PublishRequest).
TypeOK ==
    /\ sent \in 0 .. Len(scenario.calls) /\ stop \in BOOLEAN
    /\ chan \in Seq(Msg) /\ Len(chan) <= Cap
    /\ result \in [DOMAIN scenario.calls -> {"open", "ok", "closed", "disconnected", "overwritten"}]
    /\ pc \in {"top", "select", "backoff", "offline", "forward", "disconnect", "flush", "ended"}
    /\ connected \in BOOLEAN /\ failures \in 0 .. MaxRetries
    /\ queues.pending \in Seq([msg : Msg, counted : BOOLEAN])
    /\ stop \/ Len(queues.pending) <= Cap
    /\ queues.online \subseteq Devices /\ queues.republish \in Seq(Devices)
    /\ queues.needs \in BOOLEAN /\ queues.gauge \in Int
    /\ awaiting \in Seq([msg : Msg, counted : BOOLEAN, pkid : Pkid, parked : Pkid, leftover : BOOLEAN])
    /\ lastPuback \in Pkid
    /\ collision \in [pkid : Pkid, recovered : BOOLEAN, reset : BOOLEAN]
    /\ asked \in BOOLEAN /\ written \in BOOLEAN /\ net \in BOOLEAN
    /\ rchan \in Seq([msg : Msg, pkid : {0}]) /\ Len(rchan) <= Cap
    /\ resend \in Seq([msg : Msg, pkid : Pkid])
    /\ slots \in [1 .. Window -> Msg] /\ slot \in [msg : Msg, pkid : Pkid]
    /\ ids \in [last : Pkid, acked : Pkid]
    /\ events \in Seq([kind : {"publish", "await", "puback", "disconnect"}, pkid : Pkid])
    /\ wire \in Seq([msg : Msg, pkid : Pkid]) /\ acks \in Seq(1 .. Window)
    /\ got \subseteq DOMAIN scenario.calls
    /\ retained \in [Devices -> {"none", "online", "offline"}]
    /\ will \in BOOLEAN /\ losses \in 0 .. scenario.losses /\ astray \in BOOLEAN

\* acked() returns Ok only for a publication the broker has: the identifiers
\* lead every PUBACK to the right request through collisions, reconnects and
\* the reordered resends, so a WAL record is never deleted for a message
\* that was not delivered (PublishReceipt::acked, reset_pkids).
\* Two losses void it (Strays): a second one while a leftover is parked, and
\* one in the shutdown's phase zero.
AckedIsDelivered == \A i \in DOMAIN result : result[i] = "ok" => i \in got \/ astray

\* Does not hold (README, Findings): the same without the two exceptions.
AckedAlways == \A i \in DOMAIN result : result[i] = "ok" => i \in got

\* The in-flight gauge counts the accepted requests without a receipt, at
\* every moment and on every way out: it ends at zero, never below
\* (metrics_counted).
GaugeExact ==
    queues.gauge = Counted(queues.pending) + Counted(awaiting)

\* Every receipt is settled: a collided or overwritten publication, one that
\* waits through a reconnect and one that races the shutdown all get an
\* answer (fail_all_queued, on_await_ack_event); the calls of a scenario end.
Settled == <>[](\A i \in 1 .. sent : result[i] # "open")

\* A client that keeps running shows every device it tracks as online again
\* after a loss, although the broker has published the will, and never one
\* that was deregistered: the republishing is not starved by other requests,
\* and a second loss starts it anew (rebuild_online_republish,
\* step_online_republish, publish_offline).
OnlineAgain ==
    <>[](pc # "ended") =>
        <>[](\A d \in Devices : (d \in queues.online) = (retained[d] = "online"))

\* A graceful stop leaves no tracked device online: all offline states reach
\* the broker before DISCONNECT, also when they do not fit into the channel at
\* once (run_worker, phase zero).  A loss during the stop voids it: what is
\* left then is given up ("settled as Closed") although DISCONNECT follows.
OfflineAtStop ==
    pc = "ended" /\ written /\ scenario.late = 0 ~> \A d \in queues.online : retained[d] = "offline"

\* What the client says of its requests is true: an Ok receipt belongs to a
\* message the broker has, unless a loss that reset_pkids does not follow came
\* before; the gauge is exact whatever the losses.
RequestsTrue == AckedIsDelivered /\ GaugeExact

\* What the broker shows of a device follows the client: online again after a
\* loss, offline after a graceful stop.
PresenceTrue == OnlineAgain /\ OfflineAtStop
=============================================================================
