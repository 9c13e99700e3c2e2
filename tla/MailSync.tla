------------------------------ MODULE MailSync ------------------------------
(***************************************************************************)
(* Mail between two nodes (src/src/knarr/mail/sync.py and the outbox and   *)
(* inbox tables of src/src/knarr/dht/storage.py).  The sender keeps each   *)
(* item in its outbox until the receiver confirmed it.  Items travel by    *)
(* push (MailSync, answered by a MailAck) and by pull (MailPullReq, its    *)
(* response and MailPullAck); both may carry the same item.                *)
(*                                                                         *)
(* A step is the code of one node between two awaits.  Both nodes write    *)
(* through their writer loops, so a table update is atomic.  Messages are  *)
(* lost, delayed, and by the connection pool sent twice.  Backoff and the  *)
(* circuit breaker only decide when the next push starts, which is open    *)
(* here; batches hold whatever is pending (the code: at most 50 items).    *)
(***************************************************************************)
EXTENDS Integers, FiniteSets

CONSTANTS
  Items,      \* mail items from the sender to the receiver
  System,     \* items with a knarr/ message type, dispatched to a handler
  Unwelcome,  \* items the receiver confirms without storing them: they do
              \* not decrypt, are too large, or the sender has no credit
  MaxRetry,   \* revert_stale_sending: retries of an item
  MaxFaults   \* bound on losses, cancellations, stops, full inboxes, crashes

ASSUME MailAssumption ==
  /\ IsFiniteSet(Items) /\ System \subseteq Items /\ Unwelcome \subseteq Items
  /\ MaxRetry \in Nat /\ MaxFaults \in Nat

VARIABLES
  outbox,    \* mail_outbox.status
  retry,     \* mail_outbox.retry_count, counted up to MaxRetry
  push,      \* where the push to the receiver is
  batch,     \* its items
  ack,       \* items confirmed by the answer it got
  wire,      \* MailSync messages in flight; live if the push awaits the answer
  pull,      \* where the pull of the receiver is
  pulled,    \* its items
  expired,   \* items past their TTL
  inbox,     \* rows in the receiver's mail tables
  todo,      \* items with a dispatch task that has not run
  stores,    \* history: how often an item was stored
  runs,      \* history: how often its handler was run
  declined,  \* history: items confirmed without being stored
  forgotten, \* history: items the receiver's owner or a purge deleted
  faults     \* faults so far

senderVars   == <<outbox, retry, push, batch, ack>>
receiverVars == <<inbox, todo, stores, runs, declined, forgotten>>
vars == <<senderVars, wire, pull, pulled, expired, receiverVars, faults>>

Status == {"none", "pending", "sending", "delivered", "failed", "gone"}

MailTypeOK ==
  /\ outbox \in [Items -> Status]
  /\ retry \in [Items -> 0..MaxRetry]
  /\ push \in {"idle", "fetched", "marked", "sent", "acked", "failed"}
  /\ batch \subseteq Items /\ ack \subseteq Items
  /\ wire \subseteq [items : SUBSET Items, live : BOOLEAN]
  /\ pull \in {"idle", "answered", "stored"} /\ pulled \subseteq Items
  /\ expired \subseteq Items /\ inbox \subseteq Items
  /\ todo \subseteq System /\ declined \subseteq Items /\ forgotten \subseteq Items
  /\ stores \in [Items -> Nat] /\ runs \in [Items -> Nat]
  /\ faults \in 0..MaxFaults

Init ==
  /\ outbox = [i \in Items |-> "none"]
  /\ retry = [i \in Items |-> 0] /\ push = "idle" /\ batch = {} /\ ack = {}
  /\ wire = {} /\ pull = "idle" /\ pulled = {} /\ expired = {}
  /\ inbox = {} /\ todo = {} /\ declined = {} /\ forgotten = {}
  /\ stores = [i \in Items |-> 0] /\ runs = [i \in Items |-> 0] /\ faults = 0

In(s) == {i \in Items : outbox[i] = s}
\* UPDATE mail_outbox SET status = s WHERE item_id IN set: rows that are gone
\* are not found.
SetStatus(set, s) ==
  outbox' = [i \in Items |->
               IF i \in set /\ outbox[i] \notin {"none", "gone"} THEN s ELSE outbox[i]]
\* The bound on retry_count
Retried(set) ==
  retry' = [i \in Items |-> IF i \in set /\ retry[i] < MaxRetry THEN retry[i] + 1 ELSE retry[i]]
Fault == faults < MaxFaults /\ faults' = faults + 1
\* The answer to what is in flight is not awaited any more.
Unawaited == wire' = {[m EXCEPT !.live = FALSE] : m \in wire}
-----------------------------------------------------------------------------
(* Mutants: a plausible slip in the definition that is named.              *)

\* MarkDelivered: the whole batch counts as delivered.
MarkDeliveredAll ==
  /\ push = "acked" /\ push' = "idle" /\ batch' = {} /\ ack' = {}
  /\ outbox' = [i \in Items |-> IF i \in batch /\ outbox[i] = "sending"
                                THEN "delivered" ELSE outbox[i]]
  /\ UNCHANGED <<retry, wire, pull, pulled, expired, receiverVars, faults>>

\* Stored: an item that is there already is stored again.
StoredAgain(set) == set

\* PushCancelled: the push stays in _push_in_flight.
CancelKeepsFlight ==
  /\ push # "idle" /\ Fault /\ Unawaited
  /\ UNCHANGED <<outbox, retry, push, batch, ack, pull, pulled, expired,
                 receiverVars>>
-----------------------------------------------------------------------------
(* The sender: enqueue() and push_to_peer()                                *)

\* The item has passed the cap of the outbox and is written.
Enqueue(i) ==
  /\ outbox[i] = "none" /\ i \notin expired
  /\ outbox' = [outbox EXCEPT ![i] = "pending"]
  /\ UNCHANGED <<retry, push, batch, ack, wire, pull, pulled, expired,
                 receiverVars, faults>>

\* A flush, a heartbeat or inbound activity starts a push; one per peer.
PushStart ==
  /\ push = "idle" /\ In("pending") # {} /\ push' = "fetched"
  /\ batch' = In("pending")
  /\ UNCHANGED <<outbox, retry, ack, wire, pull, pulled, expired,
                 receiverVars, faults>>

\* await mark_outbox_sending, which does not look at the status again
MarkSending ==
  /\ push = "fetched" /\ push' = "marked" /\ SetStatus(batch, "sending")
  /\ UNCHANGED <<retry, batch, ack, wire, pull, pulled, expired,
                 receiverVars, faults>>

\* The egress filter or a failed encryption stops some items, which
\* await mark_outbox_pending; the others are sent, if any.
Send ==
  /\ push = "marked"
  /\ \E stopped \in SUBSET batch :
       /\ IF stopped = {} THEN UNCHANGED faults ELSE Fault
       /\ SetStatus(stopped, "pending") /\ Retried(stopped)
       /\ IF stopped = batch
          THEN push' = "idle" /\ batch' = {} /\ UNCHANGED wire
          ELSE /\ push' = "sent" /\ UNCHANGED batch
               /\ wire' = wire \cup {[items |-> batch \ stopped, live |-> TRUE]}
  /\ UNCHANGED <<ack, pull, pulled, expired, receiverVars>>

\* resp.item_ids: mark_outbox_delivered_for_peer
MarkDelivered ==
  /\ push = "acked" /\ push' = "idle" /\ batch' = {} /\ ack' = {}
  /\ outbox' = [i \in Items |-> IF i \in ack /\ outbox[i] = "sending"
                                THEN "delivered" ELSE outbox[i]]
  /\ UNCHANGED <<retry, wire, pull, pulled, expired, receiverVars, faults>>

\* No answer, an exception, or a MailAck without items
PushFails ==
  /\ push = "sent" /\ Fault /\ push' = "failed" /\ Unawaited
  /\ UNCHANGED <<outbox, retry, batch, ack, pull, pulled, expired,
                 receiverVars>>

\* await mark_outbox_pending(item_ids), whatever their status is by now
MarkPending ==
  /\ push = "failed" /\ push' = "idle" /\ batch' = {}
  /\ SetStatus(batch, "pending") /\ Retried(batch)
  /\ UNCHANGED <<ack, wire, pull, pulled, expired, receiverVars, faults>>

\* The deadline of flush_outbox cancels a push, or the sender restarts: its
\* items stay as they are.
PushCancelled ==
  /\ push # "idle" /\ Fault /\ push' = "idle" /\ batch' = {} /\ ack' = {}
  /\ Unawaited
  /\ UNCHANGED <<outbox, retry, pull, pulled, expired, receiverVars>>

\* handle_mail_pull_ack: mark_outbox_pull_delivered
PullAck ==
  /\ pull = "stored" /\ pull' = "idle" /\ pulled' = {}
  /\ SetStatus(pulled, "delivered")
  /\ UNCHANGED <<retry, push, batch, ack, wire, expired, receiverVars,
                 faults>>

\* revert_stale_sending: rows that are sending for two minutes, so none of a
\* push that is under way.
Revert ==
  \E set \in SUBSET (In("sending") \ batch) :
    /\ set # {} /\ Retried({i \in set : retry[i] < MaxRetry})
    /\ outbox' = [i \in Items |-> IF i \notin set THEN outbox[i]
                                  ELSE IF retry[i] >= MaxRetry THEN "failed" ELSE "pending"]
    /\ UNCHANGED <<push, batch, ack, wire, pull, pulled, expired,
                   receiverVars, faults>>

\* abandon_outbox: the receiver had no route for a long time.
Abandon ==
  /\ Fault /\ In("pending") # {} /\ SetStatus(In("pending"), "failed")
  /\ UNCHANGED <<retry, push, batch, ack, wire, pull, pulled, expired,
                 receiverVars>>

PurgeDelivered ==
  /\ In("delivered") # {} /\ SetStatus(In("delivered"), "gone")
  /\ UNCHANGED <<retry, push, batch, ack, wire, pull, pulled, expired,
                 receiverVars, faults>>

\* The TTL of an item passes.
Expire(i) ==
  /\ outbox[i] # "none" /\ i \notin expired /\ expired' = expired \cup {i}
  /\ UNCHANGED <<senderVars, wire, pull, pulled, receiverVars, faults>>

PurgeExpired ==
  /\ \E i \in expired : outbox[i] # "gone"
  /\ SetStatus(expired, "gone")
  /\ UNCHANGED <<retry, push, batch, ack, wire, pull, pulled, expired,
                 receiverVars, faults>>
-----------------------------------------------------------------------------
(* The receiver: handle_mail_sync(), _pull_from_peer() and dispatch        *)

\* store_mail_from_sync: an item whose row exists is a duplicate.
Stored(set) == set \ inbox
\* What becomes of the items of a set that are looked at: all are confirmed,
\* the new ones stored, system items among them get a dispatch task.
Accept(set) ==
  LET new == Stored(set \ (Unwelcome \cup expired)) IN
  /\ inbox' = inbox \cup new
  /\ stores' = [i \in Items |-> IF i \in new THEN stores[i] + 1 ELSE stores[i]]
  /\ todo' = todo \cup (new \cap System)
  /\ declined' = declined \cup (set \cap (Unwelcome \cup expired))

\* The answer reaches the push if that still waits; a MailAck without items
\* is taken for a failure.
Answer(m, set) ==
  IF m.live
  THEN push' = (IF set = {} THEN "failed" ELSE "acked") /\ ack' = set
  ELSE UNCHANGED <<push, ack>>

\* The whole batch is looked at.
Receive(m) ==
  /\ m \in wire /\ wire' = wire \ {m} /\ Accept(m.items) /\ Answer(m, m.items)
  /\ UNCHANGED <<outbox, retry, batch, pull, pulled, expired, runs,
                 forgotten, faults>>

\* The answer is lost with the connection and the pool sends it again.
ReceiveTwice(m) ==
  /\ m \in wire /\ m.live /\ Fault /\ Accept(m.items)
  /\ UNCHANGED <<senderVars, wire, pull, pulled, expired, runs, forgotten>>

\* A full inbox or the accept_from policy stops the handler on the way.
ReceiveSome(m) ==
  /\ m \in wire /\ Fault /\ wire' = wire \ {m}
  /\ \E some \in SUBSET m.items :
       some # m.items /\ Accept(some) /\ Answer(m, some)
  /\ UNCHANGED <<outbox, retry, batch, pull, pulled, expired, runs,
                 forgotten>>

\* A push that was cancelled has left its connection in the pool: the answer to
\* its message is what the next push reads, and nobody reads the answer to that.
ReceiveEarlier(m) ==
  /\ m \in wire /\ ~m.live /\ push = "sent" /\ Fault /\ Accept(m.items)
  /\ push' = "acked" /\ ack' = m.items
  /\ wire' = {[n EXCEPT !.live = FALSE] : n \in wire \ {m}}
  /\ UNCHANGED <<outbox, retry, batch, pull, pulled, expired, runs, forgotten>>

\* MailPullReq is answered with the pending items ...
PullAnswer ==
  /\ pull = "idle" /\ In("pending") # {} /\ pull' = "answered"
  /\ pulled' = In("pending")
  /\ UNCHANGED <<senderVars, wire, expired, receiverVars, faults>>

\* ... which are stored and confirmed by MailPullAck.
PullStore ==
  /\ pull = "answered" /\ pull' = "stored" /\ Accept(pulled)
  /\ UNCHANGED <<senderVars, wire, pulled, expired, runs, forgotten, faults>>

PullLost ==
  /\ pull # "idle" /\ Fault /\ pull' = "idle" /\ pulled' = {}
  /\ UNCHANGED <<senderVars, wire, expired, receiverVars>>

\* _dispatch_system_item: the handler runs; if it fails it is not run again.
Dispatch(i) ==
  /\ i \in todo /\ todo' = todo \ {i} /\ runs' = [runs EXCEPT ![i] = @ + 1]
  /\ UNCHANGED <<senderVars, wire, pull, pulled, expired, inbox, stores,
                 declined, forgotten, faults>>

\* ack_mail(deleted), trim_bucket or a purge removes the row (bound: once for
\* each item).
Forget(i) ==
  /\ i \in inbox /\ i \notin forgotten /\ inbox' = inbox \ {i}
  /\ forgotten' = forgotten \cup {i}
  /\ UNCHANGED <<senderVars, wire, pull, pulled, expired, todo, stores, runs,
                 declined, faults>>

ReceiverCrash ==
  /\ Fault /\ todo # {} /\ todo' = {}
  /\ UNCHANGED <<senderVars, wire, pull, pulled, expired, inbox, stores, runs,
                 declined, forgotten>>
-----------------------------------------------------------------------------
Messages == [items : SUBSET Items, live : BOOLEAN]
PushStep == MarkSending \/ Send \/ MarkDelivered \/ MarkPending
PullStep == PullStore \/ PullAck
\* cleanup(): each write of its sweep is awaited, so other steps come between.
Cleanup == PurgeExpired \/ PurgeDelivered \/ Revert

Next ==
  \/ \E i \in Items : Enqueue(i) \/ Expire(i) \/ Dispatch(i) \/ Forget(i)
  \/ \E m \in Messages : Receive(m) \/ ReceiveTwice(m) \/ ReceiveSome(m)
                      \/ ReceiveEarlier(m)
  \/ PushStart \/ PushStep \/ PushFails \/ PushCancelled \/ Cleanup \/ Abandon
  \/ PullAnswer \/ PullStep \/ PullLost \/ ReceiverCrash

Spec == Init /\ [][Next]_vars

(* The flush and cleanup loops keep turning, and a message that is not     *)
(* lost arrives while its push waits.  Pulls, dispatch, expiry and faults  *)
(* need not happen.                                                        *)
Fairness ==
  /\ WF_vars(PushStart) /\ WF_vars(PushStep) /\ WF_vars(Revert)
  /\ WF_vars(\E m \in Messages : m.live /\ Receive(m))

FairSpec == Spec /\ Fairness
-----------------------------------------------------------------------------
(* Safety                                                                  *)

Settled(i) == stores[i] > 0 \/ i \in declined

(* The sender lets go of an item only after the receiver stored it or      *)
(* declined it, or it expired: an answer confirms the items it names and   *)
(* no others, however pushes, pulls and cleanups interleave.               *)
DroppedIsSettled ==
  \A i \in Items : outbox[i] \in {"delivered", "gone"} => Settled(i) \/ i \in expired

Posted   == {i \in Items : outbox[i] # "none"}
Released == {i \in Items : outbox[i] \in {"delivered", "gone"}}
Delivery == INSTANCE MailDelivery WITH
  posted <- Posted, released <- Released, kept <- inbox,
  stored <- stores, due <- todo, handled <- runs, refused <- declined, lapsed <- expired
(* mail/sync.py:433 and storage.py:2040: pushes, pulls, lost answers,      *)
(* messages sent twice, cancellations and cleanups together deliver as     *)
(* MailDelivery promises: an item whose row is kept is stored, and charged,*)
(* once, its handler runs at most once for each time it is stored, and the *)
(* outbox lets go only of what is settled or lapsed.                       *)
MailDelivers == Delivery!DeliverySpec

(* storage.py:2040: an item whose row is kept is stored, and charged,      *)
(* once.                                                                   *)
StoredOnce ==
  \A i \in Items \ forgotten : stores[i] <= 1 /\ (stores[i] = 1 <=> i \in inbox)
(* mail/sync.py:881: a handler runs at most once per item that is stored.  *)
DispatchedOnce ==
  \A i \in Items : runs[i] + (IF i \in todo THEN 1 ELSE 0) <= stores[i]
-----------------------------------------------------------------------------
(* Liveness                                                                *)

(* An item that entered the outbox is settled, fails for good or expires,  *)
(* if it is not stopped for ever.                                          *)
EnqueuedSettles ==
  \A i \in Items :
    outbox[i] = "pending" ~> (Settled(i) \/ outbox[i] = "failed" \/ i \in expired)
=============================================================================
