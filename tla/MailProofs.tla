------------------------------ MODULE MailProofs ------------------------------
(***************************************************************************)
(* Proofs about MailSync, for any items, retries and faults: types, the    *)
(* safety properties, and that it implements MailDelivery.                 *)
(***************************************************************************)
EXTENDS MailSync, TLAPS

Live == {m \in wire : m.live}

(* What is in flight.  Only the push that waits has a live message, and it *)
(* is one; an answer is held only until it is written to the outbox.       *)
FlightOK ==
  /\ \A m \in Live : push = "sent" /\ m.items \subseteq batch
  /\ \A m, n \in Live : m = n
  /\ ack # {} => push = "acked"

(* Why the outbox may drop an item: what an answer or a finished pull      *)
(* names has been settled or has expired before.                           *)
Done(i) == Settled(i) \/ i \in expired
ConfirmedOK ==
  /\ \A i \in ack : Done(i)
  /\ pull = "stored" => \A i \in pulled : Done(i)

(* Rows and the history of stores agree; a deleted row may come back.      *)
RowsOK ==
  \A i \in Items :
    /\ i \in inbox => stores[i] > 0
    /\ i \notin forgotten => stores[i] = (IF i \in inbox THEN 1 ELSE 0)

MailInv ==
  /\ MailTypeOK /\ FlightOK /\ ConfirmedOK /\ RowsOK
  /\ DroppedIsSettled /\ DispatchedOnce

-----------------------------------------------------------------------------
(* Effects of the operators the actions share.                             *)

\* Status updates keep the type and touch only rows of the set.
LEMMA SetStatusEffect ==
  ASSUME MailTypeOK, NEW set, NEW s \in Status, SetStatus(set, s)
  PROVE  /\ outbox' \in [Items -> Status]
         /\ \A i \in Items : outbox'[i] = outbox[i]
                             \/ (i \in set /\ outbox'[i] = s /\ outbox[i] \notin {"none", "gone"})
BY DEF MailTypeOK, SetStatus

\* Retries and faults stay within their bounds.
LEMMA RetriedEffect ==
  ASSUME MailTypeOK, NEW set, Retried(set)
  PROVE  retry' \in [Items -> 0..MaxRetry]
BY MailAssumption DEF MailTypeOK, Retried

LEMMA FaultEffect == ASSUME MailTypeOK, Fault PROVE faults' \in 0..MaxFaults
BY MailAssumption DEF MailTypeOK, Fault

\* Nothing is live after a push gave up.
LEMMA UnawaitedEffect ==
  ASSUME MailTypeOK, Unawaited
  PROVE  wire' \subseteq Messages /\ Live' = {}
<1>1. \A m \in Messages : [m EXCEPT !.live = FALSE] \in Messages
                          /\ [m EXCEPT !.live = FALSE].live = FALSE
  BY DEF Messages
<1>2. wire \subseteq Messages
  BY DEF MailTypeOK, Messages
<1> QED
  BY <1>1, <1>2 DEF Unawaited, Live

\* A receiver that looked at a set has settled it, and rows, history and
\* dispatch tasks still agree.
LEMMA AcceptEffect ==
  ASSUME MailTypeOK, RowsOK, DispatchedOnce, NEW set \in SUBSET Items, Accept(set),
         UNCHANGED <<runs, expired, forgotten>>
  PROVE  /\ inbox' \subseteq Items /\ todo' \subseteq System /\ declined' \subseteq Items
         /\ stores' \in [Items -> Nat]
         /\ RowsOK' /\ DispatchedOnce'
         /\ \A i \in set : Done(i)'
         /\ \A i \in Items : Done(i) => Done(i)'
         /\ \A i \in Items : Settled(i) => Settled(i)'
<1> DEFINE new == Stored(set \ (Unwelcome \cup expired))
<1>1. /\ inbox' = inbox \cup new /\ todo' = todo \cup (new \cap System)
      /\ stores' = [i \in Items |-> IF i \in new THEN stores[i] + 1 ELSE stores[i]]
      /\ declined' = declined \cup (set \cap (Unwelcome \cup expired))
  BY DEF Accept
<1>2. new \subseteq set /\ new \cap inbox = {}
      /\ \A i \in set : i \in new \/ i \in inbox \/ i \in Unwelcome \cup expired
  BY DEF Stored
<1> HIDE DEF new
<1>3. /\ inbox' \subseteq Items /\ todo' \subseteq System /\ declined' \subseteq Items
      /\ stores' \in [Items -> Nat]
  BY <1>1, <1>2 DEF MailTypeOK
<1>4. RowsOK'
  BY <1>1, <1>2 DEF RowsOK, MailTypeOK
<1>5. DispatchedOnce'
  BY <1>1, <1>2 DEF DispatchedOnce, MailTypeOK
<1>6. \A i \in set : Done(i)'
  BY <1>1, <1>2 DEF Done, Settled, RowsOK, MailTypeOK
<1>7. \A i \in Items : (Settled(i) => Settled(i)') /\ (Done(i) => Done(i)')
  BY <1>1 DEF Done, Settled, MailTypeOK
<1> QED
  BY <1>3, <1>4, <1>5, <1>6, <1>7
-----------------------------------------------------------------------------
(* Steps of the sender leave the receiver alone.                           *)

SenderKeeps == UNCHANGED receiverVars /\ expired \subseteq expired'

\* Without a step of the receiver everything settled stays settled.
LEMMA KeepsReceiver ==
  ASSUME MailInv, SenderKeeps
  PROVE  /\ RowsOK' /\ DispatchedOnce'
         /\ \A i \in Items : (Settled(i) => Settled(i)') /\ (Done(i) => Done(i)')
BY DEF MailInv, SenderKeeps, receiverVars, RowsOK, DispatchedOnce, Settled, Done

\* If the outbox drops only what is done, DroppedIsSettled is kept.
LEMMA KeepsDropped ==
  ASSUME MailInv,
         \A i \in Items : Done(i) => Done(i)',
         \A i \in Items : outbox'[i] \in {"delivered", "gone"} =>
                          outbox[i] \in {"delivered", "gone"} \/ Done(i)'
  PROVE  DroppedIsSettled'
BY DEF MailInv, DroppedIsSettled, Done

LEMMA StepSender ==
  ASSUME MailInv,
         \/ \E i \in Items : Enqueue(i) \/ Expire(i)
         \/ PushStart \/ PushStep \/ PushFails \/ PushCancelled
         \/ Revert \/ Abandon \/ PurgeDelivered \/ PurgeExpired \/ PullAck
  PROVE  MailInv'
<1> USE DEF MailInv
<1>1. ASSUME NEW i \in Items, Enqueue(i) PROVE MailInv'
  <2>1. SenderKeeps
    BY <1>1 DEF Enqueue, SenderKeeps
  <2>2. MailTypeOK'
    BY <1>1 DEF Enqueue, MailTypeOK, Status, receiverVars
  <2>3. FlightOK' /\ ConfirmedOK'
    BY <1>1, <2>1, KeepsReceiver DEF Enqueue, FlightOK, ConfirmedOK, Live, MailTypeOK
  <2>4. DroppedIsSettled'
    BY <1>1, <2>1, KeepsReceiver, KeepsDropped DEF Enqueue, MailTypeOK
  <2> QED
    BY <2>1, <2>2, <2>3, <2>4, KeepsReceiver
<1>2. ASSUME NEW i \in Items, Expire(i) PROVE MailInv'
  <2>1. SenderKeeps
    BY <1>2 DEF Expire, SenderKeeps
  <2>2. MailTypeOK'
    BY <1>2 DEF Expire, MailTypeOK, Status, senderVars, receiverVars
  <2>3. FlightOK' /\ ConfirmedOK'
    BY <1>2, <2>1, KeepsReceiver
    DEF Expire, FlightOK, ConfirmedOK, Live, MailTypeOK, senderVars
  <2>4. DroppedIsSettled'
    BY <1>2, <2>1, KeepsReceiver, KeepsDropped DEF Expire, MailTypeOK, senderVars
  <2> QED
    BY <2>1, <2>2, <2>3, <2>4, KeepsReceiver
<1>3. CASE PushStart
  <2>1. SenderKeeps
    BY <1>3 DEF PushStart, SenderKeeps
  <2>2. MailTypeOK'
    BY <1>3 DEF PushStart, MailTypeOK, FlightOK, receiverVars, In
  <2>3. FlightOK' /\ ConfirmedOK'
    BY <1>3, <2>1, KeepsReceiver DEF PushStart, FlightOK, ConfirmedOK, Live, MailTypeOK
  <2>4. DroppedIsSettled'
    BY <1>3, <2>1, KeepsReceiver, KeepsDropped DEF PushStart, MailTypeOK
  <2> QED
    BY <2>1, <2>2, <2>3, <2>4, KeepsReceiver
<1>4. CASE MarkSending
  <2>1. SenderKeeps
    BY <1>4 DEF MarkSending, SenderKeeps
  <2>2. MailTypeOK'
    BY <1>4, SetStatusEffect DEF MarkSending, MailTypeOK, receiverVars, Status
  <2>3. FlightOK' /\ ConfirmedOK'
    BY <1>4, <2>1, KeepsReceiver, SetStatusEffect DEF MarkSending, FlightOK, ConfirmedOK, Live, MailTypeOK, Status
  <2>4. DroppedIsSettled'
    BY <1>4, <2>1, KeepsReceiver, KeepsDropped, SetStatusEffect DEF MarkSending, MailTypeOK, Status
  <2> QED
    BY <2>1, <2>2, <2>3, <2>4, KeepsReceiver
<1>5. CASE Send
  <2>1. SenderKeeps
    BY <1>5 DEF Send, SenderKeeps
  <2> PICK stopped \in SUBSET batch :
         /\ IF stopped = {} THEN UNCHANGED faults ELSE Fault
         /\ SetStatus(stopped, "pending") /\ Retried(stopped)
         /\ IF stopped = batch
            THEN push' = "idle" /\ batch' = {} /\ UNCHANGED wire
            ELSE /\ push' = "sent" /\ UNCHANGED batch
                 /\ wire' = wire \cup {[items |-> batch \ stopped, live |-> TRUE]}
    BY <1>5 DEF Send
  <2>2. push = "marked" /\ ack = {} /\ Live = {}
        /\ UNCHANGED <<ack, pull, pulled, expired, receiverVars>>
    BY <1>5 DEF Send, FlightOK
  <2>3. /\ outbox' \in [Items -> Status] /\ retry' \in [Items -> 0..MaxRetry]
        /\ \A i \in Items : outbox'[i] = outbox[i] \/ outbox'[i] = "pending"
    BY SetStatusEffect, RetriedEffect DEF Status
  <2>4. faults' \in 0..MaxFaults
    BY FaultEffect DEF MailTypeOK
  <2> DEFINE new == [items |-> batch \ stopped, live |-> TRUE]
  <2>5. new \in Messages /\ new.live /\ new.items \subseteq batch
    BY DEF Messages, MailTypeOK
  <2> HIDE DEF new
  <2>6. \/ push' = "idle" /\ batch' = {} /\ Live' = {} /\ wire' = wire
        \/ push' = "sent" /\ batch' = batch /\ Live' = {new} /\ wire' = wire \cup {new}
    BY <2>2, <2>5 DEF Live, new
  <2>7. MailTypeOK'
    BY <2>2, <2>3, <2>4, <2>5, <2>6 DEF MailTypeOK, Messages, receiverVars
  <2>8. FlightOK' /\ ConfirmedOK'
    BY <2>1, <2>2, <2>5, <2>6, KeepsReceiver DEF FlightOK, ConfirmedOK, MailTypeOK
  <2>9. DroppedIsSettled'
    BY <2>1, <2>3, KeepsReceiver, KeepsDropped
  <2> QED
    BY <2>1, <2>7, <2>8, <2>9, KeepsReceiver
<1>6. CASE MarkDelivered
  <2>1. SenderKeeps
    BY <1>6 DEF MarkDelivered, SenderKeeps
  <2>2. MailTypeOK'
    BY <1>6 DEF MarkDelivered, MailTypeOK, receiverVars, Status
  <2>3. FlightOK' /\ ConfirmedOK'
    BY <1>6, <2>1, KeepsReceiver DEF MarkDelivered, FlightOK, ConfirmedOK, Live, MailTypeOK
  <2>4. DroppedIsSettled'
    BY <1>6, <2>1, KeepsReceiver, KeepsDropped DEF MarkDelivered, MailTypeOK, ConfirmedOK
  <2> QED
    BY <2>1, <2>2, <2>3, <2>4, KeepsReceiver
<1>7. CASE PushFails
  <2>1. SenderKeeps
    BY <1>7 DEF PushFails, SenderKeeps
  <2>2. MailTypeOK'
    BY <1>7, UnawaitedEffect, FaultEffect DEF PushFails, MailTypeOK, receiverVars, Messages
  <2>3. FlightOK' /\ ConfirmedOK'
    BY <1>7, <2>1, KeepsReceiver, UnawaitedEffect, FaultEffect DEF PushFails, FlightOK, ConfirmedOK, Live, MailTypeOK
  <2>4. DroppedIsSettled'
    BY <1>7, <2>1, KeepsReceiver, KeepsDropped, UnawaitedEffect, FaultEffect DEF PushFails, MailTypeOK
  <2> QED
    BY <2>1, <2>2, <2>3, <2>4, KeepsReceiver
<1>8. CASE MarkPending
  <2>1. SenderKeeps
    BY <1>8 DEF MarkPending, SenderKeeps
  <2>2. MailTypeOK'
    BY <1>8, SetStatusEffect, RetriedEffect
    DEF MarkPending, MailTypeOK, FlightOK, receiverVars, Status
  <2>3. FlightOK' /\ ConfirmedOK'
    BY <1>8, <2>1, KeepsReceiver, SetStatusEffect, RetriedEffect DEF MarkPending, FlightOK, ConfirmedOK, Live, MailTypeOK
  <2>4. DroppedIsSettled'
    BY <1>8, <2>1, KeepsReceiver, KeepsDropped, SetStatusEffect, RetriedEffect DEF MarkPending, MailTypeOK, Status
  <2> QED
    BY <2>1, <2>2, <2>3, <2>4, KeepsReceiver
<1>9. CASE PushCancelled
  <2>1. SenderKeeps
    BY <1>9 DEF PushCancelled, SenderKeeps
  <2>2. MailTypeOK'
    BY <1>9, UnawaitedEffect, FaultEffect DEF PushCancelled, MailTypeOK, receiverVars, Messages
  <2>3. FlightOK' /\ ConfirmedOK'
    BY <1>9, <2>1, KeepsReceiver, UnawaitedEffect, FaultEffect DEF PushCancelled, FlightOK, ConfirmedOK, Live, MailTypeOK
  <2>4. DroppedIsSettled'
    BY <1>9, <2>1, KeepsReceiver, KeepsDropped, UnawaitedEffect, FaultEffect DEF PushCancelled, MailTypeOK
  <2> QED
    BY <2>1, <2>2, <2>3, <2>4, KeepsReceiver
<1>10. CASE Revert
  <2>1. SenderKeeps
    BY <1>10 DEF Revert, SenderKeeps
  <2>2. MailTypeOK'
    BY <1>10, RetriedEffect DEF Revert, MailTypeOK, receiverVars, Status
  <2>3. FlightOK' /\ ConfirmedOK'
    BY <1>10, <2>1, KeepsReceiver, RetriedEffect DEF Revert, FlightOK, ConfirmedOK, Live, MailTypeOK
  <2>4. DroppedIsSettled'
    BY <1>10, <2>1, KeepsReceiver, KeepsDropped, RetriedEffect DEF Revert, MailTypeOK
  <2> QED
    BY <2>1, <2>2, <2>3, <2>4, KeepsReceiver
<1>11. CASE Abandon
  <2>1. SenderKeeps
    BY <1>11 DEF Abandon, SenderKeeps
  <2>2. MailTypeOK'
    BY <1>11, SetStatusEffect, FaultEffect DEF Abandon, MailTypeOK, receiverVars, Status
  <2>3. FlightOK' /\ ConfirmedOK'
    BY <1>11, <2>1, KeepsReceiver, SetStatusEffect, FaultEffect DEF Abandon, FlightOK, ConfirmedOK, Live, MailTypeOK
  <2>4. DroppedIsSettled'
    BY <1>11, <2>1, KeepsReceiver, KeepsDropped, SetStatusEffect, FaultEffect DEF Abandon, MailTypeOK, Status
  <2> QED
    BY <2>1, <2>2, <2>3, <2>4, KeepsReceiver
<1>12. CASE PurgeDelivered
  <2>1. SenderKeeps
    BY <1>12 DEF PurgeDelivered, SenderKeeps
  <2>2. MailTypeOK'
    BY <1>12, SetStatusEffect DEF PurgeDelivered, MailTypeOK, receiverVars, Status
  <2>3. FlightOK' /\ ConfirmedOK'
    BY <1>12, <2>1, KeepsReceiver, SetStatusEffect DEF PurgeDelivered, FlightOK, ConfirmedOK, Live, MailTypeOK
  <2>4. DroppedIsSettled'
    BY <1>12, <2>1, KeepsReceiver, KeepsDropped, SetStatusEffect DEF PurgeDelivered, MailTypeOK, Status, In, DroppedIsSettled, Done
  <2> QED
    BY <2>1, <2>2, <2>3, <2>4, KeepsReceiver
<1>13. CASE PurgeExpired
  <2>1. SenderKeeps
    BY <1>13 DEF PurgeExpired, SenderKeeps
  <2>2. MailTypeOK'
    BY <1>13, SetStatusEffect DEF PurgeExpired, MailTypeOK, receiverVars, Status
  <2>3. FlightOK' /\ ConfirmedOK'
    BY <1>13, <2>1, KeepsReceiver, SetStatusEffect DEF PurgeExpired, FlightOK, ConfirmedOK, Live, MailTypeOK
  <2>4. DroppedIsSettled'
    BY <1>13, <2>1, KeepsReceiver, KeepsDropped, SetStatusEffect DEF PurgeExpired, MailTypeOK, Status, Done
  <2> QED
    BY <2>1, <2>2, <2>3, <2>4, KeepsReceiver
<1>14. CASE PullAck
  <2>1. SenderKeeps
    BY <1>14 DEF PullAck, SenderKeeps
  <2>2. MailTypeOK'
    BY <1>14, SetStatusEffect DEF PullAck, MailTypeOK, receiverVars, Status
  <2>3. FlightOK' /\ ConfirmedOK'
    BY <1>14, <2>1, KeepsReceiver, SetStatusEffect DEF PullAck, FlightOK, ConfirmedOK, Live, MailTypeOK
  <2>4. DroppedIsSettled'
    BY <1>14, <2>1, KeepsReceiver, KeepsDropped, SetStatusEffect DEF PullAck, MailTypeOK, Status, ConfirmedOK
  <2> QED
    BY <2>1, <2>2, <2>3, <2>4, KeepsReceiver
<1> QED
  BY <1>1, <1>2, <1>3, <1>4, <1>5, <1>6, <1>7, <1>8, <1>9, <1>10, <1>11, <1>12, <1>13, <1>14 DEF PushStep
-----------------------------------------------------------------------------
(* Steps of the receiver.                                                  *)

\* An answer ends the flight of its message and is right about its items.
LEMMA AnswerEffect ==
  ASSUME MailTypeOK, FlightOK, NEW m \in wire, NEW set \in SUBSET m.items,
         wire' = wire \ {m}, Answer(m, set), batch' = batch
  PROVE  /\ FlightOK' /\ push' \in {"idle", "fetched", "marked", "sent", "acked", "failed"}
         /\ ack' \subseteq Items /\ (ack' = ack \/ ack' = set)
<1>1. CASE m.live
  <2>1. set \subseteq batch /\ push = "sent" /\ ack = {} /\ Live' = {}
    BY <1>1 DEF FlightOK, Live
  <2> QED
    BY <1>1, <2>1 DEF Answer, FlightOK, MailTypeOK
<1>2. CASE ~m.live
  <2>1. Live' = Live
    BY <1>2 DEF Live
  <2> QED
    BY <1>2, <2>1 DEF Answer, FlightOK, MailTypeOK
<1> QED
  BY <1>1, <1>2

LEMMA StepReceiver ==
  ASSUME MailInv,
         \/ \E m \in Messages : Receive(m) \/ ReceiveTwice(m) \/ ReceiveSome(m)
                               \/ ReceiveEarlier(m)
         \/ \E i \in Items : Dispatch(i) \/ Forget(i)
         \/ PullAnswer \/ PullStore \/ PullLost \/ ReceiverCrash
  PROVE  MailInv'
<1> USE DEF MailInv
<1> DEFINE Effect(set) ==
      /\ inbox' \subseteq Items /\ todo' \subseteq System /\ declined' \subseteq Items
      /\ stores' \in [Items -> Nat] /\ RowsOK' /\ DispatchedOnce'
      /\ \A i \in set : Done(i)'
      /\ \A i \in Items : (Done(i) => Done(i)') /\ (Settled(i) => Settled(i)')
\* A batch that is answered, in whole or in part
<1>1. ASSUME NEW m \in wire, NEW set \in SUBSET m.items, wire' = wire \ {m},
             Accept(set), Answer(m, set), faults' \in 0..MaxFaults,
             UNCHANGED <<outbox, retry, batch, pull, pulled, expired, runs, forgotten>>
      PROVE  MailInv'
  <2>1. set \in SUBSET Items
    BY DEF MailTypeOK
  <2>2. Effect(set)
    BY <1>1, <2>1, AcceptEffect
  <2>3. /\ FlightOK' /\ push' \in {"idle", "fetched", "marked", "sent", "acked", "failed"}
        /\ ack' \subseteq Items /\ (ack' = ack \/ ack' = set)
    BY <1>1, AnswerEffect
  <2>4. MailTypeOK'
    BY <1>1, <2>2, <2>3 DEF MailTypeOK
  <2>5. ConfirmedOK'
    BY <1>1, <2>2, <2>3 DEF ConfirmedOK, MailTypeOK
  <2>6. DroppedIsSettled'
    BY <1>1, <2>2, KeepsDropped
  <2> QED
    BY <2>2, <2>3, <2>4, <2>5, <2>6
<1>2. ASSUME NEW m \in Messages, Receive(m) PROVE MailInv'
  <2>1. faults' \in 0..MaxFaults
    BY <1>2 DEF Receive, MailTypeOK
  <2> QED
    BY <1>1, <1>2, <2>1 DEF Receive
<1>3. ASSUME NEW m \in Messages, ReceiveSome(m) PROVE MailInv'
  <2>1. faults' \in 0..MaxFaults
    BY <1>3, FaultEffect DEF ReceiveSome
  <2> QED
    BY <1>1, <1>3, <2>1 DEF ReceiveSome
<1>4. ASSUME NEW m \in Messages, ReceiveTwice(m) PROVE MailInv'
  <2>1. Effect(m.items)
    BY <1>4, AcceptEffect DEF ReceiveTwice, Messages
  <2>2. faults' \in 0..MaxFaults
    BY <1>4, FaultEffect DEF ReceiveTwice
  <2>3. MailTypeOK'
    BY <1>4, <2>1, <2>2 DEF ReceiveTwice, MailTypeOK, senderVars
  <2>4. FlightOK' /\ ConfirmedOK'
    BY <1>4, <2>1 DEF ReceiveTwice, FlightOK, ConfirmedOK, Live, MailTypeOK, senderVars
  <2>5. DroppedIsSettled'
    BY <1>4, <2>1, KeepsDropped DEF ReceiveTwice, senderVars
  <2> QED
    BY <2>1, <2>3, <2>4, <2>5
<1>5. CASE PullStore
  <2>1. Effect(pulled)
    BY <1>5, AcceptEffect DEF PullStore, MailTypeOK
  <2>2. MailTypeOK'
    BY <1>5, <2>1 DEF PullStore, MailTypeOK, senderVars
  <2>3. FlightOK' /\ ConfirmedOK'
    BY <1>5, <2>1 DEF PullStore, FlightOK, ConfirmedOK, Live, MailTypeOK, senderVars
  <2>4. DroppedIsSettled'
    BY <1>5, <2>1, KeepsDropped DEF PullStore, senderVars
  <2> QED
    BY <2>1, <2>2, <2>3, <2>4
<1>6. CASE PullAnswer
  <2>1. SenderKeeps
    BY <1>6 DEF PullAnswer, SenderKeeps
  <2>2. MailTypeOK'
    BY <1>6 DEF PullAnswer, MailTypeOK, senderVars, receiverVars, In
  <2>3. FlightOK' /\ ConfirmedOK' /\ DroppedIsSettled'
    BY <1>6, <2>1, KeepsReceiver, KeepsDropped
    DEF PullAnswer, FlightOK, ConfirmedOK, Live, MailTypeOK, senderVars
  <2> QED
    BY <2>1, <2>2, <2>3, KeepsReceiver
<1>7. CASE PullLost
  <2>1. SenderKeeps
    BY <1>7 DEF PullLost, SenderKeeps
  <2>2. MailTypeOK'
    BY <1>7, FaultEffect DEF PullLost, MailTypeOK, senderVars, receiverVars
  <2>3. FlightOK' /\ ConfirmedOK' /\ DroppedIsSettled'
    BY <1>7, <2>1, KeepsReceiver, KeepsDropped
    DEF PullLost, FlightOK, ConfirmedOK, Live, MailTypeOK, senderVars
  <2> QED
    BY <2>1, <2>2, <2>3, KeepsReceiver
\* Dispatch, deletion and restart do not touch what is settled.
<1>8. ASSUME UNCHANGED <<senderVars, wire, pull, pulled, expired, stores, declined>>
      PROVE  FlightOK' /\ ConfirmedOK' /\ DroppedIsSettled'
  BY <1>8 DEF FlightOK, ConfirmedOK, Live, DroppedIsSettled, Done, Settled, senderVars
<1>9. ASSUME NEW i \in Items, Dispatch(i) PROVE MailInv'
  <2>1. MailTypeOK'
    BY <1>9 DEF Dispatch, MailTypeOK, senderVars
  <2>2. RowsOK'
    BY <1>9 DEF Dispatch, RowsOK
  <2>3. DispatchedOnce'
    BY <1>9 DEF Dispatch, DispatchedOnce, MailTypeOK
  <2> QED
    BY <1>8, <1>9, <2>1, <2>2, <2>3 DEF Dispatch
<1>10. ASSUME NEW i \in Items, Forget(i) PROVE MailInv'
  <2>1. MailTypeOK'
    BY <1>10 DEF Forget, MailTypeOK, senderVars
  <2>2. RowsOK' /\ DispatchedOnce'
    BY <1>10 DEF Forget, RowsOK, DispatchedOnce
  <2> QED
    BY <1>8, <1>10, <2>1, <2>2 DEF Forget
<1>11. CASE ReceiverCrash
  <2>1. MailTypeOK'
    BY <1>11, FaultEffect DEF ReceiverCrash, MailTypeOK, senderVars
  <2>2. RowsOK'
    BY <1>11 DEF ReceiverCrash, RowsOK
  <2>3. DispatchedOnce'
    BY <1>11 DEF ReceiverCrash, DispatchedOnce, MailTypeOK
  <2> QED
    BY <1>8, <1>11, <2>1, <2>2, <2>3 DEF ReceiverCrash
<1>12. ASSUME NEW m \in Messages, ReceiveEarlier(m) PROVE MailInv'
  <2>1. Effect(m.items)
    BY <1>12, AcceptEffect DEF ReceiveEarlier, Messages
  <2>2. faults' \in 0..MaxFaults
    BY <1>12, FaultEffect DEF ReceiveEarlier
  <2>3. wire' \subseteq Messages /\ Live' = {}
    <3>1. \A n \in Messages : [n EXCEPT !.live = FALSE] \in Messages
                              /\ [n EXCEPT !.live = FALSE].live = FALSE
      BY DEF Messages
    <3> QED
      BY <1>12, <3>1 DEF ReceiveEarlier, MailTypeOK, Messages, Live
  <2>4. MailTypeOK'
    BY <1>12, <2>1, <2>2, <2>3 DEF ReceiveEarlier, MailTypeOK, Messages
  <2>5. FlightOK' /\ ConfirmedOK'
    BY <1>12, <2>1, <2>3 DEF ReceiveEarlier, FlightOK, ConfirmedOK, MailTypeOK
  <2>6. DroppedIsSettled'
    BY <1>12, <2>1, KeepsDropped DEF ReceiveEarlier
  <2> QED
    BY <2>1, <2>4, <2>5, <2>6
<1> QED
  BY <1>2, <1>3, <1>4, <1>5, <1>6, <1>7, <1>9, <1>10, <1>11, <1>12
-----------------------------------------------------------------------------
(* The theorems.                                                           *)

LEMMA InitMail == Init => MailInv
<1> SUFFICES ASSUME Init PROVE MailInv
  OBVIOUS
<1>1. MailTypeOK
  BY MailAssumption DEF Init, MailTypeOK, Status
<1>2. FlightOK /\ ConfirmedOK /\ RowsOK /\ DroppedIsSettled /\ DispatchedOnce
  BY DEF Init, FlightOK, Live, ConfirmedOK, RowsOK, DroppedIsSettled, DispatchedOnce
<1> QED
  BY <1>1, <1>2 DEF MailInv

LEMMA StepMail == MailInv /\ [Next]_vars => MailInv'
<1> SUFFICES ASSUME MailInv, [Next]_vars PROVE MailInv'
  OBVIOUS
<1>1. CASE UNCHANGED vars
  BY <1>1 DEF vars, senderVars, receiverVars, MailInv, MailTypeOK, FlightOK, Live,
              ConfirmedOK, RowsOK, DroppedIsSettled, DispatchedOnce, Done, Settled
<1>2. CASE Next
  BY <1>2, StepSender, StepReceiver DEF Next, PullStep, Cleanup
<1> QED
  BY <1>1, <1>2

(* The strengthened invariant holds, whatever is lost, repeated, delayed,  *)
(* cancelled, expired or deleted.                                          *)
THEOREM MailInvariance == Spec => []MailInv
<1>1. Init => MailInv
  BY InitMail
<1>2. MailInv /\ [Next]_vars => MailInv'
  BY StepMail
<1> QED
  BY <1>1, <1>2, PTL DEF Spec

(* Every variable keeps its type.                                          *)
THEOREM MailTypeCorrect == Spec => []MailTypeOK
<1>1. MailInv => MailTypeOK
  BY DEF MailInv
<1> QED
  BY <1>1, MailInvariance, PTL

(* The sender lets go of an item only when it is settled or expired        *)
(* (mark_outbox_delivered_for_peer and mark_outbox_pull_delivered).        *)
THEOREM NothingDropped == Spec => []DroppedIsSettled
<1>1. MailInv => DroppedIsSettled
  BY DEF MailInv
<1> QED
  BY <1>1, MailInvariance, PTL

(* An item whose row is kept is stored once (store_mail_from_sync).        *)
THEOREM StoredOnceTheorem == Spec => []StoredOnce
<1>1. MailInv => StoredOnce
  BY DEF MailInv, RowsOK, StoredOnce
<1> QED
  BY <1>1, MailInvariance, PTL

(* A handler runs at most once for each time its item was stored           *)
(* (_dispatch_system_item).                                                *)
THEOREM DispatchedOnceTheorem == Spec => []DispatchedOnce
<1>1. MailInv => DispatchedOnce
  BY DEF MailInv
<1> QED
  BY <1>1, MailInvariance, PTL
-----------------------------------------------------------------------------
(* MailSync implements MailDelivery: a step of the sender changes at most  *)
(* what is released, a step of the receiver what is kept, and everything   *)
(* in flight was posted before.                                            *)

(* Whatever is in flight, or arrived, is an item the sender has posted.    *)
PostedOK ==
  /\ batch \cup pulled \cup expired \cup inbox \subseteq Posted
  /\ \A m \in wire : m.items \subseteq Posted

RefInv == MailInv /\ PostedOK

\* What a change of status posts and releases
LEMMA SetStatusPosted ==
  ASSUME MailTypeOK, NEW set, NEW s \in Status \ {"none"}, SetStatus(set, s)
  PROVE  /\ Posted' = Posted
         /\ Released' = IF s \in {"delivered", "gone"}
                        THEN Released \cup {i \in Posted : i \in set}
                        ELSE Released \ {i \in set : outbox[i] = "delivered"}
BY DEF MailTypeOK, SetStatus, Posted, Released, Status

\* Messages that are made not live keep their items.
LEMMA UnawaitedPosted ==
  ASSUME MailTypeOK, PostedOK, Unawaited
  PROVE  \A m \in wire' : m.items \subseteq Posted
<1>1. \A m \in Messages : [m EXCEPT !.live = FALSE].items = m.items
  BY DEF Messages
<1> QED
  BY <1>1 DEF Unawaited, PostedOK, MailTypeOK, Messages
-----------------------------------------------------------------------------
(* Steps as steps of the abstract specification.                           *)

\* Letting go of settled items is Release, taking items back is Resume.
LEMMA SenderMaps ==
  ASSUME Posted' = Posted, UNCHANGED <<receiverVars, expired>>,
         \/ Released' \subseteq Released
         \/ /\ Released \subseteq Released'
            /\ \A i \in Released' : i \in Released \/ (i \in Posted /\ Done(i))
  PROVE  [Delivery!DeliveryNext]_(Delivery!deliveryVars)
<1>1. Released \subseteq Items /\ Released' \subseteq Items
  BY DEF Released
<1>2. CASE Released' \subseteq Released
  <2> DEFINE set == Released \ Released'
  <2>1. set \in SUBSET Items /\ Released' = Released \ set
    BY <1>1, <1>2
  <2>2. Delivery!Resume(set)
    BY <2>1 DEF Delivery!Resume, receiverVars
  <2> QED
    BY <2>1, <2>2 DEF Delivery!DeliveryNext
<1>3. CASE /\ Released \subseteq Released'
           /\ \A i \in Released' : i \in Released \/ (i \in Posted /\ Done(i))
  <2> DEFINE set == Released' \ Released
  <2>1. set \in SUBSET Items /\ Released' = Released \cup set
    BY <1>1, <1>3
  <2>2. set \subseteq {i \in Posted : stores[i] > 0 \/ i \in declined \cup expired}
    BY <1>3 DEF Done, Settled
  <2>3. Delivery!Release(set)
    BY <2>1, <2>2 DEF Delivery!Release, receiverVars
  <2> QED
    BY <2>1, <2>3 DEF Delivery!DeliveryNext
<1> QED
  BY <1>2, <1>3

\* Looking at a set of posted items is Deliver.
LEMMA AcceptMaps ==
  ASSUME MailTypeOK, NEW set \in SUBSET Items, set \subseteq Posted, Accept(set),
         UNCHANGED <<outbox, runs, expired>>
  PROVE  [Delivery!DeliveryNext]_(Delivery!deliveryVars)
<1> DEFINE new == Stored(set \ (Unwelcome \cup expired))
           no  == set \cap (Unwelcome \cup expired)
<1>1. /\ inbox' = inbox \cup new /\ todo' = todo \cup (new \cap System)
      /\ stores' = [i \in Items |-> IF i \in new THEN stores[i] + 1 ELSE stores[i]]
      /\ declined' = declined \cup no
  BY DEF Accept
<1>2. new \subseteq Posted \ inbox /\ no \subseteq Posted /\ new \in SUBSET Items /\ no \in SUBSET Items
  BY DEF Stored
<1>3. Posted' = Posted /\ Released' = Released
  BY DEF Posted, Released
<1> HIDE DEF new, no
<1>4. Delivery!Deliver(new, no)
  BY <1>1, <1>2, <1>3 DEF Delivery!Deliver
<1> QED
  BY <1>2, <1>4 DEF Delivery!DeliveryNext

\* What the outbox does to the rows of a step of the sender.
LEMMA StepSenderMaps ==
  ASSUME RefInv,
         \/ \E i \in Items : Enqueue(i) \/ Expire(i)
         \/ PushStart \/ PushStep \/ PushFails \/ PushCancelled
         \/ Revert \/ Abandon \/ PurgeDelivered \/ PurgeExpired \/ PullAck
  PROVE  PostedOK' /\ [Delivery!DeliveryNext]_(Delivery!deliveryVars)
<1> USE DEF RefInv, MailInv
<1>1. ASSUME NEW i \in Items, Enqueue(i)
      PROVE  PostedOK' /\ [Delivery!DeliveryNext]_(Delivery!deliveryVars)
  <2>1. Posted' = Posted \cup {i} /\ i \notin Posted /\ Released' = Released
    BY <1>1 DEF Enqueue, Posted, Released, MailTypeOK
  <2>2. PostedOK'
    BY <1>1, <2>1 DEF Enqueue, PostedOK, receiverVars
  <2>3. Delivery!Post(i)
    BY <1>1, <2>1 DEF Enqueue, Delivery!Post, receiverVars
  <2> QED
    BY <2>2, <2>3 DEF Delivery!DeliveryNext
<1>2. ASSUME NEW i \in Items, Expire(i)
      PROVE  PostedOK' /\ [Delivery!DeliveryNext]_(Delivery!deliveryVars)
  <2>1. Posted' = Posted /\ i \in Posted /\ Released' = Released
    BY <1>2 DEF Expire, Posted, Released, senderVars
  <2>2. PostedOK'
    BY <1>2, <2>1 DEF Expire, PostedOK, receiverVars, senderVars
  <2>3. Delivery!Lapse(i)
    BY <1>2, <2>1 DEF Expire, Delivery!Lapse, receiverVars
  <2> QED
    BY <2>2, <2>3 DEF Delivery!DeliveryNext
<1>3. CASE PushStart
  <2>1. Posted' = Posted /\ Released' = Released /\ In("pending") \subseteq Posted
    BY <1>3 DEF PushStart, Posted, Released, In
  <2>2. PostedOK'
    BY <1>3, <2>1 DEF PushStart, PostedOK, receiverVars
  <2> QED
    BY <1>3, <2>1, <2>2, SenderMaps DEF PushStart
<1>4. CASE MarkSending
  <2>1. Posted' = Posted /\ Released' \subseteq Released
    BY <1>4, SetStatusPosted DEF MarkSending, Status
  <2>2. PostedOK'
    BY <1>4, <2>1 DEF MarkSending, PostedOK, receiverVars
  <2> QED
    BY <1>4, <2>1, <2>2, SenderMaps DEF MarkSending
<1>5. CASE Send
  <2>1. PICK stopped \in SUBSET batch :
          /\ SetStatus(stopped, "pending")
          /\ IF stopped = batch
             THEN batch' = {} /\ UNCHANGED wire
             ELSE UNCHANGED batch /\ wire' = wire \cup {[items |-> batch \ stopped, live |-> TRUE]}
    BY <1>5 DEF Send
  <2>2. Posted' = Posted /\ Released' \subseteq Released
    BY <2>1, SetStatusPosted DEF Status
  <2>3. PostedOK'
    BY <1>5, <2>1, <2>2 DEF Send, PostedOK, receiverVars
  <2> QED
    BY <1>5, <2>2, <2>3, SenderMaps DEF Send
<1>6. CASE MarkDelivered
  <2>1. /\ Posted' = Posted /\ Released \subseteq Released'
        /\ \A i \in Released' : i \in Released \/ (i \in Posted /\ i \in ack)
    BY <1>6 DEF MarkDelivered, Posted, Released, MailTypeOK
  <2>2. \A i \in ack : Done(i)
    BY DEF ConfirmedOK
  <2>3. PostedOK'
    BY <1>6, <2>1 DEF MarkDelivered, PostedOK, receiverVars
  <2> QED
    BY <1>6, <2>1, <2>2, <2>3, SenderMaps DEF MarkDelivered
<1>7. CASE MarkPending
  <2>1. Posted' = Posted /\ Released' \subseteq Released
    BY <1>7, SetStatusPosted DEF MarkPending, Status
  <2>2. PostedOK'
    BY <1>7, <2>1 DEF MarkPending, PostedOK, receiverVars
  <2> QED
    BY <1>7, <2>1, <2>2, SenderMaps DEF MarkPending
<1>8. CASE PushFails \/ PushCancelled
  <2>1. Posted' = Posted /\ Released' = Released
    BY <1>8 DEF PushFails, PushCancelled, Posted, Released
  <2>2. batch' \subseteq batch /\ UNCHANGED <<pulled, expired, receiverVars>> /\ Unawaited
    BY <1>8 DEF PushFails, PushCancelled
  <2>3. PostedOK'
    BY <2>1, <2>2, UnawaitedPosted DEF PostedOK, receiverVars
  <2> QED
    BY <2>1, <2>2, <2>3, SenderMaps
<1>9. CASE Revert \/ Abandon \/ PurgeDelivered
  <2>1. Posted' = Posted /\ Released' = Released
    <3>1. CASE Revert
      BY <3>1 DEF Revert, Posted, Released, In, MailTypeOK
    <3>2. CASE Abandon
      BY <3>2 DEF Abandon, SetStatus, Posted, Released, In, MailTypeOK
    <3>3. CASE PurgeDelivered
      BY <3>3 DEF PurgeDelivered, SetStatus, Posted, Released, In, MailTypeOK
    <3> QED
      BY <1>9, <3>1, <3>2, <3>3
  <2>2. UNCHANGED <<batch, wire, pulled, expired, receiverVars>>
    BY <1>9 DEF Revert, Abandon, PurgeDelivered
  <2>3. PostedOK'
    BY <2>1, <2>2 DEF PostedOK, receiverVars
  <2> QED
    BY <2>1, <2>2, <2>3, SenderMaps
<1>10. CASE PurgeExpired
  <2>1. Posted' = Posted /\ Released' = Released \cup {i \in Posted : i \in expired}
    BY <1>10, SetStatusPosted DEF PurgeExpired, Status
  <2>2. PostedOK'
    BY <1>10, <2>1 DEF PurgeExpired, PostedOK, receiverVars
  <2> QED
    BY <1>10, <2>1, <2>2, SenderMaps DEF PurgeExpired, Done
<1>11. CASE PullAck
  <2>1. Posted' = Posted /\ Released' = Released \cup {i \in Posted : i \in pulled}
    BY <1>11, SetStatusPosted DEF PullAck, Status
  <2>2. \A i \in pulled : Done(i)
    BY <1>11 DEF PullAck, ConfirmedOK
  <2>3. PostedOK'
    BY <1>11, <2>1 DEF PullAck, PostedOK, receiverVars
  <2> QED
    BY <1>11, <2>1, <2>2, <2>3, SenderMaps DEF PullAck
<1> QED
  BY <1>1, <1>2, <1>3, <1>4, <1>5, <1>6, <1>7, <1>8, <1>9, <1>10, <1>11 DEF PushStep

\* A receiver that looked at posted items keeps posted items.
LEMMA AcceptPosted ==
  ASSUME PostedOK, NEW set, set \subseteq Posted, Accept(set), UNCHANGED outbox,
         UNCHANGED <<batch, expired>>, pulled' \subseteq Posted,
         \A m \in wire' : \E n \in wire : m.items = n.items
  PROVE  PostedOK'
<1>1. Posted' = Posted
  BY DEF Posted
<1>2. inbox' \subseteq Posted
  BY DEF Accept, Stored, PostedOK
<1> QED
  BY <1>1, <1>2 DEF PostedOK

LEMMA StepReceiverMaps ==
  ASSUME RefInv,
         \/ \E i \in Items : Dispatch(i) \/ Forget(i)
         \/ \E m \in Messages : Receive(m) \/ ReceiveTwice(m) \/ ReceiveSome(m)
                               \/ ReceiveEarlier(m)
         \/ PullAnswer \/ PullStore \/ PullLost \/ ReceiverCrash
  PROVE  PostedOK' /\ [Delivery!DeliveryNext]_(Delivery!deliveryVars)
<1> USE DEF RefInv, MailInv
<1>1. ASSUME NEW i \in Items, Dispatch(i)
      PROVE  PostedOK' /\ [Delivery!DeliveryNext]_(Delivery!deliveryVars)
  <2>1. Posted' = Posted /\ Released' = Released
    BY <1>1 DEF Dispatch, Posted, Released, senderVars
  <2>2. PostedOK'
    BY <1>1, <2>1 DEF Dispatch, PostedOK, senderVars
  <2>3. Delivery!Handle(i)
    BY <1>1, <2>1 DEF Dispatch, Delivery!Handle
  <2> QED
    BY <2>2, <2>3 DEF Delivery!DeliveryNext
<1>2. ASSUME NEW i \in Items, Forget(i)
      PROVE  PostedOK' /\ [Delivery!DeliveryNext]_(Delivery!deliveryVars)
  <2>1. Posted' = Posted /\ Released' = Released
    BY <1>2 DEF Forget, Posted, Released, senderVars
  <2>2. PostedOK'
    BY <1>2, <2>1 DEF Forget, PostedOK, senderVars
  <2>3. Delivery!Remove(i)
    BY <1>2, <2>1 DEF Forget, Delivery!Remove
  <2> QED
    BY <2>2, <2>3 DEF Delivery!DeliveryNext
<1>3. ASSUME NEW m \in Messages,
             Receive(m) \/ ReceiveTwice(m) \/ ReceiveSome(m) \/ ReceiveEarlier(m)
      PROVE  PostedOK' /\ [Delivery!DeliveryNext]_(Delivery!deliveryVars)
  <2>1. PICK set \in SUBSET m.items : Accept(set)
    BY <1>3 DEF Receive, ReceiveTwice, ReceiveSome, ReceiveEarlier
  <2>2. /\ m \in wire /\ \A k \in wire' : \E n \in wire : k.items = n.items
    <3>1. CASE ReceiveEarlier(m)
      <4>1. \A n \in Messages : [n EXCEPT !.live = FALSE].items = n.items
        BY DEF Messages
      <4> QED
        BY <3>1, <4>1 DEF ReceiveEarlier, MailTypeOK, Messages
    <3> QED
      BY <1>3, <3>1 DEF Receive, ReceiveTwice, ReceiveSome
  <2>3. UNCHANGED <<outbox, batch, pulled, expired, runs>>
    BY <1>3 DEF Receive, ReceiveTwice, ReceiveSome, ReceiveEarlier, senderVars
  <2>4. set \subseteq Posted /\ set \in SUBSET Items
    BY <2>1, <2>2 DEF PostedOK, Posted
  <2>5. pulled' \subseteq Posted
    BY <2>3 DEF PostedOK
  <2> QED
    BY <2>1, <2>2, <2>3, <2>4, <2>5, AcceptMaps, AcceptPosted
<1>4. CASE PullStore
  <2>1. pulled \subseteq Posted /\ pulled \in SUBSET Items
    BY DEF PostedOK, Posted
  <2> QED
    BY <1>4, <2>1, AcceptMaps, AcceptPosted DEF PullStore, senderVars
<1>5. CASE PullAnswer \/ PullLost
  <2>1. Posted' = Posted /\ Released' = Released
    BY <1>5 DEF PullAnswer, PullLost, Posted, Released, senderVars
  <2>2. pulled' \subseteq Posted
    BY <1>5 DEF PullAnswer, PullLost, In, Posted
  <2>3. UNCHANGED <<batch, wire, expired, receiverVars>>
    BY <1>5 DEF PullAnswer, PullLost, senderVars
  <2>4. PostedOK'
    BY <2>1, <2>2, <2>3 DEF PostedOK, receiverVars
  <2> QED
    BY <2>1, <2>3, <2>4, SenderMaps
<1>6. CASE ReceiverCrash
  <2>1. Posted' = Posted /\ Released' = Released
    BY <1>6 DEF ReceiverCrash, Posted, Released, senderVars
  <2>2. PostedOK'
    BY <1>6, <2>1 DEF ReceiverCrash, PostedOK, senderVars
  <2>3. Delivery!Restart
    BY <1>6, <2>1 DEF ReceiverCrash, Delivery!Restart
  <2> QED
    BY <2>2, <2>3 DEF Delivery!DeliveryNext
<1> QED
  BY <1>1, <1>2, <1>3, <1>4, <1>5, <1>6
-----------------------------------------------------------------------------
LEMMA InitRef == Init => RefInv /\ Delivery!DeliveryInit
<1> SUFFICES ASSUME Init PROVE RefInv /\ Delivery!DeliveryInit
  OBVIOUS
<1>1. PostedOK
  BY DEF Init, PostedOK
<1>2. Posted = {} /\ Released = {}
  BY DEF Init, Posted, Released
<1>3. Delivery!DeliveryInit
  BY <1>2 DEF Init, Delivery!DeliveryInit
<1> QED
  BY <1>1, <1>3, InitMail DEF RefInv

LEMMA StepRef ==
  RefInv /\ [Next]_vars => RefInv' /\ [Delivery!DeliveryNext]_(Delivery!deliveryVars)
<1> SUFFICES ASSUME RefInv, [Next]_vars
             PROVE  RefInv' /\ [Delivery!DeliveryNext]_(Delivery!deliveryVars)
  OBVIOUS
<1>1. MailInv'
  BY StepMail DEF RefInv
<1>2. CASE UNCHANGED vars
  <2>1. PostedOK'
    BY <1>2 DEF vars, senderVars, receiverVars, RefInv, PostedOK, Posted
  <2>2. UNCHANGED (Delivery!deliveryVars)
    BY <1>2 DEF vars, senderVars, receiverVars, Delivery!deliveryVars, Posted, Released
  <2> QED
    BY <1>1, <2>1, <2>2 DEF RefInv
<1>3. CASE Next
  <2>1. PostedOK' /\ [Delivery!DeliveryNext]_(Delivery!deliveryVars)
    BY <1>3, StepSenderMaps, StepReceiverMaps DEF Next, PullStep, Cleanup
  <2> QED
    BY <1>1, <2>1 DEF RefInv
<1> QED
  BY <1>2, <1>3

(* Mail by push and pull, with lost answers, messages sent twice,          *)
(* cancelled pushes, restarts, expiry and cleanups, implements             *)
(* MailDelivery: mail/sync.py keeps an item until it is settled or lapsed, *)
(* and what is kept is not stored again.                                   *)
THEOREM MailImplements == Spec => MailDelivers
<1>1. Init => RefInv /\ Delivery!DeliveryInit
  BY InitRef
<1>2. RefInv /\ [Next]_vars => RefInv' /\ [Delivery!DeliveryNext]_(Delivery!deliveryVars)
  BY StepRef
<1> QED
  BY <1>1, <1>2, PTL DEF Spec, MailDelivers, Delivery!DeliverySpec
=============================================================================
