---------------------------- MODULE EconomyProofs -----------------------------
(***************************************************************************)
(* Money and documents, for every value of the constants: a transfer is    *)
(* credited once, only clean documents pass the warehouse, the ledger is   *)
(* backed by what happened and asks once per window, and the engines agree *)
(* on a price.                                                             *)
(***************************************************************************)
EXTENDS Payments, Warehouse, Settlement, Pricing, DataOpsTheorems

-----------------------------------------------------------------------------
(* Payments.  Two tables carry the argument: bcw_seen for the announcement,*)
(* and the credit receipts, which are keyed by the transaction, for the    *)
(* ledger.                                                                 *)

USE DEF payVars, chainVars, wsVars, watchVars, creditVars, foundVars

HistoryTyped ==
  /\ announced \in [Transfers -> Nat] /\ credited \in [Transfers -> Nat]

\* What was announced is in bcw_seen.
SeenOK == \A x \in Transfers : announced[x] = 0 \/ (announced[x] = 1 /\ x \in seen)

(* A receipt stands for one credit at most: the one that was made or the   *)
(* one that waits for the writer.  Two transfers of a transaction share    *)
(* it.                                                                     *)
ReceiptOK ==
  /\ \A x \in Transfers : credited[x] = 0 \/ (credited[x] = 1 /\ Receipted(x))
  /\ \A x, y \in Transfers :
       x # y /\ Tx[x] = Tx[y] => credited[x] = 0 \/ credited[y] = 0
  /\ crediting # NoTransfer =>
       /\ Receipted(crediting)
       /\ \A x \in Transfers : Tx[x] = Tx[crediting] => credited[x] = 0

PayInv == HistoryTyped /\ SeenOK /\ ReceiptOK
-----------------------------------------------------------------------------
\* Handling the page of a poll announces only what bcw_seen did not have.
LEMMA PollAnnounces ==
  ASSUME PayInv, NEW q \in polls, NEW missing, PollDone(q, missing)
  PROVE  PayInv'
<1> DEFINE fresh == Fresh(q, missing)
           mine == IF Watched(q.peer) THEN {landed[i] : i \in fresh} ELSE {}
<1>1. /\ seen' = seen \cup {landed[i] : i \in fresh}
      /\ announced' = [x \in Transfers |-> announced[x] + IF x \in mine THEN 1 ELSE 0]
      /\ UNCHANGED <<credited, crediting, creditKeys>>
  BY DEF PollDone
<1>2. \A x \in mine : x \notin seen /\ x \in seen'
  BY <1>1 DEF Fresh
<1> HIDE DEF mine
<1>3. \A x \in Transfers : announced'[x] = announced[x] + IF x \in mine THEN 1 ELSE 0
  BY <1>1
<1>4. HistoryTyped' /\ SeenOK'
  BY <1>1, <1>2, <1>3 DEF PayInv, HistoryTyped, SeenOK
<1>5. ReceiptOK'
  BY <1>1 DEF PayInv, ReceiptOK, Receipted
<1> QED BY <1>4, <1>5 DEF PayInv

\* The loop takes an event: a credit is started only without a receipt.
LEMMA CreditStarts ==
  ASSUME PayInv, CreditStart
  PROVE  PayInv'
<1> DEFINE x == Head(payBus)
<1>1. UNCHANGED <<announced, seen, credited>> /\ crediting = NoTransfer
  BY DEF CreditStart
<1>2. CASE Receipted(x) \/ x \in Strangers
  BY <1>1, <1>2 DEF CreditStart, PayInv, HistoryTyped, SeenOK, ReceiptOK, Receipted
<1>3. CASE ~Receipted(x)
  <2> PICK y : y = x
    OBVIOUS
  <2>1. CASE UNCHANGED <<crediting, creditKeys>>
    BY <1>1, <2>1 DEF PayInv, HistoryTyped, SeenOK, ReceiptOK, Receipted
  <2>2. CASE crediting' = y /\ creditKeys' = creditKeys \cup {Tx[y]}
    <3>1. \A z \in Transfers : Tx[z] = Tx[y] => credited[z] = 0
      BY <1>3 DEF PayInv, ReceiptOK, Receipted
    <3> QED BY <1>1, <2>2, <3>1 DEF PayInv, HistoryTyped, SeenOK, ReceiptOK, Receipted
  <2> QED BY <2>1, <2>2 DEF CreditStart, WriteReceipt
<1> QED BY <1>2, <1>3

\* The writer makes the credit the receipt stands for.
LEMMA CreditIsWritten ==
  ASSUME PayInv, CreditWritten
  PROVE  PayInv'
<1>1. /\ crediting # NoTransfer /\ crediting' = NoTransfer
      /\ UNCHANGED <<announced, seen, creditKeys>>
      /\ credited' = [credited EXCEPT ![crediting] = @ + 1]
  BY DEF CreditWritten
<1>2. \A z \in Transfers : credited'[z] = IF z = crediting THEN 1 ELSE credited[z]
  BY <1>1 DEF PayInv, HistoryTyped, ReceiptOK
<1>3. HistoryTyped' /\ SeenOK'
  <2>1. credited' \in [Transfers -> Nat]
    <3>1. \A z \in Transfers : credited'[z] \in Nat
      BY <1>2 DEF PayInv, HistoryTyped
    <3>2. credited' = [z \in Transfers |-> credited'[z]]
      BY <1>1 DEF PayInv, HistoryTyped
    <3> QED BY <3>1, <3>2
  <2> QED BY <1>1, <2>1 DEF PayInv, HistoryTyped, SeenOK
<1>4. ReceiptOK'
  BY <1>1, <1>2 DEF PayInv, ReceiptOK, Receipted
<1> QED BY <1>3, <1>4 DEF PayInv

\* Every step keeps the invariant; a crash may add to bcw_seen only.
LEMMA StepPaid ==
  ASSUME PayInv, [PaymentsNext]_payVars
  PROVE  PayInv'
<1>1. ASSUME NEW q \in polls, NEW missing, PollDone(q, missing) PROVE PayInv'
  BY <1>1, PollAnnounces
<1>2. CASE CreditStart
  BY <1>2, CreditStarts
<1>3. CASE CreditWritten
  BY <1>3, CreditIsWritten
<1>4. CASE PaymentsCrash
  <2>1. /\ seen \subseteq seen' /\ crediting' = NoTransfer
        /\ UNCHANGED <<announced, creditKeys, credited>>
    BY <1>4 DEF PaymentsCrash
  <2> QED BY <2>1 DEF PayInv, HistoryTyped, SeenOK, ReceiptOK, Receipted
<1>5. CASE UNCHANGED <<announced, credited, seen, crediting, creditKeys>>
  BY <1>5 DEF PayInv, HistoryTyped, SeenOK, ReceiptOK, Receipted
<1>6. CASE PaymentsProgram
  BY <1>1, <1>2, <1>3, <1>5, <1>6 DEF PaymentsProgram, TickPolls, ThirtySeconds,
     Connect, SubConfirmed, Noticed, PollRead, CreditIdles, Swallow
<1>7. CASE \/ \E h \in {Tx[x] : x \in Transfers} : Land(h)
           \/ \E p \in Payers : WatchRequest(p) \/ WatchEnds(p)
           \/ WsBreaks \/ UNCHANGED payVars
  BY <1>5, <1>7 DEF Land, WatchRequest, WatchEnds, WsBreaks
<1> QED BY <1>4, <1>6, <1>7 DEF PaymentsNext

(* Polls by tick, reconnect and notification may overlap, the cursor may   *)
(* move back and the process may die between any two steps: a transfer is  *)
(* announced and credited at most once, and so is a transaction, for any   *)
(* number of transfers, payers and faults.                                 *)
THEOREM PaidOnceTheorem == PaymentsSpec => []PaidOnce
<1>1. PaymentsInit => PayInv
  BY DEF PaymentsInit, PayInv, HistoryTyped, SeenOK, ReceiptOK
<1>2. PayInv /\ [PaymentsNext]_payVars => PayInv'
  BY StepPaid
<1>3. PayInv => PaidOnce
  BY DEF PayInv, HistoryTyped, SeenOK, ReceiptOK, PaidOnce
<1> QED BY <1>1, <1>2, <1>3, PTL DEF PaymentsSpec
HIDE DEF payVars, chainVars, wsVars, watchVars, creditVars, foundVars

-----------------------------------------------------------------------------
(* The warehouse.  The pool thread of ingest(), the coroutine that waits   *)
(* for it and the reviewers are tied together by the row of the document.  *)

USE WarehouseAssumption
USE DEF wmVars, Verdicts, QuarantineStore, QuarantineUpdateStatus

\* d has not been looked at.
Untried(d) ==
  verdict[d] = "none" /\ row[d] = "none" /\ promotes[d] = 0
  /\ wmReceipts[d] = 0 /\ ruling[d] = {}

(* The verdict is the decision about the document, a held document is the  *)
(* only one a reviewer can see, and what is still to be written has not    *)
(* been written.                                                           *)
Handled(d) ==
  /\ caller[d] = "new" => thread[d] = "idle" /\ Untried(d)
  /\ thread[d] = "queued" => Untried(d)
  /\ verdict[d] # "none" => verdict[d] = Decision(doc[d])
  /\ thread[d] \in {"announce", "done"} => verdict[d] # "none"
  /\ thread[d] = "receipt" =>
       verdict[d] = "promoted" /\ wmReceipts[d] = 0 /\ promotes[d] = 1 /\ row[d] = "none"
  /\ verdict[d] = "promoted" => row[d] = "none" /\ ruling[d] = {}
  /\ row[d] = "pending" => verdict[d] = "held" /\ promotes[d] <= wmCrashes
  /\ promotes[d] > 0 => Clean(doc[d]) /\ (verdict[d] = "promoted" \/ "approved" \in ruling[d])
  /\ wmReceipts[d] <= promotes[d] /\ promotes[d] <= 1 + wmCrashes
  /\ caller[d] = "handled" /\ ~Plain(doc[d]) =>
       Clean(doc[d]) /\ ActionOf(doc[d]) = "auto_promote"
  /\ "refused" \in ruling[d] =>
       row[d] # "pending" /\ thread[d] # "queued" /\ wmReceipts[d] <= wmCrashes

WmInv == WarehouseTypeOK /\ \A d \in Docs : Handled(d)

\* A step leaves d alone.
Idle(d) ==
  /\ doc'[d] = doc[d] /\ thread'[d] = thread[d] /\ verdict'[d] = verdict[d]
  /\ caller'[d] = caller[d] /\ row'[d] = row[d] /\ promotes'[d] = promotes[d]
  /\ wmReceipts'[d] = wmReceipts[d] /\ ruling'[d] = ruling[d] /\ wmCrashes' = wmCrashes
-----------------------------------------------------------------------------
\* A promoted document is clean and of a rule that promotes; a held one is
\* clean.
LEMMA DecisionIsClean ==
  ASSUME NEW k
  PROVE  /\ Decision(k) \in Verdicts
         /\ Decision(k) = "promoted" => Clean(k) /\ ActionOf(k) = "auto_promote"
         /\ Decision(k) = "held" => Clean(k)
<1>1. CASE Refused(k)
  BY <1>1 DEF Decision
<1>2. CASE ~Refused(k) /\ ActionOf(k) = "auto_promote"
  <2>1. Decision(k) = "promoted"
    BY <1>2 DEF Decision
  <2>2. Internal(k) \/ k.action # "reject" \/ ~k.known
    BY <1>2 DEF ActionOf
  <2> QED BY <1>2, <2>1, <2>2 DEF Clean
<1>3. CASE ~Refused(k) /\ ActionOf(k) = "hold_for_review"
  <2>1. Decision(k) = "held"
    BY <1>3 DEF Decision
  <2>2. Internal(k) \/ k.action # "reject" \/ ~k.known
    BY <1>3 DEF ActionOf
  <2> QED BY <1>3, <2>1, <2>2 DEF Clean
<1>4. CASE ~Refused(k) /\ ActionOf(k) \notin {"auto_promote", "hold_for_review"}
  BY <1>4 DEF Decision
<1> QED BY <1>1, <1>2, <1>3, <1>4

\* A document that is left alone stays handled.
LEMMA IdleKeeps ==
  ASSUME NEW d \in Docs, Handled(d), Idle(d)
  PROVE  Handled(d)'
BY DEF Idle, Handled, Untried

\* The first effect of ingest() on a queued document.
LEMMA IngestHandled ==
  ASSUME WmInv, NEW d \in Docs, Ingest(d)
  PROVE  WmInv'
<1> DEFINE v == Decision(doc[d])
<1>1. v \in Verdicts /\ (v = "promoted" \/ v = "held" => Clean(doc[d]))
  BY DecisionIsClean
<1>2. /\ thread[d] = "queued" /\ verdict' = [verdict EXCEPT ![d] = v]
      /\ UNCHANGED <<doc, caller, wmReceipts, toldHeld, ruling, wmCrashes>>
  BY DEF Ingest
<1>3. /\ v = "promoted" => /\ thread' = [thread EXCEPT ![d] = "receipt"]
                           /\ promotes' = [promotes EXCEPT ![d] = @ + 1] /\ row' = row
      /\ v = "held" => /\ thread' = [thread EXCEPT ![d] = "announce"]
                       /\ row' = [row EXCEPT ![d] = "pending"]
                       /\ promotes' = [promotes EXCEPT ![d] = @ + 0]
      /\ v = "rejected" => /\ thread' = [thread EXCEPT ![d] = "done"]
                           /\ row' = [row EXCEPT ![d] = "rejected"]
                           /\ promotes' = [promotes EXCEPT ![d] = @ + 0]
  BY DEF Ingest
<1>4. Handled(d) /\ Untried(d) /\ wmCrashes \in Nat
  BY <1>2 DEF WmInv, Handled, WarehouseTypeOK
<1>5. WarehouseTypeOK' /\ \A e \in Docs : e # d => Idle(e)
  <2> HIDE DEF v
  <2>1. CASE v = "promoted"
    BY <1>2, <1>3, <2>1 DEF WmInv, WarehouseTypeOK, Idle
  <2>2. CASE v = "held"
    BY <1>2, <1>3, <2>2 DEF WmInv, WarehouseTypeOK, Idle
  <2>3. CASE v = "rejected"
    BY <1>2, <1>3, <2>3 DEF WmInv, WarehouseTypeOK, Idle
  <2> QED BY <1>1, <2>1, <2>2, <2>3
<1>6. Handled(d)'
  <2>1. v = Decision(doc'[d])
    BY <1>2
  <2> HIDE DEF v
  <2>2. /\ verdict'[d] = v /\ thread'[d] # "queued"
        /\ promotes'[d] = (IF v = "promoted" THEN 1 ELSE 0)
        /\ row'[d] = (IF v = "held" THEN "pending" ELSE IF v = "rejected" THEN "rejected" ELSE "none")
        /\ thread'[d] = "receipt" => v = "promoted"
    BY <1>1, <1>2, <1>3, <1>4 DEF WmInv, WarehouseTypeOK, Untried
  <2> QED BY <1>1, <1>2, <1>4, <2>1, <2>2 DEF Handled, Untried
<1> QED BY <1>5, <1>6, IdleKeeps DEF WmInv

\* A reviewer approves; the node may die before the row says so.
LEMMA ApproveHandled ==
  ASSUME WmInv, NEW d \in Docs, NEW done \in 1..3, Approve(d, done)
  PROVE  WmInv'
<1>1. /\ row[d] = "pending" /\ ruling' = [ruling EXCEPT ![d] = @ \cup {"approved"}]
      /\ promotes' = [promotes EXCEPT ![d] = @ + 1] /\ UNCHANGED <<doc, verdict>>
      /\ \/ wmReceipts' = [wmReceipts EXCEPT ![d] = @ + 1]
         \/ wmReceipts' = wmReceipts
  BY DEF Approve
<1>2. wmCrashes \in Nat /\ promotes[d] \in Nat /\ wmReceipts[d] \in Nat /\ ruling[d] \subseteq {"approved", "refused"}
  BY DEF WmInv, WarehouseTypeOK
<1>3. /\ verdict[d] = "held" /\ Decision(doc[d]) = "held" /\ promotes[d] <= wmCrashes
      /\ wmReceipts[d] <= promotes[d] /\ "refused" \notin ruling[d]
      /\ caller[d] # "new" /\ thread[d] \notin {"queued", "receipt"}
  BY <1>1 DEF WmInv, Handled, Untried
<1>4. Clean(doc[d])
  BY <1>3, DecisionIsClean
<1>5. /\ promotes' \in [Docs -> Nat] /\ wmReceipts' \in [Docs -> Nat]
      /\ ruling' \in [Docs -> SUBSET {"approved", "refused"}]
      /\ promotes'[d] = promotes[d] + 1 /\ wmReceipts'[d] <= promotes'[d]
      /\ "approved" \in ruling'[d] /\ "refused" \notin ruling'[d]
      /\ \A e \in Docs : e # d => /\ promotes'[e] = promotes[e] /\ wmReceipts'[e] = wmReceipts[e]
                                  /\ ruling'[e] = ruling[e]
  BY <1>1, <1>2, <1>3 DEF WmInv, WarehouseTypeOK
<1>6. CASE done = 3
  <2>1. row' = [row EXCEPT ![d] = "promoted"] /\ UNCHANGED <<thread, caller, toldHeld, wmCrashes>>
    BY <1>6 DEF Approve
  <2>2. WarehouseTypeOK' /\ \A e \in Docs : e # d => Idle(e)
    BY <1>1, <1>5, <2>1 DEF WmInv, WarehouseTypeOK, Idle
  <2>3. row'[d] = "promoted"
    BY <2>1 DEF WmInv, WarehouseTypeOK
  <2>4. Handled(d)'
    BY <1>1, <1>2, <1>3, <1>4, <1>5, <2>1, <2>3 DEF WmInv, Handled, Untried
  <2> QED BY <2>2, <2>4, IdleKeeps DEF WmInv
<1>7. CASE done # 3
  <2>1. /\ UNCHANGED row /\ wmCrashes < MaxWmCrashes /\ wmCrashes' = wmCrashes + 1
        /\ toldHeld' = [e \in Docs |-> FALSE] /\ thread' = [e \in Docs |-> "idle"]
        /\ caller' = [e \in Docs |-> IF caller[e] = "waiting" THEN "dropped" ELSE caller[e]]
    BY <1>7 DEF Approve, Died
  <2>2. WarehouseTypeOK'
    BY <1>1, <1>5, <2>1 DEF WmInv, WarehouseTypeOK
  <2>3. Handled(d)'
    BY <1>1, <1>2, <1>3, <1>4, <1>5, <2>1 DEF WmInv, Handled, Untried
  <2>4. ASSUME NEW e \in Docs, e # d PROVE Handled(e)'
    <3>1. promotes[e] \in Nat /\ wmReceipts[e] \in Nat
      BY DEF WmInv, WarehouseTypeOK
    <3> QED BY <1>1, <1>2, <1>5, <2>1, <2>4, <3>1 DEF WmInv, Handled, Untried
  <2> QED BY <2>2, <2>3, <2>4 DEF WmInv
<1> QED BY <1>6, <1>7

\* The other steps.
LEMMA StepHandled ==
  ASSUME WmInv, [WarehouseNext]_wmVars
  PROVE  WmInv'
<1>1. ASSUME NEW d \in Docs, DocArrives(d) PROVE WmInv'
  <2>1. WarehouseTypeOK' /\ \A e \in Docs : e # d => Idle(e)
    BY <1>1 DEF DocArrives, WmInv, WarehouseTypeOK, Idle
  <2>2. /\ caller'[d] = "handled" => Plain(doc[d])
        /\ caller'[d] # "new" /\ thread'[d] \in {"idle", "queued"}
        /\ Untried(d) /\ wmCrashes \in Nat
    BY <1>1 DEF DocArrives, WmInv, Handled, WarehouseTypeOK
  <2>3. UNCHANGED <<doc, verdict, row, promotes, wmReceipts, ruling, wmCrashes>>
    BY <1>1 DEF DocArrives
  <2>4. Handled(d)'
    BY <2>2, <2>3 DEF Handled, Untried
  <2> QED BY <2>1, <2>4, IdleKeeps DEF WmInv
<1>2. ASSUME NEW d \in Docs, Ingest(d) PROVE WmInv'
  BY <1>2, IngestHandled
<1>3. ASSUME NEW d \in Docs, IngestEnds(d) PROVE WmInv'
  <2>1. WarehouseTypeOK' /\ \A e \in Docs : e # d => Idle(e)
    <3>1. /\ \/ wmReceipts' = wmReceipts
             \/ wmReceipts' = [wmReceipts EXCEPT ![d] = @ + 1]
          /\ \/ toldHeld' = toldHeld
             \/ toldHeld' = [toldHeld EXCEPT ![d] = TRUE]
          /\ thread' = [thread EXCEPT ![d] = "done"]
          /\ UNCHANGED <<doc, verdict, caller, row, promotes, ruling, wmCrashes>>
      BY <1>3 DEF IngestEnds
    <3>2. /\ wmReceipts' \in [Docs -> Nat] /\ toldHeld' \in [Docs -> BOOLEAN]
          /\ \A e \in Docs : e # d => wmReceipts'[e] = wmReceipts[e]
      <4>1. wmReceipts \in [Docs -> Nat] /\ toldHeld \in [Docs -> BOOLEAN]
        BY DEF WmInv, WarehouseTypeOK
      <4>2. CASE toldHeld' = toldHeld
        BY <3>1, <4>1, <4>2
      <4>3. CASE toldHeld' = [toldHeld EXCEPT ![d] = TRUE]
        <5>1. toldHeld' \in [Docs -> BOOLEAN]
          BY <4>1, <4>3
        <5> QED BY <3>1, <4>1, <5>1
      <4> QED BY <3>1, <4>2, <4>3
    <3> QED BY <3>1, <3>2 DEF WmInv, WarehouseTypeOK, Idle
  <2>2. /\ thread[d] \in {"receipt", "announce"} /\ thread'[d] = "done"
        /\ wmReceipts'[d] = wmReceipts[d] + (IF thread[d] = "receipt" THEN 1 ELSE 0)
        /\ UNCHANGED <<doc, verdict, caller, row, promotes, ruling, wmCrashes>>
    BY <1>3 DEF IngestEnds, WmInv, WarehouseTypeOK
  <2>3. thread[d] = "announce" => verdict[d] # "none"
    BY DEF WmInv, Handled, Untried
  <2>4. Handled(d)'
    BY <2>2, <2>3 DEF WmInv, Handled, Untried, WarehouseTypeOK
  <2> QED BY <2>1, <2>4, IdleKeeps DEF WmInv
<1>4. ASSUME NEW d \in Docs, IngestTimeout(d) \/ IngestReturns(d) PROVE WmInv'
  <2>1. WarehouseTypeOK' /\ \A e \in Docs : e # d => Idle(e)
    BY <1>4 DEF IngestTimeout, IngestReturns, WmInv, WarehouseTypeOK, Idle
  <2>2. /\ UNCHANGED <<doc, thread, verdict, row, promotes, wmReceipts, ruling, wmCrashes>>
        /\ caller'[d] = "dropped" \/ (caller'[d] = "handled" /\ verdict[d] = "promoted")
    BY <1>4 DEF IngestTimeout, IngestReturns, WmInv, WarehouseTypeOK
  <2>3. verdict[d] = "promoted" => Clean(doc[d]) /\ ActionOf(doc[d]) = "auto_promote"
    BY DecisionIsClean DEF WmInv, Handled
  <2>4. Handled(d)'
    BY <2>2, <2>3 DEF WmInv, Handled, Untried
  <2> QED BY <2>1, <2>4, IdleKeeps DEF WmInv
<1>5. ASSUME NEW d \in Docs, Reject(d) PROVE WmInv'
  <2>1. WarehouseTypeOK' /\ \A e \in Docs : e # d => Idle(e)
    BY <1>5 DEF Reject, WmInv, WarehouseTypeOK, Idle
  <2>2. /\ row[d] = "pending" /\ row'[d] = "rejected"
        /\ ruling'[d] = ruling[d] \cup {"refused"}
        /\ UNCHANGED <<doc, thread, verdict, caller, promotes, wmReceipts, wmCrashes>>
    BY <1>5 DEF Reject, WmInv, WarehouseTypeOK
  <2>3. wmReceipts[d] \in Nat /\ promotes[d] \in Nat /\ wmCrashes \in Nat
    BY DEF WmInv, WarehouseTypeOK
  <2>4. Handled(d)'
    BY <2>2, <2>3 DEF WmInv, Handled, Untried
  <2> QED BY <2>1, <2>4, IdleKeeps DEF WmInv
<1>6. ASSUME NEW d \in Docs, NEW done \in 1..3, Approve(d, done) PROVE WmInv'
  BY <1>6, ApproveHandled
<1>7. CASE WarehouseCrash
  <2>1. /\ wmCrashes < MaxWmCrashes /\ wmCrashes' = wmCrashes + 1
        /\ thread' = [e \in Docs |-> "idle"] /\ toldHeld' = [e \in Docs |-> FALSE]
        /\ caller' = [e \in Docs |-> IF caller[e] = "waiting" THEN "dropped" ELSE caller[e]]
        /\ UNCHANGED <<doc, verdict, row, promotes, wmReceipts, ruling>>
    BY <1>7 DEF WarehouseCrash, Died
  <2>2. WarehouseTypeOK'
    BY <2>1 DEF WmInv, WarehouseTypeOK
  <2>3. ASSUME NEW e \in Docs PROVE Handled(e)'
    <3>1. promotes[e] \in Nat /\ wmReceipts[e] \in Nat /\ wmCrashes \in Nat
      BY DEF WmInv, WarehouseTypeOK
    <3> QED BY <2>1, <3>1 DEF WmInv, Handled, Untried
  <2> QED BY <2>2, <2>3 DEF WmInv
<1>8. CASE Recover
  <2>1. WarehouseTypeOK'
    BY <1>8 DEF Recover, QuarantinePending, WmInv, WarehouseTypeOK
  <2> QED BY <1>8, <2>1, IdleKeeps DEF Recover, WmInv, Idle
<1>9. CASE UNCHANGED wmVars
  BY <1>9, IdleKeeps DEF WmInv, WarehouseTypeOK, Idle
<1> QED BY <1>1, <1>2, <1>3, <1>4, <1>5, <1>6, <1>7, <1>8, <1>9 DEF WarehouseNext

(* Whatever deadline, restart or review comes between, an event or receipt *)
(* of a promotion, and the call of a handler, exist only for a document    *)
(* that passed the gates of its rule and that the rule or a reviewer lets  *)
(* through; promotions exceed one only by crashes in an approval; for any  *)
(* number of documents, any rules and any number of crashes.               *)
THEOREM OnlyCleanPassesTheorem == WarehouseSpec => []OnlyCleanPasses
<1>1. WarehouseInit => WmInv
  <2> SUFFICES ASSUME WarehouseInit PROVE WmInv
    OBVIOUS
  <2>1. WarehouseTypeOK
    BY DEF WarehouseInit, WarehouseTypeOK
  <2> QED BY <2>1 DEF WarehouseInit, WmInv, Handled, Untried
<1>2. WmInv /\ [WarehouseNext]_wmVars => WmInv'
  BY StepHandled
<1>3. WmInv => OnlyCleanPasses
  BY DEF WmInv, Handled, OnlyCleanPasses
<1> QED BY <1>1, <1>2, <1>3, PTL DEF WarehouseSpec
HIDE WarehouseAssumption
HIDE DEF wmVars, Verdicts, QuarantineStore, QuarantineUpdateStatus

-----------------------------------------------------------------------------
(* Settlement.  The rows of a tick are worked on concurrently; what each   *)
(* handler is at is tied to its row, to the cadence of its peer and to the *)
(* ledger.                                                                 *)

\* The rows of a kind that asks are unique per peer as long as they wait, and a
\* confirmation that was found good is one.
RowsOK ==
  /\ Len(rows) <= MaxRows
  /\ \A i \in DOMAIN rows : rows[i].kind = "soft" => rows[i].col = rows[i].peer
  /\ \A i, k \in Pending :
       rows[i].kind = "soft" /\ rows[k].kind = "soft" /\ rows[i].peer = rows[k].peer => i = k
  /\ \A i \in passed : rows[i].kind = "confirmation"

\* A row is worked on once, while it waits, and by the handler of its kind.
JobsOK ==
  /\ \A j \in jobs :
       /\ j.row \in Pending
       /\ j.at \in {"enqueue", "sent"} => rows[j.row].kind = "soft"
       /\ j.at = "accepted" => rows[j.row].kind = "request"
       /\ j.at = "delta" => j.row \in passed /\ Covers(rows[j.row].amount, j.prior) /\ j.prior # 0
  /\ \A j, k \in jobs : j.row = k.row => j = k

\* A request that is about to be enqueued found the window open, and one that
\* was counted has opened it or is about to.
CadenceOK ==
  \A p \in SPeers :
    /\ \A j \in jobs : j.at = "enqueue" /\ rows[j.row].peer = p => p \notin window
    /\ asked[p] <= 1 + sCrashes
    /\ p \notin window /\ (\A j \in jobs : j.at = "sent" => rows[j.row].peer # p) => asked[p] <= sCrashes

\* A row that waits for its effect has had it once for each crash at most.
EffectsOK ==
  \A i \in 1..MaxRows :
    /\ effects[i] <= 1 + sCrashes
    /\ i \notin DOMAIN rows => effects[i] = 0
    /\ i \in Pending /\ (\A j \in jobs : j.row = i => j.at \in {"start", "enqueue", "accepted", "delta"})
         => effects[i] <= sCrashes
    /\ i \in DOMAIN rows /\ rows[i].kind = "confirmation" /\ i \notin passed => effects[i] = 0

RefundsOK == \A t \in Tasks : refunded[t] = IF refund[t] = "applied" THEN 1 ELSE 0

Refunded(p) == {t \in Tasks : TaskPeer[t] = p /\ refunded[t] > 0}
BalanceOK ==
  \A p \in SPeers : balance[p] = settled[p] + Price * (Cardinality(Refunded(p)) - charged[p])

\* What each confirmation has paid, as often as it was written.
Written(p) ==
  [i \in DOMAIN rows |->
     IF i \in passed /\ rows[i].peer = p THEN effects[i] * (rows[i].amount + Tolerance) ELSE 0]
SettledOK == \A p \in SPeers : settled[p] <= SumTo(Written(p), Len(rows))

SettlementInv ==
  /\ SettlementTypeOK /\ RowsOK /\ JobsOK /\ CadenceOK /\ EffectsOK /\ RefundsOK
  /\ BalanceOK /\ SettledOK
-----------------------------------------------------------------------------

\* Rows as records
LEMMA RowTyped ==
  ASSUME SettlementTypeOK
  PROVE  /\ rows \in Seq([kind : Kinds, peer : SPeers, col : SPeers \cup {Own},
                          amount : Nat, status : {"pending", "processed", "failed"}])
         /\ \A i \in DOMAIN rows :
              /\ rows[i].kind \in Kinds /\ rows[i].peer \in SPeers /\ rows[i].amount \in Nat
              /\ rows[i].status \in {"pending", "processed", "failed"}
         /\ DOMAIN rows = 1..Len(rows) /\ Len(rows) \in Nat
         /\ \A j \in jobs : j.row \in DOMAIN rows /\ j.prior \in Int
<1> DEFINE Row == [kind : Kinds, peer : SPeers, col : SPeers \cup {Own}, amount : Nat,
                   status : {"pending", "processed", "failed"}]
<1>1. rows \in Seq(Row)  BY DEF SettlementTypeOK
<1> HIDE DEF Row
<1>2. DOMAIN rows = 1..Len(rows) /\ Len(rows) \in Nat /\ \A i \in DOMAIN rows : rows[i] \in Row
  BY <1>1
<1> USE DEF Row
<1>3. \A j \in jobs : j.row \in DOMAIN rows /\ j.prior \in Int  BY DEF SettlementTypeOK
<1> QED BY <1>1, <1>2, <1>3

\* The elements that SettledOK adds are numbers.
LEMMA WrittenInts ==
  ASSUME SettlementTypeOK, RowsOK, NEW p \in SPeers
  PROVE  /\ Ints(Written(p), Len(rows)) /\ SumTo(Written(p), Len(rows)) \in Int
         /\ Ints(Paid(p), Len(rows)) /\ SumTo(Paid(p), Len(rows)) \in Int
<1> USE RowTyped
<1>1. \A i \in DOMAIN rows : effects[i] \in Nat /\ rows[i].amount + Tolerance \in Nat
  <2>1. \A i \in DOMAIN rows : i \in 1..MaxRows  BY SettlementAssumption DEF RowsOK
  <2>2. \A i \in 1..MaxRows : effects[i] \in Nat  BY DEF SettlementTypeOK
  <2> QED BY <2>1, <2>2 DEF Tolerance
<1>2. \A a, b \in Nat : a * b \in Int  OBVIOUS
<1>3. Ints(Written(p), Len(rows))  BY <1>1, <1>2 DEF Ints, Written
<1>4. Ints(Paid(p), Len(rows))  BY <1>1 DEF Ints, Paid
<1> QED BY <1>3, <1>4, SumInt

\* Rows that are appended while nothing else changes but the requests.
LEMMA RowsAppended ==
  ASSUME SettlementInv, SettlementTypeOK', RowsOK',
         Len(rows) <= Len(rows'), \A i \in DOMAIN rows : rows'[i] = rows[i],
         UNCHANGED <<ledgerVars, jobs, window, refundVars, asked, effects, passed, sCrashes>>
  PROVE  SettlementInv'
<1> USE RowTyped DEF SettlementInv, Pending
<1>1. DOMAIN rows' = 1..Len(rows') /\ Len(rows') \in Nat  BY RowTyped DEF SettlementTypeOK
<1>2. \A i \in DOMAIN rows : i \in DOMAIN rows' /\ i \in 1..MaxRows
  BY <1>1, SettlementAssumption DEF RowsOK
<1>3. \A j \in jobs : j.row \in DOMAIN rows /\ j.row \in DOMAIN rows' /\ rows'[j.row] = rows[j.row]  BY <1>2
<1>4. JobsOK'  BY <1>2, <1>3 DEF JobsOK
<1>5. CadenceOK'  BY <1>3 DEF CadenceOK
<1>6. EffectsOK'
  <2> SUFFICES ASSUME NEW i \in 1..MaxRows
      PROVE  /\ effects[i] <= 1 + sCrashes
             /\ i \notin DOMAIN rows' => effects[i] = 0
             /\ i \in Pending' /\ (\A j \in jobs : j.row = i => j.at \in {"start", "enqueue", "accepted", "delta"})
                  => effects[i] <= sCrashes
             /\ i \in DOMAIN rows' /\ rows'[i].kind = "confirmation" /\ i \notin passed => effects[i] = 0
    BY DEF EffectsOK
  <2>1. sCrashes \in Nat  BY DEF SettlementTypeOK
  <2>2. CASE i \in DOMAIN rows  BY <2>2, <1>2 DEF EffectsOK
  <2>3. CASE i \notin DOMAIN rows  BY <2>3, <2>1 DEF EffectsOK
  <2> QED BY <2>2, <2>3
<1>7. RefundsOK' /\ BalanceOK'  BY DEF RefundsOK, BalanceOK, ledgerVars, refundVars, Refunded
<1>8. SettledOK'
  <2> SUFFICES ASSUME NEW p \in SPeers PROVE settled[p] <= SumTo(Written(p)', Len(rows'))
    BY DEF SettledOK, ledgerVars
  <2>1. Ints(Written(p), Len(rows))  BY WrittenInts
  <2>2. \A i \in 1..Len(rows') :
          Written(p)'[i] = IF i <= Len(rows) THEN Written(p)[i] ELSE 0
    <3> SUFFICES ASSUME NEW i \in 1..Len(rows')
                 PROVE  Written(p)'[i] = IF i <= Len(rows) THEN Written(p)[i] ELSE 0
      OBVIOUS
    <3>1. CASE i <= Len(rows)  BY <3>1, <1>1, <1>2 DEF Written
    <3>2. CASE ~(i <= Len(rows))
      <4>1. i \notin passed  BY <3>2 DEF SettlementTypeOK
      <4> QED BY <4>1, <3>2, <1>1 DEF Written
    <3> QED BY <3>1, <3>2
  <2>3. SumTo(Written(p)', Len(rows')) = SumTo(Written(p), Len(rows))
    BY <2>1, <2>2, <1>1, SumSame
  <2> QED BY <2>3 DEF SettledOK
<1> QED BY <1>4, <1>5, <1>6, <1>7, <1>8
-----------------------------------------------------------------------------
\* Row is the type of a row of the queue.
Row == [kind : Kinds, peer : SPeers, col : SPeers \cup {Own}, amount : Nat,
        status : {"pending", "processed", "failed"}]
Places == {"start", "enqueue", "sent", "accepted", "delta", "mark", "fail"}

\* A row that is written has the shape of a row.
LEMMA NewRowTyped ==
  ASSUME NEW kind \in Kinds, NEW p \in SPeers, NEW col \in SPeers \cup {Own}, NEW n \in Nat
  PROVE  NewRow(kind, p, col, n) \in Row
BY DEF NewRow, Row

\* The peers that are due have an amount to settle.
LEMMA AmountNat == ASSUME NEW b \in Int, Settles(b) PROVE Amount(b) \in Nat
<1>1. CreditRange \in Int /\ CreditRange \div 2 \in Int /\ SoftLimit \in Int /\ MinAmount \in Nat
  BY SettlementAssumption DEF CreditRange
<1> QED BY <1>1 DEF Settles, Amount

\* The types of a state with rows appended and requests changed.
LEMMA AppendedTyped ==
  ASSUME SettlementInv, rows' \in Seq(Row), Len(rows) <= Len(rows'),
         requests' \in Seq([peer : SPeers, amount : Nat, answered : BOOLEAN]) \/ UNCHANGED requests,
         UNCHANGED <<ledgerVars, jobs, window, refundVars, asked, effects, passed, sCrashes>>
  PROVE  SettlementTypeOK'
<1>1. rows' \in Seq([kind : Kinds, peer : SPeers, col : SPeers \cup {Own},
                     amount : Nat, status : {"pending", "processed", "failed"}])
  BY DEF Row
<1>2. requests' \in Seq([peer : SPeers, amount : Nat, answered : BOOLEAN])
  BY DEF SettlementInv, SettlementTypeOK
<1>3. SettlementTypeOK  BY DEF SettlementInv
<1>4. DOMAIN rows \subseteq DOMAIN rows'
  <2>1. DOMAIN rows' = 1..Len(rows') /\ Len(rows') \in Nat  OBVIOUS
  <2> QED BY <2>1, <1>3, RowTyped
<1>5. jobs' \subseteq [row : DOMAIN rows', prior : Int,
                       at : {"start", "enqueue", "sent", "accepted", "delta", "mark", "fail"}]
  BY <1>3, <1>4 DEF SettlementTypeOK
<1>6. passed' \subseteq DOMAIN rows'  BY <1>3, <1>4 DEF SettlementTypeOK
<1> QED BY <1>1, <1>2, <1>3, <1>5, <1>6 DEF SettlementTypeOK, ledgerVars, refundVars

\* The requests that were sent have a peer and an amount.
LEMMA RequestTyped ==
  ASSUME SettlementInv
  PROVE  \A k \in DOMAIN requests : /\ requests[k].peer \in SPeers /\ requests[k].amount \in Nat
                                    /\ \A n \in {requests[k].amount, 1} : n \in Nat
<1> DEFINE R == [peer : SPeers, amount : Nat, answered : BOOLEAN]
<1>1. requests \in Seq(R)  BY DEF SettlementInv, SettlementTypeOK
<1> HIDE DEF R
<1>2. \A k \in DOMAIN requests : requests[k] \in R  BY <1>1
<1> USE DEF R
<1> QED BY <1>2

\* A row that is inserted waits.
LEMMA RowInserted ==
  ASSUME SettlementInv, NEW r \in Row, Len(rows) < MaxRows, rows' = Append(rows, r), UNCHANGED passed,
         r.kind = "soft" => r.col = r.peer
                            /\ ~\E i \in Pending : rows[i].kind = "soft" /\ rows[i].peer = r.peer
  PROVE  /\ RowsOK'
         /\ Len(rows) <= Len(rows') /\ \A i \in DOMAIN rows : rows'[i] = rows[i]
         /\ rows' \in Seq(Row)
<1> USE DEF SettlementInv
<1>1. DOMAIN rows = 1..Len(rows) /\ Len(rows) \in Nat  BY RowTyped
<1>2. rows \in Seq(Row)  BY RowTyped DEF Row
<1>3. /\ rows' \in Seq(Row) /\ Len(rows') = Len(rows) + 1 /\ DOMAIN rows' = 1..Len(rows')
      /\ \A i \in 1..Len(rows) : rows'[i] = rows[i]
      /\ rows'[Len(rows) + 1] = r
  BY <1>2, AppendProperties
<1>4. Len(rows') <= MaxRows  BY <1>1, <1>3, SettlementAssumption
<1>5. \A i \in DOMAIN rows' : i \in DOMAIN rows \/ i = Len(rows) + 1  BY <1>1, <1>3
<1>6. \A i \in DOMAIN rows' : rows'[i].kind = "soft" => rows'[i].col = rows'[i].peer
  BY <1>1, <1>3, <1>5 DEF RowsOK
<1>7. ASSUME NEW i \in Pending', NEW k \in Pending', rows'[i].kind = "soft", rows'[k].kind = "soft",
             rows'[i].peer = rows'[k].peer
      PROVE  i = k
  BY <1>1, <1>3, <1>5, <1>7 DEF RowsOK, Pending
<1>8. \A i \in passed' : rows'[i].kind = "confirmation"
  BY <1>1, <1>3 DEF RowsOK, SettlementTypeOK
<1>9. RowsOK'  BY <1>4, <1>6, <1>7, <1>8 DEF RowsOK
<1>10. Len(rows) <= Len(rows')  BY <1>1, <1>3
<1> QED BY <1>1, <1>3, <1>9, <1>10

LEMMA NettingCycleStep ==
  ASSUME SettlementInv, NettingCycle PROVE SettlementInv'
<1> USE DEF SettlementInv
<1> DEFINE due == {p \in SPeers : Settles(balance[p]) /\ ~HasPending(p)}
           n == Cardinality(due)
           q == SetToSeq(due)
           new == [k \in 1..n |-> NewRow("soft", q[k], q[k], Amount(balance[q[k]]))]
<1>1. IsFiniteSet(due)  BY SettlementAssumption, FS_Subset
<1>2. n \in Nat  BY <1>1, FS_CardinalityType
<1>3. /\ q \in [1..n -> due]
      /\ \A i, j \in 1..n : q[i] = q[j] => i = j
  BY <1>1, SetToSeqIs
<1>4. Len(rows) + n <= MaxRows /\ rows' = rows \o new
  BY DEF NettingCycle
<1>5. UNCHANGED <<ledgerVars, jobs, window, requests, refundVars, asked, effects, passed, sCrashes>>
  BY DEF NettingCycle
<1> HIDE DEF q, n
<1>6. \A k \in 1..n : q[k] \in SPeers /\ Settles(balance[q[k]]) /\ ~HasPending(q[k])
  BY <1>3
<1>7. \A k \in 1..n : Amount(balance[q[k]]) \in Nat
  BY <1>6, AmountNat DEF SettlementTypeOK
<1>8. \A k \in 1..n : new[k] \in Row
  BY <1>6, <1>7, NewRowTyped DEF Kinds
<1>9. \A k \in 1..n : /\ new[k].kind = "soft" /\ new[k].col = q[k] /\ new[k].peer = q[k]
  BY DEF NewRow
<1> HIDE DEF due
<1>10. new \in Seq(Row) /\ Len(new) = n
  BY <1>2, <1>8
<1> HIDE DEF new
<1>11. rows \in Seq(Row) /\ Len(rows) \in Nat /\ DOMAIN rows = 1..Len(rows)
  BY RowTyped DEF Row
<1>12. /\ rows' \in Seq(Row) /\ Len(rows') = Len(rows) + n
       /\ \A i \in 1..Len(rows') : rows'[i] = IF i <= Len(rows) THEN rows[i] ELSE new[i - Len(rows)]
  BY <1>4, <1>10, <1>11, ConcatProperties, ZenonT(30)
<1>13. DOMAIN rows' = 1..Len(rows') /\ Len(rows') \in Nat  BY <1>12
<1>14. \A i \in DOMAIN rows : rows'[i] = rows[i] /\ i \in DOMAIN rows'  BY <1>2, <1>11, <1>12, <1>13
<1>15. \A i \in DOMAIN rows' : i \notin DOMAIN rows => i - Len(rows) \in 1..n /\ rows'[i] = new[i - Len(rows)]
  BY <1>2, <1>11, <1>12, <1>13
<1>16. \A i \in DOMAIN rows' : rows'[i].kind = "soft" => rows'[i].col = rows'[i].peer
  BY <1>9, <1>14, <1>15 DEF RowsOK
<1>17. ASSUME NEW i \in Pending', NEW k \in Pending', rows'[i].kind = "soft", rows'[k].kind = "soft",
              rows'[i].peer = rows'[k].peer
       PROVE  i = k
  <2>1. i \in DOMAIN rows' /\ k \in DOMAIN rows'  BY DEF Pending
  <2>2. CASE i \in DOMAIN rows /\ k \in DOMAIN rows
    BY <2>2, <1>14, <1>17 DEF RowsOK, Pending
  <2>3. \A a \in Pending', b \in DOMAIN rows' :
          ~(a \in DOMAIN rows /\ b \notin DOMAIN rows /\ rows'[a].kind = "soft"
            /\ rows'[a].peer = rows'[b].peer)
    <3> SUFFICES ASSUME NEW a \in Pending', NEW b \in DOMAIN rows', a \in DOMAIN rows, b \notin DOMAIN rows,
                        rows'[a].kind = "soft", rows'[a].peer = rows'[b].peer
                 PROVE  FALSE
      OBVIOUS
    <3>1. a \in Pending /\ rows[a].col = rows[a].peer /\ rows[a].peer = rows'[b].peer
      BY <1>14 DEF Pending, RowsOK
    <3>2. ~HasPending(rows'[b].peer)  BY <1>15, <1>9, <1>6
    <3> QED BY <3>1, <3>2 DEF HasPending
  <2>4. CASE i \notin DOMAIN rows /\ k \notin DOMAIN rows
    <3>1. i - Len(rows) = k - Len(rows)  BY <2>1, <2>4, <1>15, <1>9, <1>3, <1>17
    <3> QED BY <3>1, <2>1, <1>13, <1>11
  <2> QED BY <2>1, <2>2, <2>3, <2>4, <1>17
<1>18. Len(rows') <= MaxRows  BY <1>4, <1>12
<1>19. \A i \in passed' : rows'[i].kind = "confirmation"
  BY <1>5, <1>14 DEF RowsOK, SettlementTypeOK
<1>20. RowsOK'  BY <1>16, <1>17, <1>18, <1>19 DEF RowsOK
<1>21. Len(rows) <= Len(rows')  BY <1>2, <1>11, <1>12
<1>22. SettlementTypeOK'
  <2>1. rows' \in Seq([kind : Kinds, peer : SPeers, col : SPeers \cup {Own},
                       amount : Nat, status : {"pending", "processed", "failed"}])
    BY <1>12 DEF Row
  <2> QED BY <2>1, <1>5, <1>14 DEF SettlementTypeOK, ledgerVars, refundVars
<1> QED BY <1>5, <1>14, <1>20, <1>21, <1>22, RowsAppended

LEMMA RequestArrivesStep ==
  ASSUME SettlementInv, NEW p \in SPeers, RequestArrives(p) PROVE SettlementInv'
<1> DEFINE r == NewRow("request", p, p, Price)
<1>1. r \in Row  BY NewRowTyped, SettlementAssumption DEF Kinds
<1>2. r.kind # "soft"  BY DEF NewRow
<1>3. /\ Len(rows) < MaxRows /\ rows' = Append(rows, r)
      /\ UNCHANGED <<ledgerVars, jobs, window, requests, refundVars, asked, effects, passed, sCrashes>>
  BY DEF RequestArrives, Insert
<1> HIDE DEF r
<1>4. /\ RowsOK' /\ Len(rows) <= Len(rows') /\ \A i \in DOMAIN rows : rows'[i] = rows[i]
      /\ rows' \in Seq(Row)
  BY <1>1, <1>2, <1>3, RowInserted
<1>5. SettlementTypeOK'
  BY <1>3, <1>4, AppendedTyped
<1> QED BY <1>3, <1>4, <1>5, RowsAppended

LEMMA ConfirmationArrivesStep ==
  ASSUME SettlementInv, NEW k \in DOMAIN requests, NEW n \in {requests[k].amount, 1},
         ConfirmationArrives(k, n)
  PROVE  SettlementInv'
<1> DEFINE p == requests[k].peer
           r == NewRow("confirmation", p, Own, n)
<1>1. p \in SPeers /\ n \in Nat  BY RequestTyped
<1>2. r \in Row  BY <1>1, NewRowTyped DEF Kinds
<1>3. r.kind # "soft"  BY DEF NewRow
<1>4. requests' \in Seq([peer : SPeers, amount : Nat, answered : BOOLEAN])
  <2> DEFINE R == [peer : SPeers, amount : Nat, answered : BOOLEAN]
             new == [requests[k] EXCEPT !.answered = TRUE]
  <2>0. requests \in Seq(R)  BY DEF SettlementInv, SettlementTypeOK
  <2>1. requests \in Seq(R) /\ requests[k] \in R
    <3> HIDE DEF R
    <3> QED BY <2>0
  <2>2. new \in R  BY <2>1
  <2>3. requests' = [requests EXCEPT ![k] = new]  BY DEF ConfirmationArrives
  <2> HIDE DEF R, new
  <2> QED BY <2>1, <2>2, <2>3 DEF R
<1>5. UNCHANGED <<ledgerVars, jobs, window, refundVars, asked, effects, passed, sCrashes>>
  BY DEF ConfirmationArrives
<1>6. CASE UNCHANGED rows
  <2>1. RowsOK' /\ Len(rows) <= Len(rows') /\ rows' \in Seq(Row)
    BY <1>5, <1>6, RowTyped DEF SettlementInv, RowsOK, Row, Pending
  <2>2. SettlementTypeOK'  BY <1>4, <1>5, <1>6, <2>1, AppendedTyped
  <2> QED BY <2>1, <2>2, <1>5, <1>6, RowsAppended
<1>7. CASE Len(rows) < MaxRows /\ rows' = Append(rows, r)
  <2> HIDE DEF r
  <2>1. /\ RowsOK' /\ Len(rows) <= Len(rows') /\ \A i \in DOMAIN rows : rows'[i] = rows[i]
        /\ rows' \in Seq(Row)
    BY <1>2, <1>3, <1>5, <1>7, RowInserted
  <2>2. SettlementTypeOK'  BY <1>4, <1>5, <2>1, AppendedTyped
  <2> QED BY <2>1, <2>2, <1>5, RowsAppended
<1> QED BY <1>6, <1>7 DEF ConfirmationArrives, Insert
-----------------------------------------------------------------------------
(* A job moves on *)

\* A handler goes on, and its row stays as it is.
LEMMA JobMoved ==
  ASSUME SettlementInv, NEW j \in jobs, NEW at \in Places, NEW prior \in Int,
         Becomes(j, at, prior), UNCHANGED rows, passed \subseteq passed',
         at \in {"enqueue", "sent"} => rows[j.row].kind = "soft",
         at = "accepted" => rows[j.row].kind = "request",
         at = "delta" => j.row \in passed' /\ Covers(rows[j.row].amount, prior) /\ prior # 0
  PROVE  /\ JobsOK'
         /\ jobs' \subseteq [row : DOMAIN rows, prior : Int,
                             at : {"start", "enqueue", "sent", "accepted", "delta", "mark", "fail"}]
         /\ \E k \in jobs' : k.row = j.row /\ k.at = at
         /\ \A k \in jobs' : k.row = j.row => k.at = at
         /\ \A k \in jobs : k.row # j.row => k \in jobs'
         /\ \A k \in jobs' : k.row # j.row => k \in jobs
         /\ \A k \in jobs : k.row = j.row => k = j
         /\ j.row \in Pending
<1> DEFINE J == [row : DOMAIN rows, prior : Int,
                 at : {"start", "enqueue", "sent", "accepted", "delta", "mark", "fail"}]
           new == At(j.row, at, prior)
<1>1. jobs \subseteq J  BY DEF SettlementInv, SettlementTypeOK
<1>2. /\ \A k \in jobs : /\ k.row \in Pending
                         /\ k.at \in {"enqueue", "sent"} => rows[k.row].kind = "soft"
                         /\ k.at = "accepted" => rows[k.row].kind = "request"
                         /\ k.at = "delta" => /\ k.row \in passed
                                              /\ Covers(rows[k.row].amount, k.prior) /\ k.prior # 0
      /\ \A i, k \in jobs : i.row = k.row => i = k
  BY DEF SettlementInv, JobsOK
<1>3. new \in J /\ new.row = j.row /\ new.at = at /\ new.prior = prior
  BY <1>1 DEF At, Places
<1> HIDE DEF J, new
<1>4. jobs' = (jobs \ {j}) \cup {new}  BY DEF Becomes, new
<1>5. Pending' = Pending  BY DEF Pending
<1>6. JobsOK'  BY <1>2, <1>3, <1>4, <1>5 DEF JobsOK
<1>7. jobs' \subseteq J  BY <1>1, <1>3, <1>4
<1>8. /\ \E k \in jobs' : k.row = j.row /\ k.at = at
      /\ \A k \in jobs' : k.row = j.row => k.at = at
      /\ \A k \in jobs : k.row # j.row => k \in jobs'
      /\ \A k \in jobs' : k.row # j.row => k \in jobs
      /\ \A k \in jobs : k.row = j.row => k = j
      /\ j.row \in Pending
  BY <1>2, <1>3, <1>4
<1> QED BY <1>6, <1>7, <1>8 DEF J

\* A step that asks nobody and opens no window.
LEMMA CadenceKept ==
  ASSUME SettlementInv, NEW i \in DOMAIN rows, UNCHANGED <<rows, window, asked, sCrashes>>,
         \A k \in jobs' : k.row # i => k \in jobs,
         \A k \in jobs : k.row # i => k \in jobs',
         \A k \in jobs' : k.row = i /\ k.at = "enqueue" => rows[i].peer \notin window,
         \A k \in jobs : k.row = i => k.at # "sent"
  PROVE  CadenceOK'
BY DEF SettlementInv, CadenceOK

\* A step without an effect that leaves its row in front of it, or takes it past.
Early == {"start", "enqueue", "accepted", "delta"}
\* What the handlers of a row have done does not grow.
LEMMA EffectsKept ==
  ASSUME SettlementInv, NEW i \in DOMAIN rows, UNCHANGED <<rows, effects, sCrashes>>, passed \subseteq passed',
         \A k \in jobs : k.row # i => k \in jobs',
         (\A k \in jobs' : k.row = i => k.at \in Early) => (\A k \in jobs : k.row = i => k.at \in Early)
  PROVE  EffectsOK'
<1>1. SUFFICES ASSUME NEW m \in 1..MaxRows
      PROVE  /\ effects[m] <= 1 + sCrashes
             /\ m \notin DOMAIN rows => effects[m] = 0
             /\ m \in Pending /\ (\A j \in jobs' : j.row = m => j.at \in {"start", "enqueue", "accepted", "delta"})
                  => effects[m] <= sCrashes
             /\ m \in DOMAIN rows /\ rows[m].kind = "confirmation" /\ m \notin passed' => effects[m] = 0
  BY DEF EffectsOK, Pending
<1>2. (\A j \in jobs' : j.row = m => j.at \in {"start", "enqueue", "accepted", "delta"})
        => (\A j \in jobs : j.row = m => j.at \in {"start", "enqueue", "accepted", "delta"})
  BY DEF Early
<1> QED BY <1>2 DEF SettlementInv, EffectsOK

\* The step that has the effect of its row.
LEMMA EffectDone ==
  ASSUME SettlementInv, NEW i \in Pending, Did(i), UNCHANGED <<rows, sCrashes, passed>>,
         \A k \in jobs : k.row = i => k.at \in Early,
         \A k \in jobs : k.row # i => k \in jobs',
         \E k \in jobs' : k.row = i /\ k.at \notin Early,
         rows[i].kind = "confirmation" => i \in passed
  PROVE  EffectsOK' /\ effects' \in [1..MaxRows -> Nat] /\ i \in 1..MaxRows /\ effects'[i] = effects[i] + 1
<1>1. sCrashes \in Nat /\ effects \in [1..MaxRows -> Nat]  BY SettlementAssumption DEF SettlementInv, SettlementTypeOK
<1>2. i \in DOMAIN rows /\ i \in 1..MaxRows
  BY RowTyped, SettlementAssumption DEF SettlementInv, RowsOK, Pending
<1>3. effects' \in [1..MaxRows -> Nat] /\ effects'[i] = effects[i] + 1
      /\ \A m \in 1..MaxRows : m # i => effects'[m] = effects[m]
  BY <1>1, <1>2 DEF Did
<1>4. effects[i] <= sCrashes  BY <1>2 DEF SettlementInv, EffectsOK, Early
<1>5. SUFFICES ASSUME NEW m \in 1..MaxRows
      PROVE  /\ effects'[m] <= 1 + sCrashes
             /\ m \notin DOMAIN rows => effects'[m] = 0
             /\ m \in Pending /\ (\A j \in jobs' : j.row = m => j.at \in {"start", "enqueue", "accepted", "delta"})
                  => effects'[m] <= sCrashes
             /\ m \in DOMAIN rows /\ rows[m].kind = "confirmation" /\ m \notin passed => effects'[m] = 0
  BY <1>2, <1>3 DEF EffectsOK, Pending
<1>6. CASE m = i  BY <1>1, <1>2, <1>3, <1>4, <1>6 DEF Early
<1>7. CASE m # i
  <2>1. (\A j \in jobs' : j.row = m => j.at \in {"start", "enqueue", "accepted", "delta"})
          => (\A j \in jobs : j.row = m => j.at \in {"start", "enqueue", "accepted", "delta"})
    BY <1>7
  <2> QED BY <1>3, <1>7, <2>1 DEF SettlementInv, EffectsOK
<1> QED BY <1>6, <1>7

\* What was written stays as long as the effects of the confirmations do.
LEMMA SettledKept ==
  ASSUME SettlementInv, UNCHANGED settled, Len(rows') = Len(rows), DOMAIN rows' = DOMAIN rows,
         \A i \in DOMAIN rows : rows'[i].peer = rows[i].peer /\ rows'[i].amount = rows[i].amount,
         \A i \in DOMAIN rows : i \in passed => i \in passed' /\ effects'[i] = effects[i],
         \A i \in DOMAIN rows : i \in passed' /\ i \notin passed => effects'[i] = 0
  PROVE  SettledOK'
<1>1. SUFFICES ASSUME NEW p \in SPeers PROVE settled[p] <= SumTo(Written(p)', Len(rows))
  BY DEF SettledOK
<1>2. DOMAIN rows = 1..Len(rows) /\ Len(rows) \in Nat
      /\ \A i \in DOMAIN rows : rows[i].amount \in Nat
  BY RowTyped DEF SettlementInv
<1>3. Ints(Written(p), Len(rows))  BY WrittenInts DEF SettlementInv
<1>4. \A i \in 1..Len(rows) : Written(p)'[i] = IF i <= Len(rows) THEN Written(p)[i] ELSE 0
  <2> SUFFICES ASSUME NEW i \in 1..Len(rows) PROVE Written(p)'[i] = Written(p)[i]  BY <1>2
  <2>1. CASE i \in passed  BY <1>2, <2>1 DEF Written
  <2>2. CASE i \notin passed /\ i \in passed'
    <3>1. effects'[i] * (rows'[i].amount + Tolerance) = 0  BY <1>2, <2>2 DEF Tolerance
    <3> QED BY <1>2, <2>2, <3>1 DEF Written
  <2>3. CASE i \notin passed'  BY <1>2, <2>3 DEF Written
  <2> QED BY <2>1, <2>2, <2>3
<1>5. SumTo(Written(p)', Len(rows)) = SumTo(Written(p), Len(rows))
  <2> DEFINE f == Written(p)
             g == Written(p)'
             n == Len(rows)
  <2>1. n \in Nat /\ n <= n /\ Ints(f, n) /\ \A i \in 1..n : g[i] = IF i <= n THEN f[i] ELSE 0
    BY <1>2, <1>3, <1>4
  <2> HIDE DEF f, g, n
  <2>2. SumTo(g, n) = SumTo(f, n)  BY <2>1, SumSame
  <2> QED BY <2>2 DEF f, g, n
<1> QED BY <1>5 DEF SettlementInv, SettledOK

\* Charges, refunds and settlements that a step leaves alone.
LEMMA MoneyKept ==
  ASSUME SettlementInv, UNCHANGED <<ledgerVars, refundVars>>
  PROVE  RefundsOK' /\ BalanceOK'
BY DEF SettlementInv, RefundsOK, BalanceOK, ledgerVars, refundVars, Refunded

\* The rows stay while jobs, requests and windows change.
LEMMA RowsKept ==
  ASSUME SettlementInv, UNCHANGED rows,
         \A i \in passed' : i \in passed \/ (i \in DOMAIN rows /\ rows[i].kind = "confirmation")
  PROVE  RowsOK'
BY DEF SettlementInv, RowsOK, Pending

\* Confirmations that were found good are rows.
LEMMA PassedRows == ASSUME SettlementInv PROVE \A i \in passed : i \in 1..MaxRows
<1>1. passed \subseteq DOMAIN rows  BY DEF SettlementInv, SettlementTypeOK
<1>2. DOMAIN rows = 1..Len(rows) /\ Len(rows) \in Nat  BY RowTyped DEF SettlementInv
<1> QED BY <1>1, <1>2, SettlementAssumption DEF SettlementInv, RowsOK

\* The handlers before their first await
LEMMA StartSteps ==
  ASSUME SettlementInv, NEW j \in jobs, SoftStart(j) \/ RequestAccepted(j) PROVE SettlementInv'
<1>1. PICK at \in {"mark", "enqueue", "accepted"} :
        /\ Becomes(j, at, 0) /\ j.at = "start"
        /\ at = "enqueue" => rows[j.row].kind = "soft" /\ rows[j.row].peer \notin window
        /\ at = "accepted" => rows[j.row].kind = "request"
        /\ UNCHANGED <<ledgerVars, rows, window, requests, refundVars, asked, effects, passed, sCrashes>>
  BY DEF SoftStart, RequestAccepted
<1>2. at \in Places  BY DEF Places
<1>3. /\ JobsOK'
      /\ jobs' \subseteq [row : DOMAIN rows, prior : Int,
                          at : {"start", "enqueue", "sent", "accepted", "delta", "mark", "fail"}]
      /\ \A k \in jobs' : k.row = j.row => k.at = at
      /\ \A k \in jobs : k.row # j.row => k \in jobs'
      /\ \A k \in jobs' : k.row # j.row => k \in jobs
      /\ \A k \in jobs : k.row = j.row => k = j
  BY <1>1, <1>2, JobMoved
<1>4. j.row \in DOMAIN rows  BY RowTyped DEF SettlementInv
<1>5. CadenceOK'  BY <1>1, <1>3, <1>4, CadenceKept
<1>6. EffectsOK'  BY <1>1, <1>3, <1>4, EffectsKept DEF Early
<1>7. SettledOK'  BY <1>1, SettledKept DEF ledgerVars
<1>8. RowsOK' /\ RefundsOK' /\ BalanceOK'  BY <1>1, RowsKept, MoneyKept
<1>9. SettlementTypeOK'  BY <1>1, <1>3 DEF SettlementInv, SettlementTypeOK, ledgerVars, refundVars
<1> QED BY <1>3, <1>5, <1>6, <1>7, <1>8, <1>9 DEF SettlementInv

LEMMA SoftEnqueuedStep ==
  ASSUME SettlementInv, NEW j \in jobs, SoftEnqueued(j) PROVE SettlementInv'
<1> DEFINE p == rows[j.row].peer
           R == [peer : SPeers, amount : Nat, answered : BOOLEAN]
<1>1. /\ Becomes(j, "sent", 0) /\ j.at = "enqueue" /\ Did(j.row)
      /\ requests' = Append(requests, [peer |-> p, amount |-> rows[j.row].amount, answered |-> FALSE])
      /\ asked' = [asked EXCEPT ![p] = @ + 1]
      /\ UNCHANGED <<ledgerVars, rows, window, refundVars, passed, sCrashes>>
  BY DEF SoftEnqueued
<1>2. "sent" \in Places  BY DEF Places
<1>3. /\ j.row \in DOMAIN rows /\ p \in SPeers /\ rows[j.row].amount \in Nat
      /\ rows[j.row].kind = "soft" /\ j.row \notin passed
  <2>1. j.row \in DOMAIN rows /\ p \in SPeers /\ rows[j.row].amount \in Nat  BY RowTyped DEF SettlementInv
  <2>2. rows[j.row].kind = "soft"  BY <1>1 DEF SettlementInv, JobsOK
  <2> QED BY <2>1, <2>2 DEF SettlementInv, RowsOK
<1>4. /\ JobsOK'
      /\ jobs' \subseteq [row : DOMAIN rows, prior : Int,
                          at : {"start", "enqueue", "sent", "accepted", "delta", "mark", "fail"}]
      /\ \E k \in jobs' : k.row = j.row /\ k.at = "sent"
      /\ \A k \in jobs' : k.row = j.row => k.at = "sent"
      /\ \A k \in jobs : k.row # j.row => k \in jobs'
      /\ \A k \in jobs' : k.row # j.row => k \in jobs
      /\ \A k \in jobs : k.row = j.row => k = j
      /\ j.row \in Pending
  BY <1>1, <1>2, <1>3, JobMoved
<1>5. EffectsOK' /\ effects' \in [1..MaxRows -> Nat] /\ \A i \in passed : effects'[i] = effects[i]
  <2>1. EffectsOK' /\ effects' \in [1..MaxRows -> Nat]  BY <1>1, <1>3, <1>4, EffectDone DEF Early
  <2>2. \A i \in passed : i \in 1..MaxRows  BY PassedRows
  <2>3. \A i \in passed : effects'[i] = effects[i]
    BY <1>1, <1>3, <2>2 DEF Did, SettlementInv, SettlementTypeOK
  <2> QED BY <2>1, <2>3
<1>6. asked \in [SPeers -> Nat] /\ sCrashes \in Nat
  BY SettlementAssumption DEF SettlementInv, SettlementTypeOK
<1>7. /\ asked' \in [SPeers -> Nat] /\ asked'[p] = asked[p] + 1
      /\ \A q \in SPeers : q # p => asked'[q] = asked[q]
  BY <1>1, <1>3, <1>6
<1>8. asked[p] <= sCrashes
  <2>1. p \notin window  BY <1>1, <1>3 DEF SettlementInv, CadenceOK
  <2>2. \A k \in jobs : k.at = "sent" => rows[k.row].peer # p
    <3>1. \A k \in jobs : k.at = "sent" => k.row \in Pending /\ rows[k.row].kind = "soft"
      BY DEF SettlementInv, JobsOK
    <3>2. \A k \in jobs : k.at = "sent" /\ rows[k.row].peer = p => k.row = j.row
      BY <3>1, <1>3, <1>4 DEF SettlementInv, RowsOK
    <3> QED BY <3>2, <1>4, <1>1
  <2> QED BY <1>3, <2>1, <2>2 DEF SettlementInv, CadenceOK
<1>9. CadenceOK'
  <2>1. SUFFICES ASSUME NEW q \in SPeers
        PROVE  /\ \A k \in jobs' : k.at = "enqueue" /\ rows[k.row].peer = q => q \notin window
               /\ asked'[q] <= 1 + sCrashes
               /\ q \notin window /\ (\A k \in jobs' : k.at = "sent" => rows[k.row].peer # q)
                    => asked'[q] <= sCrashes
    BY <1>1 DEF CadenceOK
  <2>2. \A k \in jobs' : k.at = "enqueue" => k \in jobs  BY <1>4
  <2>3. \A k \in jobs' : k.at = "enqueue" /\ rows[k.row].peer = q => q \notin window
    BY <2>2 DEF SettlementInv, CadenceOK
  <2>4. CASE q = p  BY <2>3, <2>4, <1>4, <1>6, <1>7, <1>8
  <2>5. CASE q # p
    <3>1. (\A k \in jobs' : k.at = "sent" => rows[k.row].peer # q)
            => (\A k \in jobs : k.at = "sent" => rows[k.row].peer # q)
      BY <2>5, <1>4, <1>1
    <3> QED BY <2>3, <2>5, <3>1, <1>7 DEF SettlementInv, CadenceOK
  <2> QED BY <2>4, <2>5
<1>10. SettledOK'  BY <1>1, <1>5, SettledKept DEF ledgerVars
<1>11. RowsOK' /\ RefundsOK' /\ BalanceOK'  BY <1>1, RowsKept, MoneyKept
<1>12. requests' \in Seq(R)
  <2>1. requests \in Seq(R) /\ [peer |-> p, amount |-> rows[j.row].amount, answered |-> FALSE] \in R
    BY <1>3 DEF SettlementInv, SettlementTypeOK
  <2> HIDE DEF R
  <2> QED BY <1>1, <2>1
<1>13. SettlementTypeOK'
  BY <1>1, <1>4, <1>5, <1>7, <1>12 DEF SettlementInv, SettlementTypeOK, ledgerVars, refundVars
<1> QED BY <1>4, <1>5, <1>9, <1>10, <1>11, <1>13 DEF SettlementInv

LEMMA SoftCadenceStep ==
  ASSUME SettlementInv, NEW j \in jobs, SoftCadence(j) PROVE SettlementInv'
<1> DEFINE p == rows[j.row].peer
<1>1. /\ Becomes(j, "mark", 0) /\ j.at = "sent" /\ window' = window \cup {p}
      /\ UNCHANGED <<ledgerVars, rows, requests, refundVars, asked, effects, passed, sCrashes>>
  BY DEF SoftCadence
<1>2. "mark" \in Places  BY DEF Places
<1>3. j.row \in DOMAIN rows /\ p \in SPeers /\ rows[j.row].kind = "soft"
  <2>1. j.row \in DOMAIN rows /\ p \in SPeers  BY RowTyped DEF SettlementInv
  <2> QED BY <1>1, <2>1 DEF SettlementInv, JobsOK
<1>4. /\ JobsOK'
      /\ jobs' \subseteq [row : DOMAIN rows, prior : Int,
                          at : {"start", "enqueue", "sent", "accepted", "delta", "mark", "fail"}]
      /\ \E k \in jobs' : k.row = j.row /\ k.at = "mark"
      /\ \A k \in jobs' : k.row = j.row => k.at = "mark"
      /\ \A k \in jobs : k.row # j.row => k \in jobs'
      /\ \A k \in jobs' : k.row # j.row => k \in jobs
      /\ \A k \in jobs : k.row = j.row => k = j
      /\ j.row \in Pending
  BY <1>1, <1>2, <1>3, JobMoved
<1>5. EffectsOK'  BY <1>1, <1>3, <1>4, EffectsKept DEF Early
<1>6. CadenceOK'
  <2>1. SUFFICES ASSUME NEW q \in SPeers
        PROVE  /\ \A k \in jobs' : k.at = "enqueue" /\ rows[k.row].peer = q => q \notin window'
               /\ asked[q] <= 1 + sCrashes
               /\ q \notin window' /\ (\A k \in jobs' : k.at = "sent" => rows[k.row].peer # q)
                    => asked[q] <= sCrashes
    BY <1>1 DEF CadenceOK
  <2>2. \A k \in jobs' : k.at = "enqueue" => k \in jobs /\ k.row # j.row  BY <1>4
  <2>3. CASE q = p
    <3>1. \A k \in jobs : k.at = "enqueue" => k.row \in Pending /\ rows[k.row].kind = "soft"
      BY DEF SettlementInv, JobsOK
    <3>2. \A k \in jobs : k.at = "enqueue" /\ rows[k.row].peer = p => k.row = j.row
      BY <3>1, <1>3, <1>4 DEF SettlementInv, RowsOK
    <3> QED BY <2>2, <2>3, <3>2, <1>1 DEF SettlementInv, CadenceOK
  <2>4. CASE q # p
    <3>1. (\A k \in jobs' : k.at = "sent" => rows[k.row].peer # q)
            => (\A k \in jobs : k.at = "sent" => rows[k.row].peer # q)
      BY <2>4, <1>4, <1>1
    <3> QED BY <2>2, <2>4, <3>1, <1>1 DEF SettlementInv, CadenceOK
  <2> QED BY <2>3, <2>4
<1>7. SettledOK'  BY <1>1, SettledKept DEF ledgerVars
<1>8. RowsOK' /\ RefundsOK' /\ BalanceOK'  BY <1>1, RowsKept, MoneyKept
<1>9. SettlementTypeOK'  BY <1>1, <1>3, <1>4 DEF SettlementInv, SettlementTypeOK, ledgerVars, refundVars
<1> QED BY <1>4, <1>5, <1>6, <1>7, <1>8, <1>9 DEF SettlementInv

LEMMA RequestAnsweredStep ==
  ASSUME SettlementInv, NEW j \in jobs, RequestAnswered(j) PROVE SettlementInv'
<1>1. PICK at \in {"mark", "fail"} :
        /\ Becomes(j, at, 0) /\ j.at = "accepted" /\ (UNCHANGED effects \/ Did(j.row))
        /\ UNCHANGED <<ledgerVars, rows, window, requests, refundVars, asked, passed, sCrashes>>
  BY DEF RequestAnswered
<1>2. at \in Places  BY DEF Places
<1>3. j.row \in DOMAIN rows /\ rows[j.row].kind = "request" /\ j.row \notin passed
  <2>1. j.row \in DOMAIN rows  BY RowTyped DEF SettlementInv
  <2>2. rows[j.row].kind = "request"  BY <1>1 DEF SettlementInv, JobsOK
  <2> QED BY <2>1, <2>2 DEF SettlementInv, RowsOK
<1>4. /\ JobsOK'
      /\ jobs' \subseteq [row : DOMAIN rows, prior : Int,
                          at : {"start", "enqueue", "sent", "accepted", "delta", "mark", "fail"}]
      /\ \E k \in jobs' : k.row = j.row /\ k.at = at
      /\ \A k \in jobs' : k.row = j.row => k.at = at
      /\ \A k \in jobs : k.row # j.row => k \in jobs'
      /\ \A k \in jobs' : k.row # j.row => k \in jobs
      /\ \A k \in jobs : k.row = j.row => k = j
      /\ j.row \in Pending
  BY <1>1, <1>2, <1>3, JobMoved
<1>5. CadenceOK'  BY <1>1, <1>3, <1>4, CadenceKept
<1>6. EffectsOK' /\ effects' \in [1..MaxRows -> Nat] /\ \A i \in passed : effects'[i] = effects[i]
  <2>1. CASE UNCHANGED effects
    <3>1. EffectsOK'  BY <1>1, <1>3, <1>4, <2>1, EffectsKept DEF Early
    <3> QED BY <2>1, <3>1 DEF SettlementInv, SettlementTypeOK
  <2>2. CASE Did(j.row)
    <3>1. EffectsOK' /\ effects' \in [1..MaxRows -> Nat]
      BY <1>1, <1>3, <1>4, <2>2, EffectDone DEF Early
    <3>2. \A i \in passed : i \in 1..MaxRows  BY PassedRows
    <3>3. \A i \in passed : effects'[i] = effects[i]
      BY <2>2, <1>3, <3>2 DEF Did, SettlementInv, SettlementTypeOK
    <3> QED BY <3>1, <3>3
  <2> QED BY <2>1, <2>2, <1>1
<1>7. SettledOK'  BY <1>1, <1>6, SettledKept DEF ledgerVars
<1>8. RowsOK' /\ RefundsOK' /\ BalanceOK'  BY <1>1, RowsKept, MoneyKept
<1>9. SettlementTypeOK'  BY <1>1, <1>4, <1>6 DEF SettlementInv, SettlementTypeOK, ledgerVars, refundVars
<1> QED BY <1>4, <1>5, <1>6, <1>7, <1>8, <1>9 DEF SettlementInv

\* A confirmation that is found good has had no effect yet.
LEMMA ConfirmationStartStep ==
  ASSUME SettlementInv, NEW j \in jobs, ConfirmationStart(j) PROVE SettlementInv'
<1> DEFINE r == rows[j.row]
           prior == balance[r.peer]
<1>1. PICK at \in {"mark", "delta"} :
        /\ Becomes(j, at, prior) /\ j.at = "start" /\ r.kind = "confirmation"
        /\ passed' = passed \/ passed' = passed \cup {j.row}
        /\ at = "delta" => passed' = passed \cup {j.row} /\ Covers(r.amount, prior) /\ prior # 0
        /\ UNCHANGED <<ledgerVars, rows, window, requests, refundVars, asked, effects, sCrashes>>
  BY DEF ConfirmationStart
<1>2. at \in Places  BY DEF Places
<1>3. j.row \in DOMAIN rows /\ r.peer \in SPeers /\ prior \in Int
  <2>1. j.row \in DOMAIN rows /\ r.peer \in SPeers  BY RowTyped DEF SettlementInv
  <2> QED BY <2>1 DEF SettlementInv, SettlementTypeOK
<1>4. /\ JobsOK'
      /\ jobs' \subseteq [row : DOMAIN rows, prior : Int,
                          at : {"start", "enqueue", "sent", "accepted", "delta", "mark", "fail"}]
      /\ \A k \in jobs' : k.row = j.row => k.at = at
      /\ \A k \in jobs : k.row # j.row => k \in jobs'
      /\ \A k \in jobs' : k.row # j.row => k \in jobs
      /\ \A k \in jobs : k.row = j.row => k = j
      /\ j.row \in Pending
  BY <1>1, <1>2, <1>3, JobMoved
<1>5. CadenceOK'  BY <1>1, <1>3, <1>4, CadenceKept
<1>6. EffectsOK'  BY <1>1, <1>3, <1>4, EffectsKept DEF Early
<1>7. SettledOK'
  <2>1. j.row \notin passed => effects[j.row] = 0
    <3>1. j.row \in 1..MaxRows  BY <1>3, RowTyped, SettlementAssumption DEF SettlementInv, RowsOK
    <3> QED BY <3>1, <1>1, <1>3 DEF SettlementInv, EffectsOK
  <2> QED BY <2>1, <1>1, SettledKept DEF ledgerVars
<1>8. RowsOK' /\ RefundsOK' /\ BalanceOK'  BY <1>1, <1>3, RowsKept, MoneyKept
<1>9. passed' \subseteq DOMAIN rows  BY <1>1, <1>3 DEF SettlementInv, SettlementTypeOK
<1>10. SettlementTypeOK'  BY <1>1, <1>4, <1>9 DEF SettlementInv, SettlementTypeOK, ledgerVars, refundVars
<1> QED BY <1>4, <1>5, <1>6, <1>7, <1>8, <1>10 DEF SettlementInv

\* What is written takes the balance to zero, and no more than was found good
\* is added.
LEMMA ConfirmationWrittenStep ==
  ASSUME SettlementInv, NEW j \in jobs, ConfirmationWritten(j) PROVE SettlementInv'
<1> DEFINE i == j.row
           p == rows[i].peer
           n == rows[i].amount
<1>1. /\ Becomes(j, "mark", j.prior) /\ j.at = "delta" /\ Did(i)
      /\ balance' = [balance EXCEPT ![p] = @ - j.prior]
      /\ settled' = [settled EXCEPT ![p] = @ - j.prior]
      /\ UNCHANGED <<charged, rows, window, requests, refundVars, asked, passed, sCrashes>>
  BY DEF ConfirmationWritten
<1>2. "mark" \in Places  BY DEF Places
<1>3. i \in DOMAIN rows /\ p \in SPeers /\ n \in Nat /\ j.prior \in Int  BY RowTyped DEF SettlementInv
<1>4. i \in passed /\ Covers(n, j.prior) /\ j.prior # 0
  BY <1>1 DEF SettlementInv, JobsOK
<1>5. /\ JobsOK'
      /\ jobs' \subseteq [row : DOMAIN rows, prior : Int,
                          at : {"start", "enqueue", "sent", "accepted", "delta", "mark", "fail"}]
      /\ \E k \in jobs' : k.row = j.row /\ k.at = "mark"
      /\ \A k \in jobs' : k.row = j.row => k.at = "mark"
      /\ \A k \in jobs : k.row # j.row => k \in jobs'
      /\ \A k \in jobs' : k.row # j.row => k \in jobs
      /\ \A k \in jobs : k.row = j.row => k = j
      /\ j.row \in Pending
  BY <1>1, <1>2, <1>3, JobMoved
<1>6. CadenceOK'  BY <1>1, <1>3, <1>5, CadenceKept
<1>7. EffectsOK' /\ effects' \in [1..MaxRows -> Nat] /\ i \in 1..MaxRows /\ effects'[i] = effects[i] + 1
      /\ \A k \in 1..MaxRows : k # i => effects'[k] = effects[k]
  <2>1. EffectsOK' /\ effects' \in [1..MaxRows -> Nat] /\ i \in 1..MaxRows /\ effects'[i] = effects[i] + 1
    BY <1>1, <1>4, <1>5, EffectDone DEF Early
  <2>2. \A k \in 1..MaxRows : k # i => effects'[k] = effects[k]
    BY <1>1, <2>1 DEF Did, SettlementInv, SettlementTypeOK
  <2> QED BY <2>1, <2>2
<1>8. /\ balance \in [SPeers -> Int] /\ settled \in [SPeers -> Int] /\ effects \in [1..MaxRows -> Nat]
      /\ charged \in [SPeers -> 0..MaxCharges]
  BY DEF SettlementInv, SettlementTypeOK
<1>9. /\ balance' \in [SPeers -> Int] /\ balance'[p] = balance[p] - j.prior
      /\ settled' \in [SPeers -> Int] /\ settled'[p] = settled[p] - j.prior
      /\ \A q \in SPeers : q # p => balance'[q] = balance[q] /\ settled'[q] = settled[q]
  BY <1>1, <1>3, <1>8
<1>10. BalanceOK'
  <2>1. SUFFICES ASSUME NEW q \in SPeers
        PROVE  balance'[q] = settled'[q] + Price * (Cardinality(Refunded(q)) - charged[q])
    BY <1>1 DEF BalanceOK, Refunded, refundVars
  <2> DEFINE backed == Price * (Cardinality(Refunded(q)) - charged[q])
  <2>2. balance[q] = settled[q] + backed  BY DEF SettlementInv, BalanceOK
  <2>3. backed \in Int
    <3>1. Cardinality(Refunded(q)) \in Nat
      BY SettlementAssumption, FS_Subset, FS_CardinalityType DEF Refunded
    <3> QED BY <3>1, <1>8, SettlementAssumption
  <2> HIDE DEF backed
  <2>4. \A a, b, c, d \in Int : a = b + c => a - d = (b - d) + c  OBVIOUS
  <2>5. balance'[q] = settled'[q] + backed
    <3>1. balance[q] \in Int /\ settled[q] \in Int  BY <1>8
    <3>2. CASE q = p  BY <3>1, <3>2, <2>2, <2>3, <2>4, <1>3, <1>9
    <3>3. CASE q # p  BY <3>3, <2>2, <1>9
    <3> QED BY <3>2, <3>3
  <2> QED BY <2>5 DEF backed
<1>11. SettledOK'
  <2>1. SUFFICES ASSUME NEW q \in SPeers PROVE settled'[q] <= SumTo(Written(q)', Len(rows))
    BY <1>1 DEF SettledOK
  <2> DEFINE f == Written(q)
             g == Written(q)'
             m == Len(rows)
  <2>2. DOMAIN rows = 1..m /\ m \in Nat /\ \A k \in DOMAIN rows : rows[k].amount \in Nat /\ k \in 1..MaxRows
    BY RowTyped, SettlementAssumption DEF SettlementInv, RowsOK
  <2>3. Ints(f, m) /\ SumTo(f, m) \in Int  BY WrittenInts DEF SettlementInv
  <2>4. settled[q] <= SumTo(f, m)  BY DEF SettlementInv, SettledOK
  <2>5. \A k \in 1..m : k # i => g[k] = f[k]
    BY <1>1, <1>7, <2>2 DEF Written
  <2>6. CASE q = p
    <3>1. f[i] = effects[i] * (n + Tolerance) /\ g[i] = effects'[i] * (n + Tolerance)
      BY <1>1, <1>3, <1>4, <2>6 DEF Written
    <3>2. effects[i] \in Nat /\ n + Tolerance \in Nat  BY <1>3, <1>7, <1>8 DEF Tolerance
    <3>3. \A a, b \in Nat : (a + 1) * b = a * b + b  OBVIOUS
    <3>4. g[i] = f[i] + (n + Tolerance)  BY <3>1, <3>2, <3>3, <1>7
    <3>5. \A k \in 1..m : g[k] = f[k] + (IF k = i THEN n + Tolerance ELSE 0)
      BY <2>2, <2>3, <2>5, <3>4 DEF Ints
    <3>6. i \in 1..m /\ n + Tolerance \in Int  BY <1>3, <2>2, <3>2
    <3> HIDE DEF f, g, m
    <3>7. SumTo(g, m) = SumTo(f, m) + (n + Tolerance)  BY <2>2, <2>3, <3>5, <3>6, SumGrows
    <3>8. -j.prior <= n + Tolerance  BY <1>3, <1>4 DEF Covers, Tolerance
    <3>9. settled'[q] <= SumTo(g, m)
      <4>1. \A a, b, c, d \in Int : a <= b /\ -c <= d => a - c <= b + d  OBVIOUS
      <4>2. settled[q] \in Int /\ SumTo(f, m) \in Int  BY <1>8, <2>3 DEF f, m
      <4>3. settled[q] - j.prior <= SumTo(f, m) + (n + Tolerance)
        BY <4>1, <4>2, <3>8, <3>6, <2>4, <1>3 DEF f, m
      <4> QED BY <4>3, <3>7, <2>6, <1>9
    <3> QED BY <3>9 DEF g, m
  <2>7. CASE q # p
    <3>1. \A k \in 1..m : g[k] = IF k <= m THEN f[k] ELSE 0
      <4>1. g[i] = f[i]  BY <1>1, <1>3, <2>7 DEF Written
      <4> QED BY <4>1, <2>2, <2>5
    <3> HIDE DEF f, g, m
    <3>2. m <= m /\ m \in Nat /\ Ints(f, m)  BY <2>2, <2>3 DEF f, m
    <3>4. SumTo(g, m) = SumTo(f, m)  BY <3>1, <3>2, SumSame
    <3>3. settled'[q] <= SumTo(g, m)  BY <3>4, <2>4, <2>7, <1>9 DEF f, m
    <3> QED BY <3>3 DEF g, m
  <2> QED BY <2>6, <2>7
<1>12. RowsOK' /\ RefundsOK'
  BY <1>1, RowsKept DEF SettlementInv, RefundsOK, refundVars
<1>13. SettlementTypeOK'
  BY <1>1, <1>5, <1>7, <1>9 DEF SettlementInv, SettlementTypeOK, ledgerVars, refundVars
<1> QED BY <1>5, <1>6, <1>7, <1>10, <1>11, <1>12, <1>13 DEF SettlementInv

\* A tick begins with all rows that wait.
LEMMA TickStep ==
  ASSUME SettlementInv, Tick PROVE SettlementInv'
<1>1. /\ jobs = {} /\ jobs' = {At(i, "start", 0) : i \in Pending}
      /\ UNCHANGED <<ledgerVars, rows, window, requests, refundVars, asked, effects, passed, sCrashes>>
  BY DEF Tick
<1>2. /\ \A k \in jobs' : k.row \in Pending /\ k.at = "start" /\ k = At(k.row, "start", 0)
      /\ Pending \subseteq DOMAIN rows /\ Pending' = Pending
  BY <1>1 DEF At, Pending
<1>3. jobs' \subseteq [row : DOMAIN rows, prior : Int,
                       at : {"start", "enqueue", "sent", "accepted", "delta", "mark", "fail"}]
  BY <1>1, <1>2 DEF At
<1>4. JobsOK'
  <2>1. \A i, k \in jobs' : i.row = k.row => i = k  BY <1>2
  <2> QED BY <1>2, <2>1 DEF JobsOK
<1>5. CadenceOK'  BY <1>1, <1>2 DEF SettlementInv, CadenceOK
<1>6. EffectsOK'  BY <1>1, <1>2 DEF SettlementInv, EffectsOK
<1>7. SettledOK'  BY <1>1, SettledKept DEF ledgerVars
<1>8. RowsOK' /\ RefundsOK' /\ BalanceOK'  BY <1>1, RowsKept, MoneyKept
<1>9. SettlementTypeOK'  BY <1>1, <1>3 DEF SettlementInv, SettlementTypeOK, ledgerVars, refundVars
<1> QED BY <1>4, <1>5, <1>6, <1>7, <1>8, <1>9 DEF SettlementInv

\* Rows that were not marked wait again.
LEMMA SettlementCrashStep ==
  ASSUME SettlementInv, SettlementCrash PROVE SettlementInv'
<1>1. /\ sCrashes < MaxCrashes /\ sCrashes' = sCrashes + 1 /\ jobs' = {}
      /\ refund' = [t \in Tasks |-> IF refund[t] = "noted" THEN "lost" ELSE refund[t]]
      /\ UNCHANGED <<ledgerVars, rows, window, requests, refunded, asked, effects, passed>>
  BY DEF SettlementCrash
<1>2. sCrashes \in Nat /\ sCrashes' \in 0..MaxCrashes /\ asked \in [SPeers -> Nat] /\ effects \in [1..MaxRows -> Nat]
  BY <1>1, SettlementAssumption DEF SettlementInv, SettlementTypeOK
<1>3. JobsOK'  BY <1>1 DEF JobsOK
<1>4. CadenceOK'  BY <1>1, <1>2 DEF SettlementInv, CadenceOK
<1>5. EffectsOK'
  <2>1. Pending' = Pending  BY <1>1 DEF Pending
  <2> QED BY <1>1, <1>2, <2>1 DEF SettlementInv, EffectsOK
<1>6. SettledOK'  BY <1>1, SettledKept DEF ledgerVars
<1>7. RowsOK'  BY <1>1, RowsKept
<1>8. RefundsOK' /\ BalanceOK'
  <2>1. RefundsOK'  BY <1>1 DEF SettlementInv, RefundsOK
  <2> QED BY <1>1, <2>1 DEF SettlementInv, BalanceOK, ledgerVars, Refunded
<1>9. refund' \in [Tasks -> {"open", "noted", "applied", "lost"}]
  BY <1>1 DEF SettlementInv, SettlementTypeOK
<1>10. SettlementTypeOK'  BY <1>1, <1>2, <1>9 DEF SettlementInv, SettlementTypeOK, ledgerVars
<1> QED BY <1>3, <1>4, <1>5, <1>6, <1>7, <1>8, <1>10 DEF SettlementInv

\* A row that is marked no longer waits.
LEMMA MarkedStep ==
  ASSUME SettlementInv, NEW j \in jobs, Marked(j) PROVE SettlementInv'
<1> DEFINE i == j.row
           end == IF j.at = "mark" THEN "processed" ELSE "failed"
           new == [rows[i] EXCEPT !.status = end]
<1>1. /\ jobs' = jobs \ {j} /\ rows' = [rows EXCEPT ![i] = new]
      /\ UNCHANGED <<ledgerVars, window, requests, refundVars, asked, effects, passed, sCrashes>>
      /\ j.at \in {"mark", "fail"}
  BY DEF Marked
<1>2. i \in DOMAIN rows /\ rows \in Seq(Row) /\ DOMAIN rows = 1..Len(rows) /\ Len(rows) \in Nat
  BY RowTyped DEF SettlementInv, Row
<1>3. rows[i] \in Row
  <2> HIDE DEF i
  <2> QED BY <1>2
<1>4. new \in Row /\ new.kind = rows[i].kind /\ new.peer = rows[i].peer /\ new.col = rows[i].col
      /\ new.amount = rows[i].amount /\ new.status # "pending"
  BY <1>3 DEF Row
<1> HIDE DEF new, i
<1>5. /\ rows' \in Seq(Row) /\ Len(rows') = Len(rows) /\ DOMAIN rows' = DOMAIN rows /\ rows'[i] = new
      /\ \A k \in DOMAIN rows : k # i => rows'[k] = rows[k]
  BY <1>1, <1>2, <1>4
<1>6. /\ \A k \in DOMAIN rows : /\ rows'[k].kind = rows[k].kind /\ rows'[k].peer = rows[k].peer
                               /\ rows'[k].col = rows[k].col /\ rows'[k].amount = rows[k].amount
      /\ \A k : k \in Pending' <=> k \in Pending /\ k # i
  BY <1>4, <1>5 DEF Pending
<1>7. RowsOK'
  <2>1. /\ Len(rows) <= MaxRows
        /\ \A k \in DOMAIN rows : rows[k].kind = "soft" => rows[k].col = rows[k].peer
        /\ \A k, l \in Pending : rows[k].kind = "soft" /\ rows[l].kind = "soft"
                               /\ rows[k].peer = rows[l].peer => k = l
        /\ \A k \in passed : k \in DOMAIN rows /\ rows[k].kind = "confirmation"
        /\ Pending \subseteq DOMAIN rows
    BY DEF SettlementInv, RowsOK, SettlementTypeOK, Pending
  <2> QED BY <2>1, <1>1, <1>5, <1>6 DEF RowsOK
<1>8. /\ \A k \in jobs' : k \in jobs /\ k.row # i /\ k.row \in DOMAIN rows
      /\ \A k \in jobs : k.row # i => k \in jobs'
      /\ j.row = i
  <2>1. \A k \in jobs : k.row = j.row => k = j  BY DEF SettlementInv, JobsOK
  <2>2. \A k \in jobs : k.row \in DOMAIN rows  BY RowTyped DEF SettlementInv
  <2> QED BY <2>1, <2>2, <1>1 DEF i
<1>9. JobsOK'
  <2>1. /\ \A k \in jobs :
             /\ k.row \in Pending
             /\ k.at \in {"enqueue", "sent"} => rows[k.row].kind = "soft"
             /\ k.at = "accepted" => rows[k.row].kind = "request"
             /\ k.at = "delta" => k.row \in passed /\ Covers(rows[k.row].amount, k.prior) /\ k.prior # 0
        /\ \A k, l \in jobs : k.row = l.row => k = l
    BY DEF SettlementInv, JobsOK
  <2> QED BY <2>1, <1>1, <1>6, <1>8 DEF JobsOK
<1>10. CadenceOK'
  <2>1. SUFFICES ASSUME NEW q \in SPeers
        PROVE  /\ \A k \in jobs' : k.at = "enqueue" /\ rows'[k.row].peer = q => q \notin window
               /\ asked[q] <= 1 + sCrashes
               /\ q \notin window /\ (\A k \in jobs' : k.at = "sent" => rows'[k.row].peer # q)
                    => asked[q] <= sCrashes
    BY <1>1 DEF CadenceOK
  <2>2. (\A k \in jobs' : k.at = "sent" => rows'[k.row].peer # q)
          => (\A k \in jobs : k.at = "sent" => rows[k.row].peer # q)
    BY <1>1, <1>6, <1>8
  <2>3. \A k \in jobs' : k \in jobs /\ rows'[k.row].peer = rows[k.row].peer  BY <1>6, <1>8
  <2> QED BY <2>2, <2>3 DEF SettlementInv, CadenceOK
<1>11. EffectsOK'
  <2>1. SUFFICES ASSUME NEW m \in 1..MaxRows
        PROVE  /\ effects[m] <= 1 + sCrashes
               /\ m \notin DOMAIN rows => effects[m] = 0
               /\ m \in Pending' /\ (\A k \in jobs' : k.row = m => k.at \in {"start", "enqueue", "accepted", "delta"})
                    => effects[m] <= sCrashes
               /\ m \in DOMAIN rows /\ rows'[m].kind = "confirmation" /\ m \notin passed => effects[m] = 0
    BY <1>1, <1>5 DEF EffectsOK
  <2>2. m \in DOMAIN rows => rows'[m].kind = rows[m].kind  BY <1>6
  <2>3. m \in Pending' /\ (\A k \in jobs' : k.row = m => k.at \in {"start", "enqueue", "accepted", "delta"})
          => m \in Pending /\ (\A k \in jobs : k.row = m => k.at \in {"start", "enqueue", "accepted", "delta"})
    BY <1>6, <1>8
  <2> QED BY <2>2, <2>3 DEF SettlementInv, EffectsOK
<1>12. SettledOK'  BY <1>1, <1>5, <1>6, SettledKept DEF ledgerVars
<1>13. RefundsOK' /\ BalanceOK'  BY <1>1, MoneyKept
<1>14. SettlementTypeOK'
  <2>1. rows' \in Seq([kind : Kinds, peer : SPeers, col : SPeers \cup {Own},
                       amount : Nat, status : {"pending", "processed", "failed"}])
    BY <1>5 DEF Row
  <2>2. jobs' \subseteq [row : DOMAIN rows', prior : Int,
                         at : {"start", "enqueue", "sent", "accepted", "delta", "mark", "fail"}]
    BY <1>1, <1>5 DEF SettlementInv, SettlementTypeOK
  <2> QED BY <1>1, <1>5, <2>1, <2>2 DEF SettlementInv, SettlementTypeOK, ledgerVars, refundVars
<1> QED BY <1>7, <1>9, <1>10, <1>11, <1>12, <1>13, <1>14 DEF SettlementInv
-----------------------------------------------------------------------------
(* Charging, asking and refunding: the queue is left alone *)

\* The queue is not touched.
LEMMA QueueKept ==
  ASSUME SettlementInv, UNCHANGED <<rows, jobs, effects, passed, sCrashes>>
  PROVE  RowsOK' /\ JobsOK' /\ EffectsOK'
<1>1. RowsOK'  BY RowsKept DEF SettlementInv, RowsOK
<1>2. Pending' = Pending  BY DEF Pending
<1>3. JobsOK'  BY <1>2 DEF SettlementInv, JobsOK
<1>4. EffectsOK'  BY <1>2 DEF SettlementInv, EffectsOK
<1> QED BY <1>1, <1>3, <1>4

\* Refunded tasks can be counted.
LEMMA RefundedNat ==
  ASSUME SettlementInv, NEW p \in SPeers
  PROVE  IsFiniteSet(Refunded(p)) /\ Cardinality(Refunded(p)) \in Nat
BY SettlementAssumption, FS_Subset, FS_CardinalityType DEF Refunded

LEMMA ChargeStep ==
  ASSUME SettlementInv, NEW p \in SPeers, Charge(p) PROVE SettlementInv'
<1>1. /\ charged[p] < MaxCharges
      /\ balance' = [balance EXCEPT ![p] = @ - Price] /\ charged' = [charged EXCEPT ![p] = @ + 1]
      /\ UNCHANGED <<settled, rows, jobs, window, requests, refundVars, asked, effects, passed, sCrashes>>
  BY DEF Charge
<1>2. /\ balance \in [SPeers -> Int] /\ settled \in [SPeers -> Int] /\ charged \in [SPeers -> 0..MaxCharges]
      /\ Price \in Nat /\ MaxCharges \in Nat
  BY SettlementAssumption DEF SettlementInv, SettlementTypeOK
<1>3. balance' \in [SPeers -> Int] /\ charged' \in [SPeers -> 0..MaxCharges]  BY <1>1, <1>2
<1>4. BalanceOK'
  <2>1. SUFFICES ASSUME NEW q \in SPeers
        PROVE  balance'[q] = settled[q] + Price * (Cardinality(Refunded(q)) - charged'[q])
    BY <1>1 DEF BalanceOK, Refunded, refundVars
  <2> DEFINE c == Cardinality(Refunded(q))
  <2>2. c \in Nat  BY RefundedNat
  <2>3. balance[q] = settled[q] + Price * (c - charged[q])  BY DEF SettlementInv, BalanceOK
  <2> HIDE DEF c
  <2>4. \A d, k \in Int : Price * (d - (k + 1)) = Price * (d - k) - Price  BY <1>2
  <2>5. balance'[q] = settled[q] + Price * (c - charged'[q])
    <3>1. CASE q # p  BY <3>1, <2>3, <1>1, <1>2
    <3>2. CASE q = p
      <4>1. charged[p] \in Int /\ settled[p] \in Int /\ balance[p] \in Int  BY <1>2
      <4>2. charged'[p] = charged[p] + 1 /\ balance'[p] = balance[p] - Price  BY <1>1, <1>2
      <4> DEFINE k == charged[p]
      <4> HIDE DEF k
      <4>6. k \in Int /\ c \in Int  BY <2>2, <4>1 DEF k
      <4>5. Price * (c - (k + 1)) = Price * (c - k) - Price  BY <2>4, <4>6
      <4>3. Price * (c - charged'[p]) = Price * (c - charged[p]) - Price  BY <4>5, <4>2 DEF k
      <4>4. Price * (c - charged[p]) \in Int  BY <1>2, <2>2, <4>1
      <4> QED BY <3>2, <2>3, <4>1, <4>2, <4>3, <4>4, <1>2
    <3> QED BY <3>1, <3>2
  <2> QED BY <2>5 DEF c
<1>5. SettledOK'  BY <1>1, SettledKept
<1>6. RowsOK' /\ JobsOK' /\ EffectsOK'  BY <1>1, QueueKept
<1>7. RefundsOK' /\ CadenceOK'
  BY <1>1 DEF SettlementInv, RefundsOK, CadenceOK, refundVars
<1>8. SettlementTypeOK'  BY <1>1, <1>2, <1>3 DEF SettlementInv, SettlementTypeOK, refundVars
<1> QED BY <1>4, <1>5, <1>6, <1>7, <1>8 DEF SettlementInv

LEMMA CockpitExecuteStep ==
  ASSUME SettlementInv, NEW p \in SPeers, CockpitExecute(p) PROVE SettlementInv'
<1> DEFINE R == [peer : SPeers, amount : Nat, answered : BOOLEAN]
<1>1. /\ balance[p] < 0
      /\ requests' = Append(requests, [peer |-> p, amount |-> -balance[p], answered |-> FALSE])
      /\ UNCHANGED <<ledgerVars, rows, jobs, window, refundVars, asked, effects, passed, sCrashes>>
  BY DEF CockpitExecute
<1>2. requests' \in Seq(R)
  <2>1. -balance[p] \in Nat  BY <1>1 DEF SettlementInv, SettlementTypeOK
  <2>2. requests \in Seq(R) /\ [peer |-> p, amount |-> -balance[p], answered |-> FALSE] \in R
    BY <2>1 DEF SettlementInv, SettlementTypeOK
  <2> HIDE DEF R
  <2> QED BY <1>1, <2>2
<1>3. SettledOK' /\ RefundsOK' /\ BalanceOK'  BY <1>1, SettledKept, MoneyKept DEF ledgerVars
<1>4. RowsOK' /\ JobsOK' /\ EffectsOK'  BY <1>1, QueueKept
<1>5. CadenceOK'  BY <1>1 DEF SettlementInv, CadenceOK
<1>6. SettlementTypeOK'  BY <1>1, <1>2 DEF SettlementInv, SettlementTypeOK, ledgerVars, refundVars
<1> QED BY <1>3, <1>4, <1>5, <1>6 DEF SettlementInv

LEMMA WindowEndsStep ==
  ASSUME SettlementInv, NEW p \in SPeers, WindowEnds(p) PROVE SettlementInv'
<1>1. /\ window' = window \ {p} /\ asked' = [asked EXCEPT ![p] = 0]
      /\ UNCHANGED <<ledgerVars, rows, jobs, requests, refundVars, effects, passed, sCrashes>>
  BY DEF WindowEnds
<1>2. asked \in [SPeers -> Nat] /\ sCrashes \in Nat  BY SettlementAssumption DEF SettlementInv, SettlementTypeOK
<1>3. SettledOK' /\ RefundsOK' /\ BalanceOK'  BY <1>1, SettledKept, MoneyKept DEF ledgerVars
<1>4. RowsOK' /\ JobsOK' /\ EffectsOK'  BY <1>1, QueueKept
<1>5. CadenceOK'  BY <1>1, <1>2 DEF SettlementInv, CadenceOK
<1>6. SettlementTypeOK'  BY <1>1, <1>2 DEF SettlementInv, SettlementTypeOK, ledgerVars, refundVars
<1> QED BY <1>3, <1>4, <1>5, <1>6 DEF SettlementInv

LEMMA CreditNoteStep ==
  ASSUME SettlementInv, NEW t \in Tasks, CreditNote(t) PROVE SettlementInv'
<1>1. /\ refund[t] = "open" /\ refund' = [refund EXCEPT ![t] = "noted"]
      /\ UNCHANGED <<ledgerVars, rows, jobs, window, requests, refunded, asked, effects, passed, sCrashes>>
  BY DEF CreditNote
<1>2. refund \in [Tasks -> {"open", "noted", "applied", "lost"}]  BY DEF SettlementInv, SettlementTypeOK
<1>3. RefundsOK'  BY <1>1, <1>2 DEF SettlementInv, RefundsOK
<1>4. SettledOK' /\ BalanceOK'
  <2>1. SettledOK'  BY <1>1, SettledKept DEF ledgerVars
  <2> QED BY <1>1, <2>1 DEF SettlementInv, BalanceOK, ledgerVars, Refunded
<1>5. RowsOK' /\ JobsOK' /\ EffectsOK'  BY <1>1, QueueKept
<1>6. CadenceOK'  BY <1>1 DEF SettlementInv, CadenceOK
<1>7. SettlementTypeOK'  BY <1>1, <1>2 DEF SettlementInv, SettlementTypeOK, ledgerVars
<1> QED BY <1>3, <1>4, <1>5, <1>6, <1>7 DEF SettlementInv

LEMMA RefundAppliedStep ==
  ASSUME SettlementInv, NEW t \in Tasks, RefundApplied(t) PROVE SettlementInv'
<1> DEFINE p == TaskPeer[t]
<1>1. /\ refund[t] = "noted" /\ refund' = [refund EXCEPT ![t] = "applied"]
      /\ refunded' = [refunded EXCEPT ![t] = @ + 1] /\ balance' = [balance EXCEPT ![p] = @ + Price]
      /\ UNCHANGED <<charged, settled, rows, jobs, window, requests, asked, effects, passed, sCrashes>>
  BY DEF RefundApplied
<1>2. /\ refund \in [Tasks -> {"open", "noted", "applied", "lost"}] /\ refunded \in [Tasks -> Nat]
      /\ balance \in [SPeers -> Int] /\ settled \in [SPeers -> Int] /\ charged \in [SPeers -> 0..MaxCharges]
      /\ p \in SPeers /\ Price \in Nat
  BY SettlementAssumption DEF SettlementInv, SettlementTypeOK
<1>3. refunded[t] = 0 /\ refunded'[t] = 1 /\ \A u \in Tasks : u # t => refunded'[u] = refunded[u]
  BY <1>1, <1>2 DEF SettlementInv, RefundsOK
<1>4. RefundsOK'  BY <1>1, <1>2, <1>3 DEF SettlementInv, RefundsOK
<1>5. BalanceOK'
  <2>1. SUFFICES ASSUME NEW q \in SPeers
        PROVE  balance'[q] = settled[q] + Price * (Cardinality(Refunded(q)') - charged[q])
    BY <1>1 DEF BalanceOK
  <2> DEFINE c == Cardinality(Refunded(q))
  <2>2. c \in Nat  BY RefundedNat
  <2>3. balance[q] = settled[q] + Price * (c - charged[q])  BY DEF SettlementInv, BalanceOK
  <2>4. CASE q # p
    <3>1. Refunded(q)' = Refunded(q)  BY <1>3, <2>4 DEF Refunded
    <3> QED BY <3>1, <2>3, <2>4, <1>1, <1>2
  <2>5. CASE q = p
    <3>1. Refunded(q)' = Refunded(q) \cup {t} /\ t \notin Refunded(q)
      BY <1>2, <1>3, <2>5 DEF Refunded
    <3>2. Cardinality(Refunded(q)') = c + 1  BY <3>1, RefundedNat, FS_AddElement
    <3> HIDE DEF c
    <3>3. charged[q] \in Int /\ settled[q] \in Int /\ balance[q] \in Int  BY <1>2
    <3>4. \A k \in Int : Price * ((c + 1) - k) = Price * (c - k) + Price  BY <1>2, <2>2
    <3>5. Price * ((c + 1) - charged[q]) = Price * (c - charged[q]) + Price  BY <3>3, <3>4
    <3>6. Price * (c - charged[q]) \in Int  BY <1>2, <2>2, <3>3
    <3>7. balance'[q] = balance[q] + Price  BY <1>1, <1>2, <2>5
    <3> QED BY <3>2, <3>3, <3>5, <3>6, <3>7, <2>3, <1>2
  <2> QED BY <2>4, <2>5
<1>6. SettledOK'  BY <1>1, SettledKept
<1>7. RowsOK' /\ JobsOK' /\ EffectsOK'  BY <1>1, QueueKept
<1>8. CadenceOK'  BY <1>1 DEF SettlementInv, CadenceOK
<1>9. SettlementTypeOK'
  <2>1. /\ refund' \in [Tasks -> {"open", "noted", "applied", "lost"}] /\ refunded' \in [Tasks -> Nat]
        /\ balance' \in [SPeers -> Int]
    BY <1>1, <1>2
  <2> QED BY <2>1, <1>1 DEF SettlementInv, SettlementTypeOK
<1> QED BY <1>4, <1>5, <1>6, <1>7, <1>8, <1>9 DEF SettlementInv
-----------------------------------------------------------------------------
LEMMA SettlementStarts == ASSUME SettlementInit PROVE SettlementInv
<1> USE SettlementAssumption DEF SettlementInit
<1>1. rows = << >> /\ DOMAIN rows = {} /\ Len(rows) = 0 /\ Pending = {}  BY DEF Pending
<1>2. SettlementTypeOK
  <2>1. rows \in Seq([kind : Kinds, peer : SPeers, col : SPeers \cup {Own},
                      amount : Nat, status : {"pending", "processed", "failed"}])
        /\ requests \in Seq([peer : SPeers, amount : Nat, answered : BOOLEAN])
    BY EmptySeq
  <2> QED BY <2>1, <1>1 DEF SettlementTypeOK
<1>3. RowsOK /\ JobsOK /\ CadenceOK /\ EffectsOK  BY <1>1 DEF RowsOK, JobsOK, CadenceOK, EffectsOK
<1>4. RefundsOK  BY DEF RefundsOK
<1>5. BalanceOK
  <2>1. \A p \in SPeers : Refunded(p) = {}  BY DEF Refunded
  <2>2. Price * (0 - 0) = 0  OBVIOUS
  <2>3. \A p \in SPeers : Cardinality(Refunded(p)) = 0  BY <2>1, FS_EmptySet
  <2>4. \A p \in SPeers : balance[p] = 0 /\ settled[p] = 0 /\ charged[p] = 0  OBVIOUS
  <2>5. \A p \in SPeers : Price * (Cardinality(Refunded(p)) - charged[p]) = 0  BY <2>2, <2>3, <2>4
  <2> QED BY <2>4, <2>5 DEF BalanceOK
<1>6. SettledOK
  <2>1. \A p \in SPeers : SumTo(Written(p), Len(rows)) = 0  BY <1>1, SumZero
  <2> QED BY <2>1 DEF SettledOK
<1> QED BY <1>2, <1>3, <1>4, <1>5, <1>6 DEF SettlementInv

LEMMA SettlementStep ==
  ASSUME SettlementInv, [SettlementNext]_settleVars PROVE SettlementInv'
<1>1. CASE ConsumerStep
  BY <1>1, TickStep, StartSteps, SoftEnqueuedStep, SoftCadenceStep, RequestAnsweredStep,
     ConfirmationStartStep, ConfirmationWrittenStep, MarkedStep DEF ConsumerStep
<1>2. CASE \E p \in SPeers : Charge(p) \/ RequestArrives(p) \/ CockpitExecute(p) \/ WindowEnds(p)
  BY <1>2, ChargeStep, RequestArrivesStep, CockpitExecuteStep, WindowEndsStep
<1>3. CASE NettingCycle \/ SettlementCrash  BY <1>3, NettingCycleStep, SettlementCrashStep
<1>4. CASE \E k \in DOMAIN requests : \E n \in {requests[k].amount, 1} : ConfirmationArrives(k, n)
  BY <1>4, ConfirmationArrivesStep
<1>5. CASE \E t \in Tasks : CreditNote(t) \/ RefundApplied(t)
  BY <1>5, CreditNoteStep, RefundAppliedStep
<1>6. CASE UNCHANGED settleVars
  <2>1. UNCHANGED <<ledgerVars, rows, jobs, window, requests, refundVars, asked, effects, passed, sCrashes>>
    BY <1>6 DEF settleVars
  <2>2. SettledOK' /\ RefundsOK' /\ BalanceOK'  BY <2>1, SettledKept, MoneyKept DEF ledgerVars
  <2>3. RowsOK' /\ JobsOK' /\ EffectsOK'  BY <2>1, QueueKept
  <2>4. CadenceOK'  BY <2>1 DEF SettlementInv, CadenceOK
  <2>5. SettlementTypeOK'  BY <2>1 DEF SettlementInv, SettlementTypeOK, ledgerVars, refundVars
  <2> QED BY <2>2, <2>3, <2>4, <2>5 DEF SettlementInv
<1> QED BY <1>1, <1>2, <1>3, <1>4, <1>5, <1>6 DEF SettlementNext

\* The invariant of settlement holds in every state, for any peers, tasks and
\* crashes.
THEOREM SettlementInvTheorem == SettlementSpec => []SettlementInv
<1>1. SettlementInit => SettlementInv  BY SettlementStarts
<1>2. SettlementInv /\ [SettlementNext]_settleVars => SettlementInv'  BY SettlementStep
<1> QED BY <1>1, <1>2, PTL DEF SettlementSpec

\* A peer is asked to settle at most once in a window, and once more per crash:
\* the cadence is written after the mail, and a row waits only once per peer.
THEOREM OneRequestPerWindowTheorem == SettlementSpec => []OneRequestPerWindow
<1>1. SettlementInv => OneRequestPerWindow  BY DEF SettlementInv, CadenceOK, OneRequestPerWindow
<1> QED BY <1>1, SettlementInvTheorem, PTL

\* A balance is what charges, refunds and settlements make of it, and what was
\* settled is covered by the confirmations that were found good; for any peers,
\* tasks, rows and crashes, although rows of one tick are worked on concurrently.
THEOREM LedgerBackedTheorem == SettlementSpec => []LedgerBacked
<1>1. ASSUME SettlementInv PROVE LedgerBacked
  <2>1. SUFFICES ASSUME NEW p \in SPeers
        PROVE  /\ balance[p] = settled[p] + Price * (Cardinality(Refunded(p)) - charged[p])
               /\ settled[p] <= (1 + sCrashes) * SumTo(Paid(p), Len(rows))
               /\ \A i \in DOMAIN rows : rows[i].peer = p => effects[i] <= 1 + sCrashes
               /\ \A t \in Refunded(p) : refunded[t] = 1
    BY DEF LedgerBacked, Refunded
  <2> DEFINE f == Written(p)
             g == Paid(p)
             n == Len(rows)
             c == 1 + sCrashes
  <2>2. balance[p] = settled[p] + Price * (Cardinality(Refunded(p)) - charged[p])
    BY <1>1 DEF SettlementInv, BalanceOK
  <2>3. DOMAIN rows = 1..n /\ n \in Nat /\ \A i \in DOMAIN rows : rows[i].amount \in Nat /\ i \in 1..MaxRows
    BY <1>1, RowTyped, SettlementAssumption DEF SettlementInv, RowsOK
  <2>4. \A i \in DOMAIN rows : effects[i] \in Nat /\ effects[i] <= 1 + sCrashes
    BY <1>1, <2>3 DEF SettlementInv, SettlementTypeOK, EffectsOK
  <2>5. c \in Nat  BY <1>1, SettlementAssumption DEF SettlementInv, SettlementTypeOK
  <2>6. Ints(f, n) /\ Ints(g, n) /\ SumTo(f, n) \in Int /\ SumTo(g, n) \in Int
    BY <1>1, WrittenInts DEF SettlementInv
  <2>7. \A i \in 1..n : f[i] <= c * g[i]
    <3>1. TAKE i \in 1..n
    <3>2. \A a, b, k \in Nat : a <= k => a * b <= k * b  OBVIOUS
    <3>3. effects[i] \in Nat /\ effects[i] <= c /\ rows[i].amount + Tolerance \in Nat
      BY <2>3, <2>4 DEF Tolerance
    <3>4. effects[i] * (rows[i].amount + Tolerance) <= c * (rows[i].amount + Tolerance)
      BY <3>2, <3>3, <2>5
    <3>5. c * 0 = 0  BY <2>5
    <3>6. CASE i \in passed /\ rows[i].peer = p
      <4>1. f[i] = effects[i] * (rows[i].amount + Tolerance) /\ g[i] = rows[i].amount + Tolerance
        BY <3>6, <2>3 DEF Written, Paid
      <4> QED BY <4>1, <3>4
    <3>7. CASE ~(i \in passed /\ rows[i].peer = p)
      <4>1. f[i] = 0 /\ g[i] = 0  BY <3>7, <2>3 DEF Written, Paid
      <4> QED BY <4>1, <3>5
    <3> QED BY <3>6, <3>7
  <2>8. settled[p] <= SumTo(f, n) /\ settled[p] \in Int
    BY <1>1 DEF SettlementInv, SettledOK, SettlementTypeOK
  <2>9. \A t \in Refunded(p) : refunded[t] = 1
    BY <1>1 DEF SettlementInv, RefundsOK, Refunded
  <2> HIDE DEF f, g, n, c
  <2>10. SumTo(f, n) <= c * SumTo(g, n)  BY <2>3, <2>5, <2>6, <2>7, SumScaled
  <2>11. c * SumTo(g, n) \in Int  BY <2>5, <2>6
  <2>12. settled[p] <= c * SumTo(g, n)  BY <2>6, <2>8, <2>10, <2>11
  <2> QED BY <2>2, <2>4, <2>9, <2>12 DEF g, n, c
<1> QED BY <1>1, SettlementInvTheorem, PTL

-----------------------------------------------------------------------------
(* Prices                                                                  *)

\* A percentage takes no more than there is.
LEMMA LessIs ==
  ASSUME NEW b \in Nat, NEW p \in 0..100 PROVE Less(b, p) \in 0..b
<1>1. b * p \in Nat /\ b * (100 - p) \in Nat /\ b * p + b * (100 - p) = b * 100
  <2>1. p \in Nat /\ 100 - p \in Nat  OBVIOUS
  <2> QED BY <2>1
<1> DEFINE m == b * (100 - p)
<1>2. m \in Nat /\ m <= b * 100  BY <1>1
<1> HIDE DEF m
<1>3. m \div 100 \in 0..b  BY <1>2
<1> QED BY <1>3 DEF Less, m

\* More than all of a price leaves none.
LEMMA LessOver ==
  ASSUME NEW b \in Nat, NEW p \in Int, p > 100 PROVE Less(b, p) \in Int /\ Less(b, p) <= 0
<1>1. p - 100 \in Nat  OBVIOUS
<1>2. b * (p - 100) \in Nat  BY <1>1
<1>3. b * (100 - p) = 0 - b * (p - 100)  BY <1>1
<1> DEFINE m == b * (100 - p)
<1>4. m \in Int /\ m <= 0  BY <1>2, <1>3
<1> HIDE DEF m
<1>5. m \div 100 \in Int /\ m \div 100 <= 0  BY <1>4
<1> QED BY <1>5 DEF Less, m

\* The elements of a sequence over S are in S.
LEMMA ElementsIn ==
  ASSUME NEW S, NEW q \in Seq(S)
  PROVE  /\ Len(q) \in Nat /\ DOMAIN q = 1..Len(q)
         /\ \A i \in 1..Len(q) : q[i] \in S
<1>1. q \in [1..Len(q) -> S] /\ Len(q) \in Nat  BY LenProperties
<1> QED BY <1>1

\* What is left of a price after each discount.
IsLeft(s, price, pcts, n) ==
  s = [i \in 0..n |-> IF i = 0 THEN price ELSE Less(s[i - 1], pcts[i])]

\* There is such a function for every number of discounts.
LEMMA LeftExists ==
  ASSUME NEW price, NEW pcts, NEW n \in Nat PROVE \E s : IsLeft(s, price, pcts, n)
<1> DEFINE S == {m \in Nat : \E s : IsLeft(s, price, pcts, m)}
<1>1. 0 \in S
  <2>1. IsLeft([i \in 0..0 |-> price], price, pcts, 0)  BY DEF IsLeft
  <2> QED BY <2>1
<1>2. ASSUME NEW m \in Nat, m \in S PROVE m + 1 \in S
  <2>1. PICK s : IsLeft(s, price, pcts, m)  BY <1>2
  <2> DEFINE t == [i \in 0..m + 1 |-> IF i = m + 1 THEN Less(s[m], pcts[m + 1]) ELSE s[i]]
  <2>2. \A i \in 0..m : s[i] = IF i = 0 THEN price ELSE Less(s[i - 1], pcts[i])  BY <2>1 DEF IsLeft
  <2>3. ASSUME NEW i \in 0..m + 1 PROVE t[i] = IF i = 0 THEN price ELSE Less(t[i - 1], pcts[i])
    <3>1. CASE i = m + 1
      <4>1. i - 1 = m /\ i # 0 /\ m \in 0..m + 1 /\ m # m + 1  BY <3>1
      <4>2. t[i] = Less(s[m], pcts[m + 1]) /\ t[i - 1] = s[m]  BY <3>1, <4>1
      <4> QED BY <3>1, <4>1, <4>2
    <3>2. CASE i # m + 1
      <4>1. i \in 0..m /\ (i # 0 => i - 1 \in 0..m /\ i - 1 \in 0..m + 1 /\ i - 1 # m + 1)  BY <3>2
      <4>2. t[i] = s[i] /\ (i # 0 => t[i - 1] = s[i - 1])  BY <3>2, <4>1
      <4> QED BY <2>2, <4>1, <4>2
    <3> QED BY <3>1, <3>2
  <2>4. t = [i \in 0..m + 1 |-> IF i = 0 THEN price ELSE Less(t[i - 1], pcts[i])]
    <3>1. DOMAIN t = 0..m + 1 /\ t = [i \in 0..m + 1 |-> t[i]]  OBVIOUS
    <3> HIDE DEF t
    <3> QED BY <2>3, <3>1
  <2> HIDE DEF t
  <2>5. IsLeft(t, price, pcts, m + 1)  BY <2>4 DEF IsLeft
  <2> QED BY <2>5
<1> HIDE DEF S
<1>3. Nat \subseteq S  BY <1>1, <1>2, InductionOver
<1> QED BY <1>3 DEF S

\* Discounts one after the other leave between nothing and the price.
LEMMA AllOfIs ==
  ASSUME NEW price \in Nat, NEW pcts \in Seq(0..100) PROVE AllOf(price, pcts) \in 0..price
<1> DEFINE n == Len(pcts)
           a == CHOOSE s : IsLeft(s, price, pcts, n)
<1>1. n \in Nat /\ \A i \in 1..n : pcts[i] \in 0..100  BY ElementsIn
<1>2. IsLeft(a, price, pcts, n)  BY <1>1, LeftExists
<1>3. AllOf(price, pcts) = a[n]  BY DEF AllOf, IsLeft
<1> HIDE DEF a, n
<1>4. \A i \in 0..n : a[i] = IF i = 0 THEN price ELSE Less(a[i - 1], pcts[i])  BY <1>2 DEF IsLeft
<1> DEFINE S == {i \in Nat : i <= n => a[i] \in 0..price}
<1>5. 0 \in S  BY <1>1, <1>4
<1>6. ASSUME NEW i \in Nat, i \in S PROVE i + 1 \in S
  <2>1. SUFFICES ASSUME i + 1 <= n PROVE a[i + 1] \in 0..price  OBVIOUS
  <2>2. i <= n /\ i + 1 \in 0..n /\ i + 1 \in 1..n /\ i + 1 # 0 /\ (i + 1) - 1 = i  BY <1>1, <2>1
  <2>3. a[i] \in 0..price /\ pcts[i + 1] \in 0..100  BY <1>1, <1>6, <2>2
  <2>4. a[i + 1] = Less(a[i], pcts[i + 1])  BY <1>4, <2>2
  <2>5. a[i] \in Nat /\ a[i] <= price  BY <2>3
  <2>6. Less(a[i], pcts[i + 1]) \in 0..a[i]  BY <2>3, <2>5, LessIs
  <2> QED BY <2>4, <2>5, <2>6
<1> HIDE DEF S
<1>7. Nat \subseteq S  BY <1>5, <1>6, InductionOver
<1> QED BY <1>1, <1>3, <1>7 DEF S

\* A sum of percentages is a number.
LEMMA SumOfIs == ASSUME NEW pcts \in Seq(0..100) PROVE SumOf(pcts) \in Nat
<1> DEFINE n == Len(pcts)
           S == {i \in Nat : i <= n => SumTo(pcts, i) \in Nat}
<1>1. n \in Nat /\ \A i \in 1..n : pcts[i] \in 0..100  BY ElementsIn
<1>2. 0 \in S  BY SumZero
<1> HIDE DEF n
<1>3. ASSUME NEW i \in Nat, i \in S PROVE i + 1 \in S
  <2>1. SUFFICES ASSUME i + 1 <= n PROVE SumTo(pcts, i + 1) \in Nat  OBVIOUS
  <2>2. i <= n /\ i + 1 \in 1..n  BY <1>1, <2>1
  <2>3. SumTo(pcts, i) \in Nat /\ pcts[i + 1] \in 0..100  BY <1>1, <1>3, <2>2
  <2>4. SumTo(pcts, i + 1) = SumTo(pcts, i) + pcts[i + 1]  BY SumNext
  <2>5. \A a \in Nat, b \in 0..100 : a + b \in Nat  OBVIOUS
  <2> QED BY <2>3, <2>4, <2>5
<1> HIDE DEF S
<1>4. Nat \subseteq S  BY <1>2, <1>3, InductionOver
<1> QED BY <1>1, <1>4 DEF S, n, SumOf

\* Both engines discount alike, but for sums beyond 100, which leave nothing.
LEMMA DiscountsAgree ==
  ASSUME NEW r \in Request, r.rules \in Seq(0..100), r.rules # <<>>, r.base \in Nat \ {0},
         r.mode \in {"multiplicative", "additive", "best_wins"}
  PROVE  /\ ModuleDiscounted(r) \in 0..r.base /\ BuiltinDiscounted(r) \in Int
         /\ \/ BuiltinDiscounted(r) = ModuleDiscounted(r)
            \/ BuiltinDiscounted(r) <= 0 /\ ModuleDiscounted(r) = 0
<1> DEFINE pcts == [i \in DOMAIN r.rules |-> Percent(r.rules[i])]
<1>1. pcts = r.rules
  <2>1. \A i \in DOMAIN r.rules : Percent(r.rules[i]) = r.rules[i]
    <3>1. \A i \in DOMAIN r.rules : r.rules[i] \in 0..100  BY ElementsIn
    <3>2. \A n \in 0..100 : Percent(n) = n  BY DEF Percent, Smaller, Larger
    <3> QED BY <3>1, <3>2
  <2>2. r.rules \in [1..Len(r.rules) -> 0..100] /\ DOMAIN r.rules = 1..Len(r.rules)
    BY LenProperties
  <2>3. r.rules = [i \in DOMAIN r.rules |-> r.rules[i]]  BY <2>2
  <2> QED BY <2>1, <2>3
<1>2. CASE r.mode = "multiplicative"
  <2>1. ModuleDiscounted(r) = AllOf(r.base, r.rules) /\ BuiltinDiscounted(r) = AllOf(r.base, r.rules)
    BY <1>1, <1>2 DEF ModuleDiscounted, BuiltinDiscounted
  <2>2. AllOf(r.base, r.rules) \in 0..r.base  BY AllOfIs
  <2> QED BY <2>1, <2>2
<1>3. CASE r.mode = "additive"
  <2> DEFINE s == SumOf(r.rules)
  <2>1. s \in Nat  BY SumOfIs
  <2>2. ModuleDiscounted(r) = Less(r.base, Smaller(s, 100)) /\ BuiltinDiscounted(r) = Less(r.base, s)
    BY <1>1, <1>3 DEF ModuleDiscounted, BuiltinDiscounted
  <2> HIDE DEF s
  <2>3. CASE s <= 100
    <3>1. Smaller(s, 100) = s /\ s \in 0..100
      <4>1. s \in 0..100  BY <2>1, <2>3
      <4>2. \A n \in 0..100 : Smaller(n, 100) = n  BY DEF Smaller
      <4> QED BY <4>1, <4>2
    <3>2. Less(r.base, s) \in 0..r.base  BY <3>1, LessIs
    <3> QED BY <2>2, <3>1, <3>2
  <2>4. CASE s > 100
    <3>1. Smaller(s, 100) = 100  BY <2>1, <2>4 DEF Smaller
    <3>2. Less(r.base, 100) = 0
      <4>1. r.base * (100 - 100) = 0  OBVIOUS
      <4> QED BY <4>1 DEF Less
    <3>3. Less(r.base, s) \in Int /\ Less(r.base, s) <= 0  BY <2>1, <2>4, LessOver
    <3> QED BY <2>2, <3>1, <3>2, <3>3
  <2> QED BY <2>1, <2>3, <2>4
<1>4. CASE r.mode = "best_wins"
  <2> DEFINE m == Max(ToSet(r.rules))
  <2>1. ModuleDiscounted(r) = Less(r.base, m) /\ BuiltinDiscounted(r) = Less(r.base, m)
    BY <1>1, <1>4 DEF ModuleDiscounted, BuiltinDiscounted
  <2>2. ToSet(r.rules) \subseteq 0..100 /\ ToSet(r.rules) # {}
    <3>1. Len(r.rules) \in Nat /\ Len(r.rules) # 0  BY ElementsIn, EmptySeq
    <3>2. 1 \in 1..Len(r.rules)  BY <3>1
    <3>3. ToSet(r.rules) = {r.rules[i] : i \in 1..Len(r.rules)}  BY ElementsIn DEF ToSet
    <3>4. \A i \in 1..Len(r.rules) : r.rules[i] \in 0..100  BY ElementsIn
    <3>5. r.rules[1] \in ToSet(r.rules)  BY <3>2, <3>3
    <3> QED BY <3>3, <3>4, <3>5
  <2>3. m \in 0..100
    <3> DEFINE T == ToSet(r.rules)
               N == {100 - x : x \in T}
    <3>0. \A x \in T : x \in Nat /\ 100 - x \in Nat
      <4>1. \A x \in 0..100 : x \in Nat /\ 100 - x \in Nat  OBVIOUS
      <4> QED BY <2>2, <4>1
    <3>1. N \in SUBSET Nat /\ N # {}  BY <2>2, <3>0
    <3>2. PICK l \in N : \A k \in N : l <= k  BY <3>1, LeastNat
    <3>3. PICK x \in T : l = 100 - x  BY <3>2
    <3>4. \A y \in T : x >= y
      <4> TAKE y \in T
      <4>1. 100 - y \in N /\ x \in Nat /\ y \in Nat  BY <3>0
      <4>2. 100 - x <= 100 - y  BY <3>2, <3>3, <4>1
      <4> QED BY <4>1, <4>2
    <3>5. m \in T  BY <3>4 DEF Max
    <3> QED BY <2>2, <3>5
  <2> HIDE DEF m
  <2>4. Less(r.base, m) \in 0..r.base  BY <2>3, LessIs
  <2> QED BY <2>1, <2>4
<1> QED BY <1>2, <1>3, <1>4

\* A cap in percent takes a part of the price, or more than all of it.
LEMMA PartIs ==
  ASSUME NEW b \in Nat, NEW c \in Nat
  PROVE  /\ (b * Percent(c)) \div 100 \in 0..b /\ (b * c) \div 100 \in Nat
         /\ c <= 100 => Percent(c) = c
         /\ c > 100 => (b * Percent(c)) \div 100 = b /\ (b * c) \div 100 >= b
<1>1. CASE c <= 100
  <2>1. Percent(c) = c
    <3>1. \A n \in 0..100 : Percent(n) = n  BY DEF Percent, Smaller, Larger
    <3> QED BY <1>1, <3>1
  <2>2. 100 - c \in Nat  BY <1>1
  <2>3. b * c \in Nat /\ b * (100 - c) \in Nat /\ b * c + b * (100 - c) = b * 100  BY <2>2
  <2> DEFINE m == b * c
  <2>4. m \in Nat /\ m <= b * 100  BY <2>3
  <2> HIDE DEF m
  <2>5. m \div 100 \in 0..b  BY <2>4
  <2>6. (b * c) \div 100 \in 0..b  BY <2>5 DEF m
  <2> QED BY <1>1, <2>1, <2>6
<1>2. CASE c > 100
  <2>1. Percent(c) = 100
    <3>1. \A n \in Nat : n > 100 => Percent(n) = 100  BY DEF Percent, Smaller, Larger
    <3> QED BY <1>2, <3>1
  <2>2. (b * 100) \div 100 = b  OBVIOUS
  <2>3. c - 100 \in Nat  BY <1>2
  <2>4. b * (c - 100) \in Nat /\ b * c = b * 100 + b * (c - 100)  BY <2>3
  <2> DEFINE m == b * c
  <2>5. m \in Nat /\ m >= b * 100  BY <2>4
  <2> HIDE DEF m
  <2>6. m \div 100 \in Nat /\ m \div 100 >= b  BY <2>5
  <2>7. (b * c) \div 100 \in Nat /\ (b * c) \div 100 >= b  BY <2>6 DEF m
  <2> QED BY <1>2, <2>1, <2>2, <2>7
<1> QED BY <1>1, <1>2

\* What a request has of whole numbers.
LEMMA RequestIs ==
  ASSUME NEW r \in Request
  PROVE  /\ r.base \in Int /\ r.cap \in Nat /\ r.dynamic \in Nat /\ r.globalMin \in Nat
         /\ SkillFloor(r) \in Nat /\ r.rules \in Seq(Percents)
<1>1. /\ r.base \in Bases /\ r.cap \in Caps /\ r.dynamic \in Costs /\ r.globalMin \in GlobalMins
      /\ r.skillMin \in SkillMins /\ r.minPrice \in MinPrices
      /\ r.rules \in BoundedSeq(Percents, MaxRules)
  BY DEF Request
<1>2. Bases \subseteq Int /\ Caps \subseteq Nat /\ Costs \subseteq Nat /\ GlobalMins \subseteq Nat
      /\ MinPrices \subseteq Nat /\ SkillMins \ {NoMin} \subseteq Nat
  BY PricingAssumption
<1>3. SkillFloor(r) \in Nat
  <2>1. CASE r.skillMin = NoMin  BY <1>1, <1>2, <2>1 DEF SkillFloor
  <2>2. CASE r.skillMin # NoMin  BY <1>1, <1>2, <2>2 DEF SkillFloor
  <2> QED BY <2>1, <2>2
<1>4. r.rules \in Seq(Percents)
  <2>1. PICK n \in 0..MaxRules : r.rules \in [1..n -> Percents]  BY <1>1 DEF BoundedSeq, SeqOf
  <2>2. MaxRules \in Nat  BY PricingAssumption
  <2>3. n \in Nat  BY <2>1, <2>2
  <2> QED BY <2>1, <2>3
<1> QED BY <1>1, <1>2, <1>3, <1>4

\* The greatest of three numbers, as the engines compute it and as it is stated.
LEMMA GreatestIs ==
  ASSUME NEW a \in Nat, NEW b \in Nat, NEW c \in Nat
  PROVE  Max({a, b, c}) = Larger(Larger(a, b), c)
<1> DEFINE m == Larger(Larger(a, b), c)
<1>1. m \in {a, b, c} /\ m >= a /\ m >= b /\ m >= c /\ m \in Nat  BY DEF Larger
<1> HIDE DEF m
<1>2. \A x \in {a, b, c} : (\A y \in {a, b, c} : x >= y) => x = m
  <2>1. TAKE x \in {a, b, c}
  <2>2. HAVE \A y \in {a, b, c} : x >= y
  <2>3. x >= m /\ m >= x /\ x \in Nat  BY <1>1, <2>2
  <2> QED BY <1>1, <2>3
<1>3. \A y \in {a, b, c} : m >= y  BY <1>1
<1>4. Max({a, b, c}) = m  BY <1>1, <1>2, <1>3 DEF Max
<1> QED BY <1>4 DEF m

\* The floors do not depend on the engine.
LEMMA FloorsAgree ==
  ASSUME NEW price \in Int, NEW r \in Request
  PROVE  LET floor == Larger(Larger(r.dynamic, SkillFloor(r)), r.globalMin)
             builtin == IF r.dynamic > 0 THEN Larger(r.dynamic, SkillFloor(r)) ELSE SkillFloor(r) IN
         /\ floor \in Nat
         /\ ModuleFloored(price, r) = Larger(floor, price)
         /\ Larger(Larger(price, builtin), r.globalMin) = Larger(floor, price)
<1> DEFINE d == r.dynamic
           k == SkillFloor(r)
           g == r.globalMin
<1>1. d \in Nat /\ k \in Nat /\ g \in Nat  BY RequestIs
<1>2. ModuleFloored(price, r) =
        LET floored == Larger(price, Larger(d, k)) IN
        IF g > 0 THEN Larger(floored, g) ELSE Larger(floored, 0)
  BY DEF ModuleFloored
<1> HIDE DEF d, k, g
<1>3. Larger(Larger(d, k), g) \in Nat  BY <1>1 DEF Larger
<1>4. ModuleFloored(price, r) = Larger(Larger(Larger(d, k), g), price)
  <2>1. CASE g > 0  BY <1>1, <1>2, <2>1 DEF Larger
  <2>2. CASE g = 0  BY <1>1, <1>2, <2>2 DEF Larger
  <2> QED BY <1>1, <2>1, <2>2
<1>5. Larger(Larger(price, IF d > 0 THEN Larger(d, k) ELSE k), g)
        = Larger(Larger(Larger(d, k), g), price)
  <2>1. CASE d > 0  BY <1>1, <2>1 DEF Larger
  <2>2. CASE d = 0  BY <1>1, <2>2 DEF Larger
  <2> QED BY <1>1, <2>1, <2>2
<1> QED BY <1>3, <1>4, <1>5 DEF d, k, g

\* Capped, the engines agree or differ only below zero.
LEMMA CapAgrees ==
  ASSUME NEW r \in Request, r.rules \in Seq(0..100), r.base \in Nat \ {0},
         r.mode \in {"multiplicative", "additive", "best_wins"}
  PROVE  LET left == r.base - (r.base * Percent(r.cap)) \div 100
             m == IF r.rules = << >> THEN r.base ELSE ModuleCapped(r) IN
         /\ m \in left..r.base /\ left \in Nat /\ BuiltinCapped(r) \in Int
         /\ \/ BuiltinCapped(r) = m
            \/ BuiltinCapped(r) <= 0 /\ m = 0
<1> DEFINE b == r.base
           most == (b * r.cap) \div 100
           mostM == (b * Percent(r.cap)) \div 100
           D == BuiltinDiscounted(r)
           M == ModuleDiscounted(r)
<1>1. r.cap \in Nat /\ b \in Nat /\ b # 0  BY RequestIs
<1>2. mostM \in 0..b /\ most \in Nat /\ (most = mostM \/ (mostM = b /\ most >= b))
  <2>1. r.cap <= 100 \/ r.cap > 100  BY <1>1
  <2> QED BY <1>1, <2>1, PartIs
<1>3. BuiltinCapped(r) = IF b - D > most THEN b - most ELSE D  BY DEF BuiltinCapped
<1>4. ModuleCapped(r) = IF b - M > mostM THEN b - mostM ELSE M  BY DEF ModuleCapped
<1>5. CASE r.rules = << >>
  <2>1. D = b  BY <1>5 DEF BuiltinDiscounted
  <2> HIDE DEF b, most, mostM, D, M
  <2>2. BuiltinCapped(r) = b  BY <1>1, <1>2, <1>3, <2>1
  <2>3. b \in (b - mostM)..b /\ b - mostM \in Nat  BY <1>1, <1>2
  <2> QED BY <1>1, <1>5, <2>2, <2>3 DEF b, mostM
<1>6. CASE r.rules # << >>
  <2>1. M \in 0..b /\ D \in Int /\ (D = M \/ (D <= 0 /\ M = 0))  BY <1>6, DiscountsAgree
  <2> HIDE DEF b, most, mostM, D, M
  <2> DEFINE c == IF b - D > most THEN b - most ELSE D
             m == IF b - M > mostM THEN b - mostM ELSE M
  <2>2. m \in (b - mostM)..b /\ b - mostM \in Nat /\ c \in Int  BY <1>1, <1>2, <2>1
  <2>3. c = m \/ (c <= 0 /\ m = 0)
    <3>1. CASE most = mostM  BY <1>1, <1>2, <2>1, <3>1
    <3>2. CASE mostM = b /\ most >= b  BY <1>1, <1>2, <2>1, <3>2
    <3> QED BY <1>2, <3>1, <3>2
  <2>4. BuiltinCapped(r) = c /\ ModuleCapped(r) = m  BY <1>3, <1>4
  <2> HIDE DEF c, m
  <2> QED BY <1>6, <2>2, <2>3, <2>4 DEF b, mostM
<1> QED BY <1>5, <1>6

\* The price of either engine is what the cap leaves, if it is above the floors.
LEMMA PricesAgree ==
  ASSUME NEW r \in Request, r.rules \in Seq(0..100), r.base \in Nat \ {0},
         r.mode \in {"multiplicative", "additive", "best_wins"}
  PROVE  LET floor == Max({r.dynamic, SkillFloor(r), r.globalMin})
             left  == r.base - (r.base * Percent(r.cap)) \div 100 IN
         BuiltinPrice(r) = ModulePrice(r) /\ BuiltinPrice(r) \in Larger(floor, left)..Larger(floor, r.base)
<1> DEFINE b == r.base
           left == b - (b * Percent(r.cap)) \div 100
           floor == Larger(Larger(r.dynamic, SkillFloor(r)), r.globalMin)
           m == IF r.rules = << >> THEN b ELSE ModuleCapped(r)
           c == BuiltinCapped(r)
<1>1. b \in Nat /\ b # 0  OBVIOUS
<1>2. m \in left..b /\ left \in Nat /\ c \in Int /\ (c = m \/ (c <= 0 /\ m = 0))  BY CapAgrees
<1>3. r.dynamic \in Nat /\ SkillFloor(r) \in Nat /\ r.globalMin \in Nat  BY RequestIs
<1>4. Max({r.dynamic, SkillFloor(r), r.globalMin}) = floor  BY <1>3, GreatestIs
<1>5. floor \in Nat  BY <1>3 DEF Larger
<1>6. BuiltinPrice(r) = Larger(floor, c)  BY <1>1, <1>2, FloorsAgree DEF BuiltinPrice
<1>7. ModulePrice(r) = Larger(floor, m)
  <2>1. m \in Int /\ ModuleFloored(m, r) = Larger(floor, m)
    <3> HIDE DEF m
    <3>1. m \in Int  BY <1>1, <1>2
    <3> QED BY <3>1, FloorsAgree
  <2>2. ModulePrice(r) = ModuleFloored(m, r)
    <3>1. CASE r.rules = << >>  BY <1>1, <3>1 DEF ModulePrice
    <3>2. CASE r.rules # << >>  BY <1>1, <3>2 DEF ModulePrice
    <3> QED BY <3>1, <3>2
  <2> QED BY <2>1, <2>2
<1> HIDE DEF b, left, floor, m, c
<1>8. Larger(floor, c) = Larger(floor, m)
      /\ Larger(floor, m) \in Larger(floor, left)..Larger(floor, b)
  BY <1>1, <1>2, <1>5 DEF Larger
<1> QED BY <1>4, <1>6, <1>7, <1>8 DEF b, left

\* The engines agree on every price, whatever the rules, the cap and the
\* floors are (_resolve_price_builtin() and resolve_price()).
THEOREM EnginesAgreeTheorem == PricingSpec => []EnginesAgree
<1>1. PricingInit => EnginesAgree  BY DEF PricingInit, EnginesAgree
<1>2. EnginesAgree /\ [PricingNext]_quote => EnginesAgree'
  <2> SUFFICES ASSUME EnginesAgree, [PricingNext]_quote PROVE EnginesAgree'  OBVIOUS
  <2>1. CASE UNCHANGED quote  BY <2>1 DEF EnginesAgree
  <2>2. ASSUME NEW r \in Request, Quote(r) PROVE EnginesAgree'
    <3>1. quote' = [of |-> r, builtin |-> IF r.base < 0 THEN 0 ELSE BuiltinPrice(r),
                    module |-> IF r.base < 0 THEN 0 ELSE ModulePrice(r)]
      BY <2>2 DEF Quote
    <3>2. quote'.of = r /\ quote'.builtin = (IF r.base < 0 THEN 0 ELSE BuiltinPrice(r))
          /\ quote'.module = (IF r.base < 0 THEN 0 ELSE ModulePrice(r))
      BY <3>1
    <3> DEFINE floor == Max({r.dynamic, SkillFloor(r), r.globalMin})
               left  == r.base - (r.base * Percent(r.cap)) \div 100
    <3>3. SUFFICES ASSUME ToSet(r.rules) \subseteq 0..100,
                          r.mode \in {"multiplicative", "additive", "best_wins"}
                   PROVE  /\ quote'.builtin = quote'.module
                          /\ r.base <= 0 => quote'.builtin = 0
                          /\ r.base > 0 => quote'.builtin \in Larger(floor, left)..Larger(floor, r.base)
      BY <3>2 DEF EnginesAgree
    <3>4. r.base \in Int /\ r.rules \in Seq(Percents)  BY RequestIs
    <3>5. r.rules \in Seq(0..100)
      <4>1. r.rules \in [1..Len(r.rules) -> Percents] /\ Len(r.rules) \in Nat
            /\ DOMAIN r.rules = 1..Len(r.rules)
        BY <3>4, LenProperties
      <4>2. \A i \in 1..Len(r.rules) : r.rules[i] \in ToSet(r.rules)  BY <4>1 DEF ToSet
      <4>3. r.rules \in [1..Len(r.rules) -> 0..100]  BY <3>3, <4>1, <4>2
      <4>4. \A n \in Nat : [1..n -> 0..100] \subseteq Seq(0..100)  OBVIOUS
      <4> QED BY <4>1, <4>3, <4>4
    <3>6. CASE r.base < 0  BY <3>2, <3>4, <3>6
    <3>7. CASE r.base = 0
      <4>1. BuiltinPrice(r) = 0 /\ ModulePrice(r) = 0  BY <3>7 DEF BuiltinPrice, ModulePrice
      <4> QED BY <3>2, <3>7, <4>1
    <3>8. CASE r.base > 0
      <4>1. r.base \in Nat \ {0}  BY <3>4, <3>8
      <4>2. BuiltinPrice(r) = ModulePrice(r)
            /\ BuiltinPrice(r) \in Larger(floor, left)..Larger(floor, r.base)
        BY <3>3, <3>5, <4>1, PricesAgree
      <4>3. ~(r.base < 0) /\ ~(r.base <= 0)  BY <4>1
      <4> QED BY <3>2, <4>2, <4>3
    <3> QED BY <3>4, <3>6, <3>7, <3>8
  <2> QED BY <2>1, <2>2 DEF PricingNext
<1> QED BY <1>1, <1>2, PTL DEF PricingSpec
=============================================================================
