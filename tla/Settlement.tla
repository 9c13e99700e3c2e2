----------------------------- MODULE Settlement -----------------------------
(***************************************************************************)
(* Netting and settlement at one node: the bilateral ledger, the           *)
(* settlement queue, the netting cycle that fills it, the consumer that    *)
(* works through it, and the three document flows it drives                *)
(*   soft threshold -> settle_request mail to the peer,                    *)
(*   inbound settle_request -> countersigned, accepted, confirmed by mail, *)
(*   inbound settlement_confirmation -> the ledger position is zeroed.     *)
(* Credit notes, the other mail that moves the ledger, are here too.       *)
(*                                                                         *)
(* A step is the code between two awaits.  The rows of a consumer tick are *)
(* worked on concurrently (asyncio.gather).  Amounts are small integers,   *)
(* percentages are compared in tenths, signatures are valid.               *)
(***************************************************************************)
EXTENDS Integers, Sequences, FiniteSets, SequencesExt, DataOps

CONSTANTS
  SPeers,      \* peers with a ledger entry
  NamesOurs,   \* peers whose confirmation names a receipt of this node
  Unresolved,  \* peers whose key may be missing from peer_keys
  Tasks,       \* paid tasks that may be refunded by a credit note
  TaskPeer,    \* and the peer of each
  SoftLimit,   \* initial credit and
  HardLimit,   \* lowest balance of the policy, the same for every peer
  MinAmount,   \* settlements below are skipped
  Price,       \* of a task
  MaxCharges, MaxRows, MaxRequests, MaxCrashes   \* bounds of the model

ASSUME SettlementAssumption ==
  /\ IsFiniteSet(SPeers) /\ IsFiniteSet(Tasks)
  /\ NamesOurs \subseteq SPeers /\ Unresolved \subseteq SPeers
  /\ TaskPeer \in [Tasks -> SPeers] /\ SoftLimit \in Int /\ HardLimit \in Int /\ MinAmount \in Nat
  /\ Price \in Nat \ {0} /\ MaxCharges \in Nat /\ MaxRows \in Nat
  /\ MaxRequests \in Nat /\ MaxCrashes \in Nat

VARIABLES
  balance,    \* ledger.balance; below zero: the peer owes this node
  rows,       \* the settlement_queue table in insertion order
  jobs,       \* rows the running tick works on, and where each is
  window,     \* peers settled less than min_interval_seconds ago
  requests,   \* settle_request mails to peers and whether they were answered
  refund,     \* where the credit note of each task is
  refunded,   \* history: refunds applied for each task
  asked,      \* history: automatic requests to a peer in its window
  effects,    \* history: mails sent or ledger writes done for each row
  passed,     \* history: confirmations found good
  settled,    \* history: what confirmations added to the balance
  charged,    \* history: tasks charged to each peer
  sCrashes    \* crashes so far

ledgerVars  == <<balance, charged, settled>>
refundVars  == <<refund, refunded>>
settleVars  == <<ledgerVars, rows, jobs, window, requests, refundVars, asked,
                 effects, passed, sCrashes>>

Kinds == {"soft", "request", "confirmation"}
Own   == "own"   \* this node's key in the dedup column of a confirmation

SettlementTypeOK ==
  /\ balance \in [SPeers -> Int] /\ charged \in [SPeers -> 0..MaxCharges]
  /\ rows \in Seq([kind : Kinds, peer : SPeers, col : SPeers \cup {Own},
                   amount : Nat, status : {"pending", "processed", "failed"}])
  /\ jobs \subseteq [row : DOMAIN rows, prior : Int,
                     at : {"start", "enqueue", "sent", "accepted", "delta",
                           "mark", "fail"}]
  /\ window \subseteq SPeers
  /\ requests \in Seq([peer : SPeers, amount : Nat, answered : BOOLEAN])
  /\ refund \in [Tasks -> {"open", "noted", "applied", "lost"}]
  /\ refunded \in [Tasks -> Nat] /\ asked \in [SPeers -> Nat]
  /\ effects \in [1..MaxRows -> Nat]
  /\ passed \subseteq DOMAIN rows /\ settled \in [SPeers -> Int]
  /\ sCrashes \in 0..MaxCrashes

SettlementInit ==
  /\ balance = [p \in SPeers |-> 0] /\ charged = [p \in SPeers |-> 0]
  /\ settled = [p \in SPeers |-> 0] /\ passed = {}
  /\ rows = << >> /\ jobs = {} /\ window = {} /\ requests = << >>
  /\ refund = [t \in Tasks |-> "open"] /\ refunded = [t \in Tasks |-> 0]
  /\ asked = [p \in SPeers |-> 0] /\ effects = [i \in 1..MaxRows |-> 0]
  /\ sCrashes = 0
-----------------------------------------------------------------------------
(* The rules                                                               *)

CreditRange == SoftLimit - HardLimit
\* evaluate_settlement() and the test of run_netting_cycle(): utilization of
\* at least 80% of the credit range and an amount worth settling.
Settles(b) ==
  /\ CreditRange > 0
  /\ 10 * (SoftLimit - b) >= 8 * CreditRange
  /\ SoftLimit - CreditRange \div 2 - b >= MinAmount
Amount(b) == SoftLimit - CreditRange \div 2 - b

Pending == {i \in DOMAIN rows : rows[i].status = "pending"}
\* Mutant of HasPending: only rows nobody works on.
HasIdlePending(p) ==
  \E i \in Pending : rows[i].col = p /\ ~\E j \in jobs : j.row = i
\* A row that waits in the dedup column of the peer; the row being worked on
\* is pending until it is marked.
HasPending(p) == \E i \in Pending : rows[i].col = p

NewRow(kind, p, col, n) ==
  [kind |-> kind, peer |-> p, col |-> col, amount |-> n, status |-> "pending"]
Insert(row) == Len(rows) < MaxRows /\ rows' = Append(rows, row)

\* A confirmation covers a debt if it falls short by at most one credit.
Tolerance == 1
Covers(n, prior) == prior = 0 \/ (n > 0 /\ n >= (IF prior < 0 THEN -prior ELSE prior) - Tolerance)

At(i, at, prior) == [row |-> i, at |-> at, prior |-> prior]
Becomes(j, at, prior) == jobs' = (jobs \ {j}) \cup {At(j.row, at, prior)}
Did(i) == effects' = [effects EXCEPT ![i] = @ + 1]
-----------------------------------------------------------------------------
(* Charging, netting and incoming mail                                     *)

\* update_ledger_provider(): a task of the peer was completed.
Charge(p) ==
  /\ charged[p] < MaxCharges /\ balance[p] > HardLimit
  /\ balance' = [balance EXCEPT ![p] = @ - Price]
  /\ charged' = [charged EXCEPT ![p] = @ + 1]
  /\ UNCHANGED <<settled, rows, jobs, window, requests, refundVars, asked,
                 effects, passed, sCrashes>>

\* run_netting_cycle(), from the heartbeat tick or a tab reminder: without an
\* await, one row for every peer that is due.
NettingCycle ==
  LET due == {p \in SPeers : Settles(balance[p]) /\ ~HasPending(p)}
      row(p) == NewRow("soft", p, p, Amount(balance[p])) IN
  /\ due # {} /\ Len(rows) + Cardinality(due) <= MaxRows
  /\ rows' = rows \o [k \in 1..Cardinality(due) |-> row(SetToSeq(due)[k])]
  /\ UNCHANGED <<ledgerVars, jobs, window, requests, refundVars, asked,
                 effects, passed, sCrashes>>

\* handle_settle_request(): the request of a peer is queued.  Its column gets
\* peer_key, the key of the peer that proposes.
RequestArrives(p) ==
  /\ Insert(NewRow("request", p, p, Price))
  /\ UNCHANGED <<ledgerVars, jobs, window, requests, refundVars, asked,
                 effects, passed, sCrashes>>

\* handle_settlement_confirmation(): the answer to a request is queued if it
\* names a receipt this node has, and dropped otherwise.  Its column gets
\* peer_key, which is the key of this node.
ConfirmationArrives(k, n) ==
  LET p == requests[k].peer IN
  /\ ~requests[k].answered
  /\ requests' = [requests EXCEPT ![k].answered = TRUE]
  /\ IF p \in NamesOurs THEN Insert(NewRow("confirmation", p, Own, n))
                        ELSE UNCHANGED rows
  /\ UNCHANGED <<ledgerVars, jobs, window, refundVars, asked, effects, passed,
                 sCrashes>>

\* The operator's POST /api/settlements/execute sends a request of its own.
CockpitExecute(p) ==
  /\ balance[p] < 0 /\ Len(requests) < MaxRequests
  /\ requests' = Append(requests, [peer |-> p, amount |-> -balance[p], answered |-> FALSE])
  /\ UNCHANGED <<ledgerVars, rows, jobs, window, refundVars, asked, effects,
                 passed, sCrashes>>

\* min_interval_seconds go by.
WindowEnds(p) ==
  /\ p \in window /\ window' = window \ {p} /\ asked' = [asked EXCEPT ![p] = 0]
  /\ UNCHANGED <<ledgerVars, rows, jobs, requests, refundVars, effects, passed,
                 sCrashes>>

\* handle_credit_note(): the dedup receipt is written, then the refund waits
\* for the writer.  A second note finds the receipt.
CreditNote(t) ==
  /\ refund[t] = "open" /\ refund' = [refund EXCEPT ![t] = "noted"]
  /\ UNCHANGED <<ledgerVars, rows, jobs, window, requests, refunded, asked,
                 effects, passed, sCrashes>>

RefundApplied(t) ==
  /\ refund[t] = "noted" /\ refund' = [refund EXCEPT ![t] = "applied"]
  /\ refunded' = [refunded EXCEPT ![t] = @ + 1]
  /\ balance' = [balance EXCEPT ![TaskPeer[t]] = @ + Price]
  /\ UNCHANGED <<charged, settled, rows, jobs, window, requests, asked,
                 effects, passed, sCrashes>>
-----------------------------------------------------------------------------
(* The consumer                                                            *)

\* Mutant of Tick: the next tick does not wait for the running one.
TickOverlaps ==
  /\ Pending # {} /\ jobs' = jobs \cup {At(i, "start", 0) : i \in Pending}
  /\ UNCHANGED <<ledgerVars, rows, window, requests, refundVars, asked,
                 effects, passed, sCrashes>>

\* A tick takes the pending rows; the next one waits for all of them.
Tick ==
  /\ jobs = {} /\ Pending # {} /\ jobs' = {At(i, "start", 0) : i \in Pending}
  /\ UNCHANGED <<ledgerVars, rows, window, requests, refundVars, asked,
                 effects, passed, sCrashes>>

\* _handle_settlement_soft_threshold(): the cadence guard and the engine end
\* the row here; otherwise the request waits to be enqueued.
SoftStart(j) ==
  LET r == rows[j.row] IN
  /\ j.at = "start" /\ r.kind = "soft"
  /\ Becomes(j, IF r.peer \in window \/ ~Settles(SoftLimit - CreditRange \div 2 - r.amount)
                THEN "mark" ELSE "enqueue", 0)
  /\ UNCHANGED <<ledgerVars, rows, window, requests, refundVars, asked,
                 effects, passed, sCrashes>>

\* Its mail is in the outbox.
SoftEnqueued(j) ==
  LET r == rows[j.row] IN
  /\ j.at = "enqueue"
  /\ requests' = Append(requests, [peer |-> r.peer, amount |-> r.amount, answered |-> FALSE])
  /\ asked' = [asked EXCEPT ![r.peer] = @ + 1] /\ Did(j.row)
  /\ Becomes(j, "sent", 0)
  /\ UNCHANGED <<ledgerVars, rows, window, refundVars, passed, sCrashes>>

\* set_settlement_cadence(), after the mail so that a failure costs no window.
SoftCadence(j) ==
  /\ j.at = "sent" /\ window' = window \cup {rows[j.row].peer}
  /\ Becomes(j, "mark", 0)
  /\ UNCHANGED <<ledgerVars, rows, requests, refundVars, asked, effects, passed,
                 sCrashes>>

\* _handle_settlement_request(): countersign, check both signatures, write the
\* settlement_accepted receipt.
RequestAccepted(j) ==
  /\ j.at = "start" /\ rows[j.row].kind = "request" /\ Becomes(j, "accepted", 0)
  /\ UNCHANGED <<ledgerVars, rows, window, requests, refundVars, asked,
                 effects, passed, sCrashes>>

\* execute_settlement() goes on: an unknown key raises, after the receipt;
\* otherwise the confirmation is enqueued.
RequestAnswered(j) ==
  /\ j.at = "accepted"
  /\ \/ rows[j.row].peer \in Unresolved /\ Becomes(j, "fail", 0) /\ UNCHANGED effects
     \/ Becomes(j, "mark", 0) /\ Did(j.row)
  /\ UNCHANGED <<ledgerVars, rows, window, requests, refundVars, asked, passed,
                 sCrashes>>

\* _handle_settlement_confirmation(): reads the balance, drops the document
\* if a settlement of the peer is pending or it pays too little.
ConfirmationStart(j) ==
  LET r == rows[j.row] prior == balance[r.peer]
      ok == ~HasPending(r.peer) /\ Covers(r.amount, prior) IN
  /\ j.at = "start" /\ r.kind = "confirmation"
  /\ Becomes(j, IF ok /\ prior # 0 THEN "delta" ELSE "mark", prior)
  /\ passed' = IF ok THEN passed \cup {j.row} ELSE passed
  /\ UNCHANGED <<ledgerVars, rows, window, requests, refundVars, asked,
                 effects, sCrashes>>

\* The writer adds the difference, so what was charged since the read stays.
ConfirmationWritten(j) ==
  LET p == rows[j.row].peer IN
  /\ j.at = "delta" /\ balance' = [balance EXCEPT ![p] = @ - j.prior]
  /\ settled' = [settled EXCEPT ![p] = @ - j.prior]
  /\ Did(j.row) /\ Becomes(j, "mark", j.prior)
  /\ UNCHANGED <<charged, rows, window, requests, refundVars, asked, passed,
                 sCrashes>>

\* Mutant of Marked: a failure leaves the row pending.
MarkedIfFine(j) ==
  /\ j.at \in {"mark", "fail"} /\ jobs' = jobs \ {j}
  /\ rows' = [rows EXCEPT ![j.row].status = IF j.at = "mark" THEN "processed" ELSE "pending"]
  /\ UNCHANGED <<ledgerVars, window, requests, refundVars, asked, effects,
                 passed, sCrashes>>

\* mark_settlement_processed()
Marked(j) ==
  /\ j.at \in {"mark", "fail"} /\ jobs' = jobs \ {j}
  /\ rows' = [rows EXCEPT ![j.row].status = IF j.at = "mark" THEN "processed" ELSE "failed"]
  /\ UNCHANGED <<ledgerVars, window, requests, refundVars, asked, effects,
                 passed, sCrashes>>

\* The process dies: rows that were not marked are pending at the next start,
\* a refund that waits for the writer is gone and its receipt stays.
SettlementCrash ==
  /\ sCrashes < MaxCrashes /\ sCrashes' = sCrashes + 1 /\ jobs' = {}
  /\ refund' = [t \in Tasks |-> IF refund[t] = "noted" THEN "lost" ELSE refund[t]]
  /\ UNCHANGED <<ledgerVars, rows, window, requests, refunded, asked, effects,
                 passed>>

ConsumerStep ==
  \/ Tick
  \/ \E j \in jobs : \/ SoftStart(j) \/ SoftEnqueued(j) \/ SoftCadence(j)
                     \/ RequestAccepted(j) \/ RequestAnswered(j)
                     \/ ConfirmationStart(j) \/ ConfirmationWritten(j) \/ Marked(j)

SettlementNext ==
  \/ ConsumerStep
  \/ \E p \in SPeers : \/ Charge(p) \/ RequestArrives(p) \/ CockpitExecute(p)
                       \/ WindowEnds(p)
  \/ NettingCycle \/ SettlementCrash
  \/ \E k \in DOMAIN requests :
       \E n \in {requests[k].amount, 1} : ConfirmationArrives(k, n)
  \/ \E t \in Tasks : CreditNote(t) \/ RefundApplied(t)

SettlementSpec == SettlementInit /\ [][SettlementNext]_settleVars
\* The consumer loop keeps polling and its mails and writes return.
SettlementFairness == WF_settleVars(ConsumerStep)
SettlementFair == SettlementSpec /\ SettlementFairness
-----------------------------------------------------------------------------
(* Properties                                                              *)

\* node.py:6202 and netting.py:42: however the netting cycle, the concurrent
\* rows of a tick and restarts interleave, a peer gets one automatic request
\* in its window, and one more only for each crash between mail and cadence.
OneRequestPerWindow == \A p \in SPeers : asked[p] <= 1 + sCrashes

\* What the confirmations found good pay for the peer, row by row, up to the
\* tolerance of each.
Paid(p) ==
  [i \in DOMAIN rows |->
     IF i \in passed /\ rows[i].peer = p THEN rows[i].amount + Tolerance ELSE 0]

\* node.py:6416-6442, :6871 and commerce/handlers.py:127: the balance is what
\* charges, refunds and settlements add up to, although confirmations act on a
\* balance read earlier; settlements add no more than the good confirmations
\* pay, up to the tolerance of each.  A row has its effect once, and once more
\* for each crash before it is marked; a credit note is applied at most once.
LedgerBacked ==
  \A p \in SPeers :
    LET back == {t \in Tasks : TaskPeer[t] = p /\ refunded[t] > 0} IN
    /\ balance[p] = settled[p] + Price * (Cardinality(back) - charged[p])
    /\ settled[p] <= (1 + sCrashes) * SumTo(Paid(p), Len(rows))
    /\ \A i \in DOMAIN rows : rows[i].peer = p => effects[i] <= 1 + sCrashes
    /\ \A t \in back : refunded[t] = 1

\* node.py:6872: every row of the queue ends processed or failed.
QueuedIsSettled ==
  \A i \in 1..MaxRows :
    (i \in DOMAIN rows /\ i \in Pending) ~> (i \in DOMAIN rows /\ i \notin Pending)

\* settlement_execution.py:191: "It does NOT zero the ledger - that happens when
\* the counterparty sends settlement_confirmation back": a request that this
\* code answers at the other node, where confirmations name the receipt of the
\* confirmer, leads to a settlement here.
AnsweredIsZeroed ==
  \A p \in SPeers : (\E k \in DOMAIN requests : requests[k].peer = p /\ requests[k].answered)
                     ~> (\E i \in passed : rows[i].peer = p)
=============================================================================
