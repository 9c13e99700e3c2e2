------------------------------ MODULE Payments ------------------------------
(***************************************************************************)
(* Payments on the chain: the watcher plugin (10-bcw) that finds transfers *)
(* to the deposit address of a peer by polling and by websocket, and the   *)
(* loop of the node that credits the ledger for them.                      *)
(*                                                                         *)
(* The chain and its RPC service are external: they keep a growing         *)
(* sequence of transfers, answer with the newest signatures after a given  *)
(* one, and may fail to return a transaction.  A cursor is the length of   *)
(* that sequence up to a signature.  sqlite statements are durable at      *)
(* once; the event bus and the tasks of the loop are not.                  *)
(***************************************************************************)
EXTENDS Naturals, Sequences, FiniteSets, SequencesExt, FiniteSetsExt

CONSTANTS
  Payers,       \* peers that are given a deposit address
  Transfers,    \* transfers that may appear on the chain
  Tx,           \* the transaction of each
  Payee,        \* and the peer whose address it goes to
  Strangers,    \* transfers from a wallet that names no known peer
  PageLimit,    \* signatures in one answer (100 in the code)
  MaxPayFaults, \* bound: websocket breaks, answers with a transaction
                \* missing, watches that end and crashes together
  MaxStrays     \* bound: leftovers of the credit loop at one time

ASSUME PaymentsAssumption ==
  /\ Payee \in [Transfers -> Payers] /\ DOMAIN Tx = Transfers
  /\ \A x, y \in Transfers : Tx[x] = Tx[y] => Payee[x] = Payee[y]
  /\ Strangers \subseteq Transfers /\ PageLimit \in Nat \ {0}
  /\ MaxPayFaults \in Nat /\ MaxStrays \in Nat

VARIABLES
  landed,     \* the chain: transfers in the order they became final
  wsUsable,   \* the websockets library was found when the plugin started
  ws,         \* the connection: "off", "gap" (its callback polls), "up", or
              \* "dead": broken while its callback polled, never opened again
  pendingSub, \* peers whose subscription was sent and not confirmed
  subs,       \* peers whose account is subscribed
  notices,    \* notifications on their way
  watch,      \* bcw_watchlist.status of each peer
  cursor,     \* bcw_watchlist.last_signature
  recent,     \* the last gap recovery is less than 30 seconds ago
  polls,      \* polls under way
  seen,       \* bcw_seen
  finalized,  \* bcw_receipts of type payment_finalized
  payBus,     \* payment.finalized events the credit loop has not taken
  strays,     \* inner tasks of its calls of next() that timed out (BusLoop):
              \* each of them takes one event and drops it
  crediting,  \* the transfer it awaits the ledger write of
  creditKeys, \* transactions with a bcw_payment_credit receipt
  credited,   \* ledger credits made for each transfer
  announced,  \* history: payment.received events emitted for each
  excused,    \* history: transfers given up for a reason the model names
  payFaults   \* faults so far

chainVars  == <<landed, wsUsable>>
wsVars     == <<ws, pendingSub, subs, notices>>
watchVars  == <<watch, cursor>>
creditVars == <<payBus, strays, crediting, creditKeys, credited>>
foundVars  == <<seen, finalized, announced>>
payVars    == <<chainVars, wsVars, watchVars, recent, polls, foundVars, creditVars,
                excused, payFaults>>

NoTransfer == "none"
Watched(p) == watch[p] = "watching"
PayFault   == payFaults < MaxPayFaults /\ payFaults' = payFaults + 1

PaymentsTypeOK ==
  /\ landed \in Seq(Transfers) /\ wsUsable \in BOOLEAN
  /\ ws \in {"off", "gap", "up", "dead"}
  /\ pendingSub \subseteq Payers /\ subs \subseteq Payers /\ notices \subseteq Payers
  /\ watch \in [Payers -> {"none", "watching", "expired"}] /\ cursor \in [Payers -> Nat]
  /\ recent \in BOOLEAN
  /\ polls \subseteq [kind : {"tick", "reconnect", "account"}, peer : Payers,
                      from : Nat, upto : Nat, found : SUBSET Nat, at : {"asked", "read"}]
  /\ seen \subseteq Transfers /\ finalized \subseteq seen /\ payBus \in Seq(Transfers)
  /\ crediting \in Transfers \cup {NoTransfer} /\ credited \in [Transfers -> Nat]
  /\ announced \in [Transfers -> Nat] /\ excused \subseteq Transfers
  /\ payFaults \in 0..MaxPayFaults /\ strays \in 0..MaxStrays

PaymentsInit ==
  /\ landed = << >> /\ wsUsable \in BOOLEAN
  /\ ws = "off" /\ pendingSub = {} /\ subs = {} /\ notices = {}
  /\ watch = [p \in Payers |-> "none"] /\ cursor = [p \in Payers |-> 0]
  /\ recent = FALSE /\ polls = {}
  /\ seen = {} /\ finalized = {} /\ announced = [x \in Transfers |-> 0]
  /\ payBus = << >> /\ crediting = NoTransfer /\ creditKeys = {}
  /\ credited = [x \in Transfers |-> 0] /\ excused = {}
  /\ payFaults = 0 /\ strays = 0
-----------------------------------------------------------------------------
(* The chain and the watch list                                            *)

\* A transaction becomes final; its transfers appear together, and the peer is
\* notified about if its account is subscribed.  A payer pays to the address
\* it was assigned.
Land(h) ==
  LET xs == {x \in Transfers : Tx[x] = h} p == Payee[CHOOSE x \in xs : TRUE] IN
  /\ xs \cap ToSet(landed) = {} /\ watch[p] # "none"
  /\ landed' = landed \o SetToSeq(xs)
  /\ notices' = IF p \in subs THEN notices \cup {p} ELSE notices
  /\ UNCHANGED <<wsUsable, ws, pendingSub, subs, watchVars, recent, polls, foundVars,
                 creditVars, excused, payFaults>>

\* _handle_watch_request(): the address is watched from now on, and subscribed
\* if the connection is up.
WatchRequest(p) ==
  /\ ~Watched(p) /\ watch' = [watch EXCEPT ![p] = "watching"]
  /\ pendingSub' = IF ws = "up" THEN pendingSub \cup {p} ELSE pendingSub
  /\ UNCHANGED <<chainVars, ws, subs, notices, cursor, recent, polls, foundVars, creditVars,
                 excused, payFaults>>

\* bcw.unwatch and peer.removed delete the row and with it the cursor; a watch
\* that expires keeps it.
WatchEnds(p) ==
  /\ Watched(p) /\ PayFault
  /\ \/ watch' = [watch EXCEPT ![p] = "none"] /\ cursor' = [cursor EXCEPT ![p] = 0]
     \/ watch' = [watch EXCEPT ![p] = "expired"] /\ UNCHANGED cursor
  /\ subs' = subs \ {p}
  /\ UNCHANGED <<chainVars, ws, pendingSub, notices, recent, polls, foundVars, creditVars,
                 excused>>
-----------------------------------------------------------------------------
(* Polling                                                                 *)

Ask(kind, p) == [kind |-> kind, peer |-> p, from |-> cursor[p], upto |-> 0,
                 found |-> {}, at |-> "asked"]
\* _poll_gap_recovery(): nothing within 30 seconds of the last one, otherwise
\* one poll for each watched address.
GapPoll(kind) ==
  IF recent THEN UNCHANGED <<recent, polls>>
  ELSE recent' = TRUE /\ polls' = polls \cup {Ask(kind, p) : p \in {p \in Payers : Watched(p)}}

\* on_tick(): polls unless the connection stands.  A tick waits for its polls.
TickPolls ==
  /\ ws \in {"off", "dead"} /\ ~recent /\ (\E p \in Payers : Watched(p))
  /\ ~\E q \in polls : q.kind = "tick"
  /\ GapPoll("tick")
  /\ UNCHANGED <<chainVars, wsVars, watchVars, foundVars, creditVars, excused, payFaults>>

ThirtySeconds ==
  /\ recent /\ recent' = FALSE
  /\ UNCHANGED <<chainVars, wsVars, watchVars, polls, foundVars, creditVars, excused, payFaults>>

\* getSignaturesForAddress: the newest PageLimit transactions after the cursor.
\* What is older is not asked for again.
Newer(p, from) == {i \in DOMAIN landed : i > from /\ Payee[landed[i]] = p}
Page(is) ==
  {i \in is : Cardinality({Tx[landed[j]] : j \in {j \in is : j >= i}}) <= PageLimit}

PollRead(q) ==
  LET is == Newer(q.peer, q.from)
      r  == [q EXCEPT !.at = "read", !.found = Page(is), !.upto = IF is = {} THEN q.from ELSE Max(is)] IN
  /\ q.at = "asked" /\ polls' = (polls \ {q}) \cup {r}
  /\ excused' = excused \cup {landed[i] : i \in is \ Page(is)}
  /\ UNCHANGED <<chainVars, wsVars, watchVars, recent, foundVars, creditVars, payFaults>>

\* Mutant of Advance: the end of the chain when the transfers are handled.
AdvanceToHead(q) ==
  cursor' = IF watch[q.peer] = "none" THEN cursor ELSE [cursor EXCEPT ![q.peer] = Len(landed)]
\* Mutant of Fresh: the receipts alone are asked, as for payment.finalized.
FreshByPage(q, missing) == {i \in q.found : Tx[landed[i]] \notin missing}

\* The cursor of a poll is the newest signature of the address, also of one
\* that could not be fetched; it may fall back when two polls overlap.
Advance(q) == cursor' = IF watch[q.peer] = "none" THEN cursor ELSE [cursor EXCEPT ![q.peer] = q.upto]

\* mark_seen(): the first to record a transfer handles it.
Fresh(q, missing) == {i \in q.found : Tx[landed[i]] \notin missing /\ landed[i] \notin seen}

\* _poll_gap_recovery() and _process_ws_account_event() after their RPC calls:
\* a transaction that cannot be fetched is skipped, every fresh transfer is
\* recorded and handled by _process_transfer(), which emits payment.received
\* and, with a new receipt, payment.finalized.  A transfer to an address that
\* is not watched any more is dropped.
PollDone(q, missing) ==
  LET lost   == {i \in q.found : Tx[landed[i]] \in missing}
      fresh  == Fresh(q, missing)
      mine   == IF Watched(q.peer) THEN {landed[i] : i \in fresh} ELSE {}
      new    == {i \in fresh : landed[i] \in mine \ finalized} IN
  /\ q.at = "read"
  /\ IF missing = {} THEN UNCHANGED payFaults ELSE PayFault
  /\ Advance(q)
  /\ seen' = seen \cup {landed[i] : i \in fresh}
  /\ finalized' = finalized \cup mine
  /\ announced' = [x \in Transfers |-> announced[x] + IF x \in mine THEN 1 ELSE 0]
  /\ LET order == SetToSortSeq(new, <)
     IN  payBus' = payBus \o [k \in DOMAIN order |-> landed[order[k]]]
  /\ excused' = excused \cup {landed[i] : i \in lost}
                        \cup (IF Watched(q.peer) THEN {} ELSE {landed[i] : i \in fresh})
  /\ polls' = polls \ {q}
  /\ IF q.kind = "reconnect" /\ ~(\E o \in polls \ {q} : o.kind = "reconnect")
     THEN IF ws = "gap"
          THEN ws' = "up" /\ pendingSub' = {p \in Payers : Watched(p)}
          ELSE UNCHANGED <<ws, pendingSub>>
     ELSE UNCHANGED <<ws, pendingSub>>
  /\ UNCHANGED <<chainVars, subs, notices, watch, recent, strays, crediting, creditKeys, credited>>
-----------------------------------------------------------------------------
(* The websocket                                                           *)

\* _reconnect_loop(): the connection opens and its callback polls, if a poll is
\* due, before it subscribes.
Connect ==
  LET due == ~recent /\ (\E p \in Payers : Watched(p)) IN
  /\ wsUsable /\ ws = "off"
  /\ GapPoll("reconnect")
  /\ IF due THEN ws' = "gap" /\ UNCHANGED pendingSub
            ELSE ws' = "up" /\ pendingSub' = {p \in Payers : Watched(p)}
  /\ UNCHANGED <<chainVars, subs, notices, watchVars, foundVars, creditVars, excused, payFaults>>

\* _receive_loop(): the answer to a subscription.
SubConfirmed(p) ==
  /\ p \in pendingSub /\ pendingSub' = pendingSub \ {p} /\ subs' = subs \cup {p}
  /\ UNCHANGED <<chainVars, ws, notices, watchVars, recent, polls, foundVars, creditVars,
                 excused, payFaults>>

\* _on_ws_notification() starts a task that reads the cursor and polls.
Noticed(p) ==
  /\ p \in notices /\ notices' = notices \ {p}
  /\ polls' = IF watch[p] = "none" THEN polls ELSE polls \cup {Ask("account", p)}
  /\ UNCHANGED <<chainVars, ws, pendingSub, subs, watchVars, recent, foundVars, creditVars,
                 excused, payFaults>>

\* _receive_loop() ends: subscriptions and messages on their way are gone, and
\* a new reconnect loop starts unless the old one still runs its callback.
WsBreaks ==
  /\ ws \in {"gap", "up"} /\ PayFault
  /\ ws' = IF ws = "gap" THEN "dead" ELSE "off"
  /\ pendingSub' = {} /\ subs' = {} /\ notices' = {}
  /\ UNCHANGED <<chainVars, watchVars, recent, polls, foundVars, creditVars, excused>>
-----------------------------------------------------------------------------
(* Crediting                                                               *)

\* The receipt log: an INSERT OR IGNORE and a look-up by id.
Receipted(x) == Tx[x] \in creditKeys
WriteReceipt(x) == creditKeys' = creditKeys \cup {Tx[x]}

\* _bcw_credit_loop(): five seconds in wait_for(sub.next()) without an event
\* leave the inner task of the call waiting beside that of the next one,
CreditIdles ==
  /\ crediting = NoTransfer /\ strays < MaxStrays /\ strays' = strays + 1
  /\ UNCHANGED <<chainVars, wsVars, watchVars, recent, polls, foundVars, payBus, crediting,
                 creditKeys, credited, excused, payFaults>>

\* and it takes an event that is handed to nobody.
Swallow ==
  /\ payBus # << >> /\ strays > 0 /\ strays' = strays - 1
  /\ payBus' = Tail(payBus) /\ excused' = excused \cup {Head(payBus)}
  /\ UNCHANGED <<chainVars, wsVars, watchVars, recent, polls, foundVars, crediting,
                 creditKeys, credited, payFaults>>

\* _handle_payment_finalized(): a transaction with a receipt, or whose sender
\* names no peer, is skipped; otherwise the receipt is written and the credit
\* waits for the writer.  The receipt names the transaction, not the transfer.
CreditStart ==
  LET x == Head(payBus) IN
  /\ payBus # << >> /\ crediting = NoTransfer /\ payBus' = Tail(payBus)
  /\ IF Receipted(x) \/ x \in Strangers
     THEN excused' = excused \cup {x} /\ UNCHANGED <<crediting, creditKeys>>
     ELSE /\ crediting' = x /\ WriteReceipt(x)
          /\ UNCHANGED excused
  /\ UNCHANGED <<chainVars, wsVars, watchVars, recent, polls, foundVars, strays, credited, payFaults>>

\* credit_ledger()
CreditWritten ==
  /\ crediting # NoTransfer /\ crediting' = NoTransfer
  /\ credited' = [credited EXCEPT ![crediting] = @ + 1]
  /\ UNCHANGED <<chainVars, wsVars, watchVars, recent, polls, foundVars, payBus, strays, creditKeys,
                 excused, payFaults>>

\* The process dies, perhaps while the transfers of a poll are recorded one by
\* one: events and the write it waits for are lost, and nothing looks at a
\* seen transfer again.
PaymentsCrash ==
  /\ PayFault
  /\ \/ UNCHANGED <<cursor, seen>>
        /\ excused' = excused \cup ToSet(payBus) \cup ({crediting} \ {NoTransfer})
     \/ \E q \in polls : \E now \in SUBSET Fresh(q, {}) :
          /\ q.at = "read" /\ seen' = seen \cup {landed[i] : i \in now}
          /\ IF q.kind = "account" THEN UNCHANGED cursor ELSE Advance(q)
          /\ excused' = excused \cup {landed[i] : i \in q.found} \cup ToSet(payBus)
                                \cup ({crediting} \ {NoTransfer})
  /\ ws' = "off" /\ pendingSub' = {} /\ subs' = {} /\ notices' = {} /\ polls' = {}
  /\ recent' = FALSE /\ payBus' = << >> /\ crediting' = NoTransfer
  /\ strays' = 0
  /\ UNCHANGED <<chainVars, watch, finalized, announced, creditKeys, credited>>

PaymentsProgram ==
  \/ TickPolls \/ ThirtySeconds \/ Connect \/ CreditIdles \/ Swallow
  \/ CreditStart \/ CreditWritten
  \/ \E p \in Payers : SubConfirmed(p) \/ Noticed(p)
  \/ \E q \in polls : PollRead(q)
                      \/ \E missing \in SUBSET {Tx[landed[i]] : i \in q.found} : PollDone(q, missing)

PaymentsNext ==
  \/ PaymentsProgram
  \/ \E h \in {Tx[x] : x \in Transfers} : Land(h)
  \/ \E p \in Payers : WatchRequest(p) \/ WatchEnds(p)
  \/ WsBreaks \/ PaymentsCrash

PaymentsSpec == PaymentsInit /\ [][PaymentsNext]_payVars

\* Timers and answers come, and no poll is starved by later ones.
PaymentsFairness ==
  /\ WF_payVars(TickPolls) /\ WF_payVars(ThirtySeconds) /\ WF_payVars(Connect)
  /\ WF_payVars(CreditStart) /\ WF_payVars(CreditWritten)
  /\ WF_payVars(\E p \in Payers : SubConfirmed(p)) /\ WF_payVars(\E p \in Payers : Noticed(p))
  /\ WF_payVars(\E q \in polls : PollRead(q)) /\ WF_payVars(\E q \in polls : PollDone(q, {}))
PaymentsFair == PaymentsSpec /\ PaymentsFairness
-----------------------------------------------------------------------------
(* Properties                                                              *)

\* 10-bcw/handler.py:387 and bcw_credit.py:78: polls by tick, reconnect and
\* notification overlap, the cursor may move back and the process restart, yet a
\* transfer is announced and credited at most once, and so is a transaction.
PaidOnce ==
  /\ \A x \in Transfers : announced[x] <= 1 /\ credited[x] <= 1
  /\ \A x, y \in Transfers : x # y /\ Tx[x] = Tx[y] => credited[x] + credited[y] <= 1

Landed(x)   == x \in ToSet(landed)
Credited(x) == credited[x] = 1 \/ x \in excused \/ ~Watched(Payee[x])

\* 10-bcw/handler.py:784: without the websocket, polling finds every transfer
\* to a watched address and the loop credits it, except those given up at a
\* point the model names: skipped fetch, overlong page, ended watch, second
\* transfer of a transaction, unknown wallet, crash after the record, or an event
\* that a leftover of an idle timeout took from the loop.
PaidIsCredited == \A x \in Transfers : (Landed(x) /\ ~wsUsable) ~> Credited(x)
=============================================================================
