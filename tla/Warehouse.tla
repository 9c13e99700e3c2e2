----------------------------- MODULE Warehouse ------------------------------
(***************************************************************************)
(* The warehouse manager: the gates every document from outside passes     *)
(* before the node acts on it, the quarantine of what is held or refused,  *)
(* and the two ways in: dispatched mail and messages that carry a URI (the *)
(* membrane plugin).                                                       *)
(*                                                                         *)
(* A document is the record of what the gates find out about it.  ingest() *)
(* runs in a thread under a deadline of the caller, which may give up on   *)
(* it; statements of the quarantine table are durable, bus events are not. *)
(***************************************************************************)
EXTENDS Naturals, FiniteSets

CONSTANTS
  Docs,        \* documents
  DocKinds,    \* what they may be like, see DocKind
  MaxWmCrashes \* bound

\* The fields the code branches on.
DocKind ==
  [route    : {"mail", "legacy", "uri"},  \* "legacy": a message without URI
   wall     : BOOLEAN,                    \* the membrane lets its URI through
   commerce : BOOLEAN,                    \* type or selector of commerce
   proof    : BOOLEAN,                    \* carries a proof
   trusted  : BOOLEAN,                    \* type that may come unsigned
   signer   : {"peer", "internal", "nobody"},
   fails    : SUBSET (1..5),              \* gates it does not pass
   known    : BOOLEAN,                    \* there is a schema for its type
   gates    : SUBSET (1..5),              \* gates of its rule
   action   : {"auto_promote", "hold_for_review", "reject"}]

ASSUME WarehouseAssumption == DocKinds \subseteq DocKind /\ MaxWmCrashes \in Nat

VARIABLES
  doc,       \* the document
  thread,    \* ingest(): "idle", "queued", then the verdict until it is done
  verdict,   \* what it returned
  caller,    \* the coroutine: "new", "waiting", "handled" or "dropped"
  row,       \* status of the row in dmz_quarantine
  promotes,  \* history: wm.promoted events
  wmReceipts,\* history: receipts written for it
  toldHeld, \* a wm.held event was emitted since the node started
  ruling,    \* history: what reviewers said
  wmCrashes  \* crashes so far

wmVars == <<doc, thread, verdict, caller, row, promotes, wmReceipts, toldHeld, ruling,
            wmCrashes>>

Verdicts == {"promoted", "held", "rejected"}

WarehouseTypeOK ==
  /\ doc \in [Docs -> DocKinds]
  /\ thread \in [Docs -> {"idle", "queued", "receipt", "announce", "done"}]
  /\ verdict \in [Docs -> Verdicts \cup {"none"}]
  /\ caller \in [Docs -> {"new", "waiting", "handled", "dropped"}]
  /\ row \in [Docs -> {"none", "pending", "promoted", "rejected"}]
  /\ promotes \in [Docs -> Nat] /\ wmReceipts \in [Docs -> Nat]
  /\ toldHeld \in [Docs -> BOOLEAN]
  /\ ruling \in [Docs -> SUBSET {"approved", "refused"}] /\ wmCrashes \in 0..MaxWmCrashes

WarehouseInit ==
  /\ doc \in [Docs -> DocKinds]
  /\ thread = [d \in Docs |-> "idle"] /\ verdict = [d \in Docs |-> "none"]
  /\ caller = [d \in Docs |-> "new"] /\ row = [d \in Docs |-> "none"]
  /\ promotes = [d \in Docs |-> 0] /\ wmReceipts = [d \in Docs |-> 0]
  /\ toldHeld = [d \in Docs |-> FALSE] /\ ruling = [d \in Docs |-> {}]
  /\ wmCrashes = 0
-----------------------------------------------------------------------------
(* What ingest() decides                                                   *)

\* A document without a sender key is taken only from a signer of this node,
\* whose signature is verified and replaces the first two gates.
Internal(k) == k.signer = "internal" /\ 1 \notin k.fails
Unsigned(k) == k.signer # "peer" /\ ~Internal(k)
Required(k) == IF Internal(k) THEN {3, 4} ELSE k.gates
\* A gate that fails ends the sequence, so the document is refused if it fails
\* any; the third gate has nothing to say of an unknown type but to hold it.
Fails(k)    == {g \in k.fails : g = 3 => k.known}
Refused(k)  == Unsigned(k) \/ Fails(k) \cap Required(k) # {}
ActionOf(k) ==
  IF Internal(k) THEN "auto_promote"
  ELSE IF 3 \in k.gates /\ ~k.known THEN "hold_for_review" ELSE k.action

\* Mutant of Decision: the rule of the type is asked before the sender.
DecisionByRule(k) ==
  IF k.fails \cap k.gates # {} THEN "rejected"
  ELSE CASE k.action = "auto_promote" -> "promoted" [] k.action = "reject" -> "rejected"
         [] OTHER -> "held"

Decision(k) ==
  IF Refused(k) THEN "rejected"
  ELSE CASE ActionOf(k) = "auto_promote" -> "promoted"
         [] ActionOf(k) = "hold_for_review" -> "held"
         [] OTHER -> "rejected"
-----------------------------------------------------------------------------
(* The ways in                                                             *)

\* _dispatch_system_item(): mail that is no document, or of a type that may
\* come unsigned, goes straight to its handler.
Plain(k) ==
  \/ k.route = "mail" /\ ~k.proof /\ (~k.commerce \/ k.trusted)
  \* on_inbound(): no URI, or a selector other than commerce.
  \/ k.route = "legacy"
  \/ k.route = "uri" /\ k.wall /\ ~k.commerce
Blocked(k) == k.route = "uri" /\ ~k.wall

DocArrives(d) ==
  /\ caller[d] = "new"
  /\ caller' = [caller EXCEPT ![d] = IF Blocked(doc[d]) THEN "dropped"
                                     ELSE IF Plain(doc[d]) THEN "handled" ELSE "waiting"]
  /\ thread' = [thread EXCEPT ![d] = IF Blocked(doc[d]) \/ Plain(doc[d]) THEN "idle" ELSE "queued"]
  /\ UNCHANGED <<doc, verdict, row, promotes, wmReceipts, toldHeld, ruling, wmCrashes>>

\* The rows of dmz_quarantine and the three statements on them.
QuarantineStore(d, status) == row' = [row EXCEPT ![d] = status]
QuarantineUpdateStatus(d, status) == row' = [row EXCEPT ![d] = status]
QuarantinePending == {d \in Docs : row[d] = "pending"}

\* The first effect of ingest(): _quarantine() and _hold() store the row,
\* _promote() emits its event.
Ingest(d) ==
  LET v == Decision(doc[d]) IN
  /\ thread[d] = "queued" /\ verdict' = [verdict EXCEPT ![d] = v]
  /\ thread' = [thread EXCEPT ![d] = CASE v = "promoted" -> "receipt" [] v = "held" -> "announce"
                                       [] OTHER -> "done"]
  /\ CASE v = "promoted" -> UNCHANGED row
       [] v = "held" -> QuarantineStore(d, "pending")
       [] OTHER -> QuarantineStore(d, "rejected")
  /\ promotes' = [promotes EXCEPT ![d] = @ + IF v = "promoted" THEN 1 ELSE 0]
  /\ UNCHANGED <<doc, caller, wmReceipts, toldHeld, ruling, wmCrashes>>

\* The second: the receipt of a promoted document, the event of a held one.
IngestEnds(d) ==
  /\ \/ /\ thread[d] = "receipt" /\ wmReceipts' = [wmReceipts EXCEPT ![d] = @ + 1]
        /\ UNCHANGED toldHeld
     \/ /\ thread[d] = "announce" /\ toldHeld' = [toldHeld EXCEPT ![d] = TRUE]
        /\ UNCHANGED wmReceipts
  /\ thread' = [thread EXCEPT ![d] = "done"]
  /\ UNCHANGED <<doc, verdict, caller, row, promotes, ruling, wmCrashes>>

\* _wm_ingest(): five seconds pass; the caller reports a rejection and the
\* thread goes on.
IngestTimeout(d) ==
  /\ caller[d] = "waiting" /\ caller' = [caller EXCEPT ![d] = "dropped"]
  /\ UNCHANGED <<doc, thread, verdict, row, promotes, wmReceipts, toldHeld, ruling,
                 wmCrashes>>

\* The caller goes on with a promoted document only; one of this node is
\* countersigned first, which may fail.
IngestReturns(d) ==
  /\ caller[d] = "waiting" /\ thread[d] = "done"
  /\ \/ verdict[d] = "promoted" /\ caller' = [caller EXCEPT ![d] = "handled"]
     \/ (verdict[d] # "promoted" \/ Internal(doc[d])) /\ caller' = [caller EXCEPT ![d] = "dropped"]
  /\ UNCHANGED <<doc, thread, verdict, row, promotes, wmReceipts, toldHeld, ruling,
                 wmCrashes>>
-----------------------------------------------------------------------------
(* Review and restart                                                      *)

Died == /\ wmCrashes < MaxWmCrashes /\ wmCrashes' = wmCrashes + 1
        \* Threads and callers are gone and _recover() announces what is held.
        /\ thread' = [d \in Docs |-> "idle"]
        /\ caller' = [d \in Docs |-> IF caller[d] = "waiting" THEN "dropped" ELSE caller[d]]

\* approve(): event, receipt, status; the process may die before the third.
Approve(d, done) ==
  /\ row[d] = "pending" /\ ruling' = [ruling EXCEPT ![d] = @ \cup {"approved"}]
  /\ promotes' = [promotes EXCEPT ![d] = @ + 1]
  /\ wmReceipts' = IF done >= 2 THEN [wmReceipts EXCEPT ![d] = @ + 1] ELSE wmReceipts
  /\ IF done = 3
     THEN QuarantineUpdateStatus(d, "promoted") /\ UNCHANGED <<thread, caller, toldHeld, wmCrashes>>
     ELSE Died /\ toldHeld' = [e \in Docs |-> FALSE] /\ UNCHANGED row
  /\ UNCHANGED <<doc, verdict>>

\* reject()
Reject(d) ==
  /\ row[d] = "pending" /\ QuarantineUpdateStatus(d, "rejected")
  /\ ruling' = [ruling EXCEPT ![d] = @ \cup {"refused"}]
  /\ UNCHANGED <<doc, thread, verdict, caller, promotes, wmReceipts, toldHeld, wmCrashes>>

WarehouseCrash ==
  /\ Died /\ toldHeld' = [e \in Docs |-> FALSE]
  /\ UNCHANGED <<doc, verdict, row, promotes, wmReceipts, ruling>>

\* Mutant of Recover: only the documents with a verdict of this run.
RecoverKnown ==
  /\ \E d \in Docs : row[d] = "pending" /\ ~toldHeld[d]
  /\ toldHeld' = [d \in Docs |-> toldHeld[d] \/ (row[d] = "pending" /\ thread[d] = "done")]
  /\ UNCHANGED <<doc, thread, verdict, caller, row, promotes, wmReceipts, ruling, wmCrashes>>

\* start(): the rows of quarantine_list_pending() are announced again.
Recover ==
  /\ wmCrashes > 0 /\ \E d \in QuarantinePending : thread[d] = "idle" /\ ~toldHeld[d]
  /\ toldHeld' = [d \in Docs |-> toldHeld[d] \/ d \in QuarantinePending]
  /\ UNCHANGED <<doc, thread, verdict, caller, row, promotes, wmReceipts, ruling, wmCrashes>>

WarehouseNext ==
  \/ \E d \in Docs : \/ DocArrives(d) \/ Ingest(d) \/ IngestEnds(d) \/ IngestTimeout(d)
                     \/ IngestReturns(d) \/ Reject(d)
                     \/ \E done \in 1..3 : Approve(d, done)
  \/ WarehouseCrash \/ Recover

WarehouseSpec == WarehouseInit /\ [][WarehouseNext]_wmVars
\* The pool runs every thread to its end and start() completes.
WarehouseFairness ==
  WF_wmVars(Recover) /\ \A d \in Docs : WF_wmVars(Ingest(d)) /\ WF_wmVars(IngestEnds(d))
WarehouseFair == WarehouseSpec /\ WarehouseFairness
-----------------------------------------------------------------------------
(* Properties                                                              *)

\* No gate of its rule failed, and the rule is not to refuse it; a type without
\* a schema is held even then.
Clean(k) == ~Refused(k) /\ (Internal(k) \/ k.action # "reject" \/ ~k.known)

\* warehouse_manager.py:1: whatever deadline, restart or review comes between,
\* the event and the receipt of a promotion exist only for a document that
\* passed its gates and that its rule, or a reviewer, lets through; a held or
\* refused document never reaches the handler; and it is promoted once, and
\* once more only for a crash in the middle of an approval.
OnlyCleanPasses ==
  \A d \in Docs :
    /\ promotes[d] > 0 => Clean(doc[d]) /\ (verdict[d] = "promoted" \/ "approved" \in ruling[d])
    /\ wmReceipts[d] <= promotes[d] /\ promotes[d] <= 1 + wmCrashes
    /\ caller[d] = "handled" /\ ~Plain(doc[d]) => Clean(doc[d]) /\ ActionOf(doc[d]) = "auto_promote"
    /\ "refused" \in ruling[d] => wmReceipts[d] <= wmCrashes

\* storage.py:2976 and node.py:2184: a held document that waits for review is
\* announced in every run of the node, also after a crash between row and event.
PendingIsAnnounced ==
  \A d \in Docs : row[d] = "pending" ~> (toldHeld[d] \/ row[d] # "pending")
=============================================================================
