------------------------------ MODULE BusLoop -------------------------------
(***************************************************************************)
(* The loops that consume bus events: "while running: event = await        *)
(* wait_for(sub.next(), 5 s); handle(event)" (_bus_broadcast_loop and      *)
(* _bcw_credit_loop of src/src/knarr/dht/node.py; the plugins do the same  *)
(* without the timeout), with the ScopedSubscriber of                      *)
(* src/src/knarr/dht/plugins.py in between, which reads two buses by two   *)
(* inner tasks per call of next().                                         *)
(*                                                                         *)
(* All of this is on the event loop: a step is the code between two        *)
(* awaits.  A bus is the sequence of its events and one cursor, which is   *)
(* what module EventBus shows it to be for a subscriber that is never a    *)
(* ring behind.  Which of several scheduled tasks runs first is left open. *)
(***************************************************************************)
EXTENDS DataOps, FiniteSets, SequencesExt

CONSTANTS
  Events,      \* events that match the subscription
  BusOf,       \* [Events -> Buses]: protocol or identity bus
  Buses,
  MaxTimeouts  \* bound on the timeouts of wait_for

ASSUME LoopAssumption ==
  /\ IsFiniteSet(Events) /\ IsFiniteSet(Buses) /\ BusOf \in [Events -> Buses]
  /\ MaxTimeouts \in Nat

VARIABLES
  log,       \* events of a bus, in order
  innerCursor, \* _cursor of the inner subscriber of a bus
  calls,     \* calls of next() that created inner tasks
  task,      \* state of the inner task of a call and a bus
  result,    \* what it returned: at most one event
  lpc,       \* where the loop is
  current,   \* the event it handles: at most one
  buffer,    \* _buffer of the ScopedSubscriber
  handled,   \* history: the events the loop handled, in order
  timeouts   \* timeouts so far

taskVars == <<calls, task, result>>
loopVars == <<log, innerCursor, taskVars, lpc, current, buffer, handled, timeouts>>

\* A call with inner tasks returns an event or times out.
MaxCalls == Cardinality(Events) + MaxTimeouts + 1
CallIds  == 1..MaxCalls

LoopTypeOK ==
  /\ log \in [Buses -> Seq(Events)] /\ \A b \in Buses : innerCursor[b] \in 0..Len(log[b])
  /\ calls \in 0..MaxCalls
  /\ task \in [CallIds \X Buses -> {"none", "scheduled", "waiting", "done", "cancelled"}]
  /\ result \in [CallIds \X Buses -> SUBSET Events]
  /\ lpc \in {"call", "await", "reap", "handle"}
  /\ current \subseteq Events /\ buffer \in Seq(Events) /\ handled \in Seq(Events)
  /\ timeouts \in 0..MaxTimeouts

LoopInit ==
  /\ log = [b \in Buses |-> <<>>] /\ innerCursor = [b \in Buses |-> 0]
  /\ calls = 0 /\ task = [t \in CallIds \X Buses |-> "none"]
  /\ result = [t \in CallIds \X Buses |-> {}]
  /\ lpc = "call" /\ current = {} /\ buffer = <<>> /\ handled = <<>>
  /\ timeouts = 0

\* The inner tasks of the call in progress
Mine == {calls} \X Buses
Finished == {t \in Mine : task[t] = "done"}
-----------------------------------------------------------------------------
(* Mutants: a plausible slip in the definition that is named.              *)

\* CancelInner: the tasks that did not finish are left alone (before TP-12).
CancelNone == lpc' = "reap" /\ UNCHANGED task

-----------------------------------------------------------------------------
\* bus.emit: every task that waits on the subscriber's _wake is scheduled.
Emit(e) ==
  /\ \A b \in Buses : ~Contains(log[b], e)
  /\ log' = [log EXCEPT ![BusOf[e]] = Append(@, e)]
  /\ task' = [t \in CallIds \X Buses |->
                IF task[t] = "waiting" /\ t[2] = BusOf[e] THEN "scheduled" ELSE task[t]]
  /\ UNCHANGED <<innerCursor, calls, result, lpc, current, buffer, handled, timeouts>>

\* ScopedSubscriber.next returns a buffered event at once.
NextBuffered ==
  /\ lpc = "call" /\ buffer # <<>> /\ lpc' = "handle"
  /\ current' = {Head(buffer)} /\ buffer' = Tail(buffer)
  /\ UNCHANGED <<log, innerCursor, taskVars, handled, timeouts>>

\* Otherwise it creates one task per bus and awaits the first to complete.
NextTasks ==
  /\ lpc = "call" /\ buffer = <<>> /\ lpc' = "await" /\ calls' = calls + 1
  /\ task' = [t \in CallIds \X Buses |-> IF t[1] = calls + 1 THEN "scheduled" ELSE task[t]]
  /\ UNCHANGED <<log, innerCursor, result, current, buffer, handled, timeouts>>

\* Subscriber.next, from one wait to the next: any task, of any call.
TaskRun(t) ==
  LET b == t[2] IN
  /\ task[t] = "scheduled"
  /\ IF innerCursor[b] < Len(log[b])
     THEN /\ task' = [task EXCEPT ![t] = "done"]
          /\ result' = [result EXCEPT ![t] = {log[b][innerCursor[b] + 1]}]
          /\ innerCursor' = [innerCursor EXCEPT ![b] = @ + 1]
     ELSE task' = [task EXCEPT ![t] = "waiting"] /\ UNCHANGED <<result, innerCursor>>
  /\ UNCHANGED <<log, calls, lpc, current, buffer, handled, timeouts>>

\* The tasks that have not completed are cancelled and awaited.
CancelInner ==
  /\ task' = [t \in CallIds \X Buses |->
                IF t \in Mine \ Finished THEN "cancelled" ELSE task[t]]
  /\ lpc' = "reap"

FirstCompleted ==
  /\ lpc = "await" /\ Finished # {} /\ CancelInner
  /\ UNCHANGED <<log, innerCursor, calls, result, current, buffer, handled, timeouts>>

\* The first result is returned and the others are buffered.
Collect ==
  /\ lpc = "reap" /\ lpc' = "handle"
  /\ LET events == UNION {result[t] : t \in Finished}
     IN  \E e \in events :
           current' = {e} /\ buffer' = buffer \o SetToSeq(events \ {e})
  /\ UNCHANGED <<log, innerCursor, taskVars, handled, timeouts>>

Handle ==
  /\ lpc = "handle" /\ lpc' = "call" /\ current' = {}
  /\ handled' = handled \o SetToSeq(current)
  /\ UNCHANGED <<log, innerCursor, taskVars, buffer, timeouts>>

\* wait_for cancels next().  Cancelling asyncio.wait does not cancel the
\* tasks it waits for, so those of the call stay as they are.
Timeout ==
  /\ lpc \in {"await", "reap"} /\ timeouts < MaxTimeouts
  /\ lpc' = "call" /\ timeouts' = timeouts + 1
  /\ UNCHANGED <<log, innerCursor, taskVars, current, buffer, handled>>

LoopStep == NextBuffered \/ NextTasks \/ FirstCompleted \/ Collect \/ Handle

LoopNext ==
  \/ \E e \in Events : Emit(e)
  \/ \E t \in CallIds \X Buses : TaskRun(t)
  \/ LoopStep \/ Timeout

LoopSpec == LoopInit /\ [][LoopNext]_loopVars
-----------------------------------------------------------------------------
On(b, q) == Kept(q, {e \in Events : BusOf[e] = b})
\* Events that have been read and are on their way to the handler
InHand == current \cup ToSet(buffer)
          \cup (IF lpc \in {"await", "reap"} THEN UNION {result[t] : t \in Mine} ELSE {})
Swallowed(b) ==
  {e \in ToSet(SubSeq(log[b], 1, innerCursor[b])) : e \notin InHand \cup ToSet(handled)}

(* No coroutine is leaked (plugins.py:71): what is left of a call of       *)
(* next() that has ended takes no event from the ones that follow.         *)
Ended(t) == t[1] < calls \/ (t[1] = calls /\ lpc \in {"call", "handle"})
LeftoversTakeNothing ==
  [][\A t \in CallIds \X Buses : Ended(t) => result'[t] = result[t]]_loopVars

(* Without a timeout no event that was read from a bus disappears on its   *)
(* way to the handler, whatever the order in which the two buses deliver   *)
(* (plugins.py:61, the buffer for simultaneous events).  A timeout leaves  *)
(* one task per bus behind, and each of them takes at most one event.  The *)
(* events that are handled are handled in the order of their bus and none  *)
(* twice, although tasks of abandoned calls read from the same cursor.     *)
LossBound ==
  \A b \in Buses :
    LET h == On(b, handled) IN
    /\ Cardinality(Swallowed(b)) <= timeouts
    /\ \A i, j \in 1..Len(h) : i < j =>
         \E k, l \in 1..Len(log[b]) : k < l /\ log[b][k] = h[i] /\ log[b][l] = h[j]
=============================================================================
