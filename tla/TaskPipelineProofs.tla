-------------------------- MODULE TaskPipelineProofs --------------------------
(***************************************************************************)
(* Theorems about TaskPipeline for every value of its constants.           *)
(*                                                                         *)
(* Two lemmas say what a step of a message handler and a step of a worker  *)
(* may move at all; most invariants need no more than that.  The other     *)
(* actions are taken one by one.                                           *)
(***************************************************************************)
EXTENDS TaskPipeline, FiniteSetTheorems, SequenceTheorems, TLAPS

USE RequestAssumption, LimitAssumption
USE DEF vars, handlerVars, seenVars, queueVars, workerVars, tableVars,
        ledgerVars, nodeVars, To, Exec, Answer, SetTask, SetJob

\* Requests a worker loop is busy with.
Busy == {r \in Reqs : epc[r] \in Executing \cup {"marking"}}

\* A worker loop waits, is busy with one request, or is gone.
SlotsOK == idle + Cardinality(Busy) <= TaskSlots

\* The queue holds every request at most once, and no worker has it.
QueueOK ==
  /\ \A i \in 1..Len(queue) : epc[queue[i]] = "queued"
  /\ \A i, j \in 1..Len(queue) : queue[i] = queue[j] => i = j

\* A request is executed only after its handler has let go of it.
PhaseOK == \A r \in Reqs : epc[r] # "none" => rpc[r] \in {"wait", "done", "lost"}

\* Worker stages before the price has been taken.
Unbilled == {"queued", "marking", "running", "complete", "note", "job", "mail",
             "meter", "bill"}

IInv == TypeOK /\ SlotsOK /\ QueueOK /\ PhaseOK

\* What a step of the message handler of r moves.
HandlerMoves(r) ==
  /\ rpc[r] \notin {"idle", "done", "lost"}
  /\ \E to \in HandlerPC \ {"idle"} : rpc' = [rpc EXCEPT ![r] = to]
  /\ raised' \in {raised, [raised EXCEPT ![r] = @ \cup {rpc[r]}]}
  /\ raised' # raised => rpc[r] # "wait" /\ rpc'[r] \in {"localFail", "lost"}
  /\ rpc[r] \in {"insert", "insertJob"} => raised' = raised \/ rpc'[r] = "lost"
  /\ rpc[r] = "wait" => rpc'[r] = "done"
  /\ rpc'[r] \in {"insert", "insertJob", "submit"} =>
       rpc[r] \in {"insert", "insertJob"} \/ (rpc[r] = "gate" /\ ~HardBlock(r))
  /\ rpc'[r] = "gate" => rpc[r] = "meter"
  /\ ReadEntry(r) \/ (rpc'[r] # "meter" /\ seenBal' = seenBal /\ peak' = peak)
  /\ UNCHANGED <<idle, balance, note, pushed, charged>>
  /\ \A q \in Reqs \ {r} : reply'[q] = reply[q]
  /\ reply'[r] # reply[r] => rpc'[r] = "done"
  /\ \/ epc' = epc /\ queue' = queue
     \/ /\ rpc[r] = "submit" /\ rpc'[r] \in {"wait", "done"}
        /\ epc' = [epc EXCEPT ![r] = "queued"] /\ queue' = Append(queue, r)
        /\ Len(queue) < QueueMax /\ cache' = cache
        /\ reply'[r] \in {reply[r], "accepted", "queued"}

\* What a step of the worker of r moves.
WorkerMoves(r) ==
  /\ epc[r] \in Executing \cup {"marking"}
  /\ \E to \in Executing \cup {"done", "abandoned"} :
       /\ epc' = [epc EXCEPT ![r] = to]
       /\ to \in Executing => idle' = idle
       /\ to \notin Executing => idle' \in {idle, idle + 1}
       /\ to \in Unbilled => epc[r] \in Unbilled
       /\ \/ balance' = balance
          \/ /\ epc[r] = "bill" /\ ~Deducts(r) /\ to \notin Unbilled
             /\ balance' = [balance EXCEPT ![Caller[r]] = @ - Price]
  /\ raised' \in {raised, [raised EXCEPT ![r] = @ \cup {epc[r]}]}
  /\ \/ cache' = cache /\ (epc[r] = "marking" => raised' # raised \/ "marking" \in raised[r])
     \/ cache' = cache \ {r} /\ epc[r] = "marking"
  /\ epc'[r] # "marking"
  /\ UNCHANGED <<rpc, seenBal, reply, queue, peak>>
  /\ \A q \in Reqs \ {r} :
       /\ charged'[q] = charged[q] /\ pushed'[q] = pushed[q]
       /\ (q \in note' <=> q \in note)

\* What Dequeue moves.
DequeueMoves ==
  /\ Len(queue) \in Nat \ {0} /\ queue[1] \in Reqs
  /\ queue' \in Seq(Reqs) /\ Len(queue') = Len(queue) - 1
  /\ \A i \in 1..Len(queue') : queue'[i] = queue[i + 1]
  /\ epc' = [epc EXCEPT ![queue[1]] = "marking"]
  /\ idle > 0 /\ idle' = idle - 1
  /\ UNCHANGED <<rpc, seenBal, reply, cache, balance, peak, note, pushed, charged,
                 raised>>
-----------------------------------------------------------------------------
\* Every request has a caller with a ledger row.
LEMMA CallerIsPeer == \A r \in Reqs : Caller[r] \in Peers
OBVIOUS

\* A worker that leaves queue.get() took the oldest entry.
LEMMA DequeueEffect ==
  ASSUME TypeOK, Dequeue
  PROVE  DequeueMoves
<1>1. queue \in Seq(Reqs) /\ queue # <<>>
  BY DEF Dequeue, TypeOK
<1>2. Len(queue) \in Nat \ {0}
  BY <1>1, EmptySeq
<1>3. queue[1] \in Reqs /\ Head(queue) = queue[1]
  BY <1>1, <1>2, ElementOfSeq
<1>4. /\ Tail(queue) \in Seq(Reqs) /\ Len(Tail(queue)) = Len(queue) - 1
      /\ \A i \in 1..Len(Tail(queue)) : Tail(queue)[i] = queue[i + 1]
  BY <1>1, HeadTailProperties
<1> QED BY <1>2, <1>3, <1>4 DEF Dequeue, DequeueMoves

\* _handle_task_request, step by step, moves no more than HandlerMoves.
LEMMA HandlerEffect ==
  ASSUME TypeOK, NEW r \in Reqs, HandlerStep(r)
  PROVE  HandlerMoves(r)
<1>1. CASE ReadEntry(r)
  <2>1. rpc[r] = "entry" /\ rpc' = [rpc EXCEPT ![r] = "meter"] /\ rpc'[r] = "meter"
    BY <1>1 DEF ReadEntry, TypeOK
  <2>2. UNCHANGED <<idle, balance, note, pushed, charged, epc, queue, reply>>
    BY <1>1 DEF ReadEntry
  <2>3. raised' = raised
    BY <1>1 DEF ReadEntry
  <2> QED BY <1>1, <2>1, <2>2, <2>3 DEF HandlerMoves, HandlerPC
<1>2. CASE ReadMeter(r)
  BY <1>2 DEF ReadMeter, HandlerMoves, TypeOK, HandlerPC, Replies
<1>3. CASE Block(r)
  BY <1>3 DEF Block, HandlerMoves, TypeOK, HandlerPC, Replies
<1>4. CASE PollExisting(r)
  BY <1>4 DEF PollExisting, HandlerMoves, TypeOK, HandlerPC, Replies
<1>5. CASE Admit(r)
  BY <1>5 DEF Admit, HandlerMoves, TypeOK, HandlerPC, Replies
<1>6. CASE InsertTask(r)
  <2>1. PICK to \in {"insertJob", "submit"} : rpc' = [rpc EXCEPT ![r] = to]
    BY <1>6 DEF InsertTask
  <2>2. rpc[r] = "insert" /\ rpc'[r] \in {"insertJob", "submit"}
    BY <1>6, <2>1 DEF InsertTask, TypeOK
  <2> QED BY <1>6, <2>1, <2>2 DEF InsertTask, HandlerMoves, HandlerPC
<1>7. CASE InsertJob(r)
  <2>1. /\ rpc[r] = "insertJob" /\ rpc' = [rpc EXCEPT ![r] = "submit"]
        /\ rpc'[r] = "submit"
        /\ UNCHANGED <<seenBal, reply, queue, cache, epc, idle, note, pushed,
                       balance, peak, charged, raised>>
    BY <1>7 DEF InsertJob, TypeOK
  <2> QED BY <2>1 DEF HandlerMoves, HandlerPC
<1>8. CASE SubmitAsync(r)
  BY <1>8 DEF SubmitAsync, Enqueue, HandlerMoves, TypeOK, HandlerPC, Replies
<1>9. CASE SubmitSlow(r)
  BY <1>9 DEF SubmitSlow, Enqueue, HandlerMoves, TypeOK, HandlerPC, Replies
<1>10. CASE SubmitFast(r)
  BY <1>10 DEF SubmitFast, Enqueue, HandlerMoves, TypeOK, HandlerPC, Replies
<1>11. CASE RefuseSaturated(r)
  BY <1>11 DEF RefuseSaturated, HandlerMoves, TypeOK, HandlerPC, Replies
<1>12. CASE RefuseFull(r)
  BY <1>12 DEF RefuseFull, HandlerMoves, TypeOK, HandlerPC, Replies
<1>13. CASE FailTask(r)
  BY <1>13, ZenonT(30) DEF FailTask, HandlerMoves, TypeOK, HandlerPC, Replies
<1>14. CASE FailJob(r)
  BY <1>14 DEF FailJob, HandlerMoves, TypeOK, HandlerPC, Replies
<1>15. CASE ReplyResult(r)
  BY <1>15 DEF ReplyResult, HandlerMoves, TypeOK, HandlerPC, Replies
<1>16. CASE ReplyTimeout(r)
  BY <1>16 DEF ReplyTimeout, HandlerMoves, TypeOK, HandlerPC, Replies
<1>17. CASE AdmitLocal(r)
  BY <1>17 DEF AdmitLocal, HandlerMoves, TypeOK, HandlerPC, Replies
<1>18. CASE InsertLocal(r)
  BY <1>18 DEF InsertLocal, HandlerMoves, TypeOK, HandlerPC, Replies
<1>19. CASE LocalHandlerEnds(r)
  BY <1>19 DEF LocalHandlerEnds, HandlerMoves, TypeOK, HandlerPC, Replies
<1>20. CASE FinishLocal(r)
  BY <1>20 DEF FinishLocal, HandlerMoves, TypeOK, HandlerPC, Replies
<1>21. CASE HandlerRaises(r)
  <2>1. PICK to \in {"localFail", "lost"} : rpc' = [rpc EXCEPT ![r] = to]
    BY <1>21 DEF HandlerRaises
  <2>2. /\ rpc[r] \in {"entry", "meter", "insert", "insertJob", "failBusy",
                       "failRetry", "failJob", "local", "localOk", "localFail"}
        /\ rpc[r] # "localOk" => rpc'[r] = "lost"
        /\ rpc'[r] \in {"localFail", "lost"}
    BY <1>21, <2>1 DEF HandlerRaises, TypeOK
  <2>3. raised' = [raised EXCEPT ![r] = @ \cup {rpc[r]}]
    BY <1>21 DEF HandlerRaises, Raises
  <2>4. UNCHANGED <<seenBal, reply, queue, cache, epc, idle, note, pushed, balance,
                    peak, charged>>
    BY <1>21 DEF HandlerRaises
  <2> QED BY <2>1, <2>2, <2>3, <2>4 DEF HandlerMoves, HandlerPC
<1> QED BY <1>1, <1>2, <1>3, <1>4, <1>5, <1>6, <1>7, <1>8, <1>9, <1>10,
           <1>11, <1>12, <1>13, <1>14, <1>15, <1>16, <1>17, <1>18, <1>19,
           <1>20, <1>21 DEF HandlerStep

\* _execute_queued_task, step by step, moves no more than WorkerMoves.
LEMMA WorkerEffect ==
  ASSUME TypeOK, NEW r \in Reqs, WorkerStep(r)
  PROVE  WorkerMoves(r)
<1>1. CASE MarkRunning(r)
  BY <1>1 DEF MarkRunning, WorkerMoves, Executing, Unbilled, TypeOK
<1>2. CASE HandlerReturns(r)
  BY <1>2 DEF HandlerReturns, WorkerMoves, Executing, Unbilled, TypeOK
<1>3. CASE HandlerFails(r)
  BY <1>3 DEF HandlerFails, WorkerMoves, Executing, Unbilled, TypeOK
<1>4. CASE WorkerDies(r)
  BY <1>4 DEF WorkerDies, WorkerMoves, Executing, Unbilled, TypeOK
<1>5. CASE CompleteTask(r)
  BY <1>5 DEF CompleteTask, WorkerMoves, Executing, Unbilled, TypeOK
<1>6. CASE IssueNote(r)
  BY <1>6 DEF IssueNote, AfterNote, StoreNote, WorkerMoves, Executing, Unbilled, TypeOK
<1>7. CASE CompleteJob(r)
  BY <1>7 DEF CompleteJob, WorkerMoves, Executing, Unbilled, TypeOK
<1>8. CASE PushResult(r)
  BY <1>8 DEF PushResult, AfterMail, Mails, WorkerMoves, Executing, Unbilled, TypeOK
<1>9. CASE MeterTask(r)
  BY <1>9 DEF MeterTask, WorkerMoves, Executing, Unbilled, TypeOK
<1>10. CASE Bill(r)
  <2>1. /\ epc[r] = "bill" /\ ~Deducts(r) /\ epc' = [epc EXCEPT ![r] = "finishOk"]
        /\ epc'[r] = "finishOk" /\ UNCHANGED <<rpc, seenBal, reply, queue, peak, idle,
                                               cache, raised, pushed, note>>
    BY <1>10 DEF Bill, TypeOK
  <2>2. balance' = balance \/ balance' = [balance EXCEPT ![Caller[r]] = @ - Price]
    BY <1>10 DEF Bill, Billed
  <2>3. \A q \in Reqs \ {r} : charged'[q] = charged[q]
    BY <1>10 DEF Bill, Billed, TypeOK
  <2> QED BY <2>1, <2>2, <2>3 DEF WorkerMoves, Executing, Unbilled
<1>12. CASE DeductFails(r)
  BY <1>12 DEF DeductFails, WorkerMoves, Executing, Unbilled, TypeOK
<1>13. CASE FailRun(r)
  BY <1>13 DEF FailRun, WorkerMoves, Executing, Unbilled, TypeOK
<1>14. CASE FailRunJob(r)
  BY <1>14 DEF FailRunJob, WorkerMoves, Executing, Unbilled, TypeOK
<1>15. CASE PushFailure(r)
  BY <1>15 DEF PushFailure, Mails, WorkerMoves, Executing, Unbilled, TypeOK
<1>16. CASE Finish(r)
  BY <1>16 DEF Finish, WorkerMoves, Executing, Unbilled, TypeOK
<1>17. CASE RunRaises(r)
  BY <1>17 DEF RunRaises, Raises, WorkerMoves, Executing, Unbilled, TypeOK
<1>18. CASE NoteRaises(r)
  BY <1>18 DEF NoteRaises, Raises, AfterNote, StoreNote, WorkerMoves, Executing,
     Unbilled, TypeOK
<1>19. CASE MailRaises(r)
  BY <1>19 DEF MailRaises, Raises, AfterMail, Mails, WorkerMoves, Executing,
     Unbilled, TypeOK
<1>20. CASE BillingRaises(r)
  BY <1>20 DEF BillingRaises, Raises, Billed, WorkerMoves, Executing, Unbilled, TypeOK
<1>21. CASE LoopRaises(r)
  BY <1>21 DEF LoopRaises, Raises, WorkerMoves, Executing, Unbilled, TypeOK
<1> QED BY <1>1, <1>2, <1>3, <1>4, <1>5, <1>6, <1>7, <1>8, <1>9, <1>10,
           <1>12, <1>13, <1>14, <1>15, <1>16, <1>17, <1>18, <1>19, <1>20,
           <1>21 DEF WorkerStep
-----------------------------------------------------------------------------
(* Types.                                                                  *)

\* What raised is recorded by the stage it was in.
LEMMA RaisesTyped ==
  ASSUME TypeOK, NEW r \in Reqs, NEW stage \in Stages, Raises(r, stage)
  PROVE  raised' \in [Reqs -> SUBSET Stages]
BY DEF Raises, TypeOK

JobStates == {"none", "queued", "running", "completed", "failed", "expired"}
TaskStates == {"none", "accepted", "completed", "failed", "expired"}

\* A step of a message handler keeps the types.
LEMMA HandlerTyped ==
  ASSUME TypeOK, NEW r \in Reqs, HandlerStep(r)
  PROVE  TypeOK'
<1>1. CASE ReadEntry(r)
  <2>1. IsFiniteSet(Window(Caller[r]) \cup {r})
    BY FS_Subset DEF Window
  <2>2. Cardinality(Window(Caller[r]) \cup {r}) \in Nat
    BY <2>1, FS_CardinalityType
  <2> QED BY <1>1, <2>2, CallerIsPeer DEF ReadEntry, TypeOK, HandlerPC
<1>2. CASE ReadMeter(r)
  BY <1>2 DEF ReadMeter, TypeOK, HandlerPC, ExecPC, Executing, Replies
<1>3. CASE Block(r)
  BY <1>3 DEF Block, TypeOK, HandlerPC, ExecPC, Executing, Replies
<1>4. CASE PollExisting(r)
  BY <1>4 DEF PollExisting, TypeOK, HandlerPC, ExecPC, Executing, Replies
<1>5. CASE Admit(r)
  BY <1>5 DEF Admit, TypeOK, HandlerPC, ExecPC, Executing, Replies
<1>6. CASE InsertTask(r)
  BY <1>6 DEF InsertTask, TypeOK, HandlerPC, ExecPC, Executing, Replies
<1>7. CASE InsertJob(r)
  <2>1. job' \in [Reqs -> {"none", "queued", "running", "completed", "failed", "expired"}]
    BY <1>7 DEF InsertJob, QueueJob, TypeOK
  <2> QED BY <1>7, <2>1 DEF InsertJob, TypeOK, HandlerPC
<1>8. CASE SubmitAsync(r)
  BY <1>8, SMTT(30) DEF SubmitAsync, Enqueue, TypeOK, HandlerPC, ExecPC, Executing, Replies
<1>9. CASE SubmitSlow(r)
  <2>1. \E a \in {"queued", "accepted"} : reply' = [reply EXCEPT ![r] = a]
    BY <1>9 DEF SubmitSlow
  <2> QED BY <1>9, <2>1 DEF SubmitSlow, Enqueue, TypeOK, HandlerPC, ExecPC, Replies
<1>10. CASE SubmitFast(r)
  BY <1>10, SMTT(30) DEF SubmitFast, Enqueue, TypeOK, HandlerPC, ExecPC, Executing, Replies
<1>11. CASE RefuseSaturated(r)
  BY <1>11 DEF RefuseSaturated, TypeOK, HandlerPC, ExecPC, Executing, Replies
<1>12. CASE RefuseFull(r)
  BY <1>12 DEF RefuseFull, TypeOK, HandlerPC, ExecPC, Executing, Replies
<1>13. CASE FailTask(r)
  BY <1>13, ZenonT(30) DEF FailTask, TypeOK, HandlerPC, ExecPC, Executing, Replies
<1>14. CASE FailJob(r)
  BY <1>14 DEF FailJob, TypeOK, HandlerPC, ExecPC, Executing, Replies
<1>15. CASE ReplyResult(r)
  BY <1>15 DEF ReplyResult, TypeOK, HandlerPC, ExecPC, Executing, Replies
<1>16. CASE ReplyTimeout(r)
  BY <1>16 DEF ReplyTimeout, TypeOK, HandlerPC, ExecPC, Executing, Replies
<1>17. CASE AdmitLocal(r)
  BY <1>17 DEF AdmitLocal, TypeOK, HandlerPC, ExecPC, Executing, Replies
<1>18. CASE InsertLocal(r)
  <2>1. skillActive' \in Nat
    BY <1>18 DEF InsertLocal, TypeOK
  <2> QED BY <1>18, <2>1 DEF InsertLocal, TypeOK, HandlerPC
<1>19. CASE LocalHandlerEnds(r)
  BY <1>19 DEF LocalHandlerEnds, TypeOK, HandlerPC, ExecPC, Executing, Replies
<1>20. CASE FinishLocal(r)
  <2>1. skillActive' \in Nat
    BY <1>20 DEF FinishLocal, GiveBack, TypeOK
  <2>2. PICK ending \in {"completed", "failed"} : task' = [task EXCEPT ![r] = ending]
    BY <1>20 DEF FinishLocal
  <2>3. PICK answer \in {"ok", "failed"} : reply' = [reply EXCEPT ![r] = answer]
    BY <1>20 DEF FinishLocal
  <2> QED BY <1>20, <2>1, <2>2, <2>3 DEF FinishLocal, TypeOK, HandlerPC, Replies
<1>21. CASE HandlerRaises(r)
  <2>1. raised' \in [Reqs -> SUBSET Stages]
    <3>1. rpc[r] \in Stages
      BY DEF TypeOK, Stages
    <3> QED BY <1>21, <3>1, RaisesTyped DEF HandlerRaises
  <2>2. skillActive' \in Nat
    BY <1>21 DEF HandlerRaises, GiveBack, TypeOK
  <2>3. PICK to \in {"localFail", "lost"} : rpc' = [rpc EXCEPT ![r] = to]
    BY <1>21 DEF HandlerRaises
  <2>4. task' \in [Reqs -> TaskStates] /\ job' \in [Reqs -> JobStates]
    <3>1. task \in [Reqs -> TaskStates] /\ job \in [Reqs -> JobStates]
      BY DEF TypeOK, TaskStates, JobStates
    <3>2. CASE HandlerWrites(r)
      BY <3>1, <3>2 DEF HandlerWrites, QueueJob, TaskStates, JobStates
    <3> QED BY <1>21, <3>1, <3>2 DEF HandlerRaises
  <2>5. rpc' \in [Reqs -> HandlerPC]
    BY <2>3 DEF TypeOK, HandlerPC
  <2> QED BY <1>21, <2>1, <2>2, <2>4, <2>5
         DEF HandlerRaises, TypeOK, TaskStates, JobStates
<1> QED BY <1>1, <1>2, <1>3, <1>4, <1>5, <1>6, <1>7, <1>8, <1>9, <1>10,
           <1>11, <1>12, <1>13, <1>14, <1>15, <1>16, <1>17, <1>18, <1>19,
           <1>20, <1>21 DEF HandlerStep

\* What a billing step writes has the types of the ledger.
LEMMA BilledTyped ==
  ASSUME TypeOK, NEW r \in Reqs, Billed(r)
  PROVE  balance' \in [Peers -> Int] /\ charged' \in [Reqs -> Nat] /\ held' \in [Peers -> Nat]
<1>1. /\ Caller[r] \in Peers /\ charged \in [Reqs -> Nat]
      /\ balance \in [Peers -> Int] /\ held \in [Peers -> Nat]
  BY CallerIsPeer DEF TypeOK
<1>2. CASE r \notin Held
  BY <1>1, <1>2 DEF Billed
<1>3. CASE r \in Held
  BY <1>1, <1>3 DEF Billed
<1> QED BY <1>2, <1>3

\* What a storage call of a worker writes to its rows has their types.
LEMMA WritesTyped ==
  ASSUME TypeOK, NEW r \in Reqs, WorkerWrites(r) \/ UNCHANGED <<task, job>>
  PROVE  task' \in [Reqs -> TaskStates] /\ job' \in [Reqs -> JobStates]
<1>1. task \in [Reqs -> TaskStates] /\ job \in [Reqs -> JobStates]
  BY DEF TypeOK, TaskStates, JobStates
<1>2. CASE WorkerWrites(r)
  BY <1>1, <1>2 DEF WorkerWrites, TaskStates, JobStates
<1> QED BY <1>1, <1>2

\* A step of a worker keeps the types; Finish needs SlotsOK for idle.
LEMMA WorkerTyped ==
  ASSUME TypeOK, SlotsOK, NEW r \in Reqs, WorkerStep(r)
  PROVE  TypeOK'
<1>1. CASE MarkRunning(r)
  BY <1>1 DEF MarkRunning, TypeOK, HandlerPC, ExecPC, Executing, Replies
<1>2. CASE HandlerReturns(r)
  BY <1>2 DEF HandlerReturns, TypeOK, HandlerPC, ExecPC, Executing, Replies
<1>3. CASE HandlerFails(r)
  BY <1>3 DEF HandlerFails, TypeOK, HandlerPC, ExecPC, Executing, Replies
<1>4. CASE WorkerDies(r)
  BY <1>4 DEF WorkerDies, TypeOK, HandlerPC, ExecPC, Executing, Replies
<1>5. CASE CompleteTask(r)
  BY <1>5 DEF CompleteTask, TypeOK, HandlerPC, ExecPC, Executing, Replies
<1>6. CASE IssueNote(r)
  BY <1>6 DEF IssueNote, AfterNote, StoreNote, TypeOK, HandlerPC, ExecPC, Executing, Replies
<1>7. CASE CompleteJob(r)
  BY <1>7 DEF CompleteJob, TypeOK, HandlerPC, ExecPC, Executing, Replies
<1>8. CASE PushResult(r)
  <2>1. \E to \in ExecPC : epc' = [epc EXCEPT ![r] = to]
    BY <1>8 DEF PushResult, AfterMail, ExecPC, Executing
  <2>2. epc' \in [Reqs -> ExecPC]
    BY <2>1 DEF TypeOK
  <2>3. pushed' \in [Reqs -> SUBSET {"ok", "failed"}]
    <3>1. pushed' = pushed \/ pushed' = [pushed EXCEPT ![r] = @ \cup {"ok"}]
      BY <1>8 DEF PushResult, Mails
    <3>2. pushed \in [Reqs -> SUBSET {"ok", "failed"}]
      BY DEF TypeOK
    <3> QED BY <3>1, <3>2
  <2> QED BY <1>8, <2>2, <2>3 DEF PushResult, TypeOK
<1>9. CASE MeterTask(r)
  <2>1. meter' \in [Peers -> Nat]
    BY <1>9, CallerIsPeer DEF MeterTask, Metered, TypeOK
  <2> QED BY <1>9, <2>1 DEF MeterTask, TypeOK, ExecPC, Executing
<1>10. CASE Bill(r)
  <2>1. balance' \in [Peers -> Int] /\ charged' \in [Reqs -> Nat] /\ held' \in [Peers -> Nat]
    BY <1>10, BilledTyped DEF Bill
  <2> QED BY <1>10, <2>1 DEF Bill, TypeOK, ExecPC, Executing
<1>12. CASE DeductFails(r)
  BY <1>12 DEF DeductFails, TypeOK, HandlerPC, ExecPC, Executing, Replies
<1>13. CASE FailRun(r)
  BY <1>13 DEF FailRun, TypeOK, HandlerPC, ExecPC, Executing, Replies
<1>14. CASE FailRunJob(r)
  BY <1>14 DEF FailRunJob, TypeOK, HandlerPC, ExecPC, Executing, Replies
<1>15. CASE PushFailure(r)
  BY <1>15 DEF PushFailure, Mails, TypeOK, HandlerPC, ExecPC, Executing, Replies
<1>16. CASE Finish(r)
  <2>1. future' \in [Reqs -> {"none", "pending", "ok", "failed", "cancelled"}]
    BY <1>16 DEF Finish, TypeOK
  <2>2. pushed' \in [Reqs -> SUBSET {"ok", "failed"}]
    BY <1>16 DEF Finish, TypeOK
  <2>3. Busy \in SUBSET Reqs /\ r \in Busy
    BY <1>16 DEF Busy, Executing, Finish
  <2>4. Cardinality(Busy) \in Nat /\ Cardinality(Busy) # 0
    BY <2>3, FS_Subset, FS_CardinalityType, FS_EmptySet
  <2>5. idle' \in 0..TaskSlots
    BY <1>16, <2>4 DEF Finish, TypeOK, SlotsOK
  <2> QED BY <1>16, <2>1, <2>2, <2>5 DEF Finish, TypeOK, ExecPC
<1>17. CASE RunRaises(r) \/ LoopRaises(r)
  <2>1. /\ Raises(r, epc[r]) /\ epc[r] \in Stages
        /\ \E to \in ExecPC : epc' = [epc EXCEPT ![r] = to]
    BY <1>17 DEF RunRaises, LoopRaises, TypeOK, Stages, ExecPC, Executing
  <2>2. raised' \in [Reqs -> SUBSET Stages]
    BY <2>1, RaisesTyped
  <2>3. task' \in [Reqs -> TaskStates] /\ job' \in [Reqs -> JobStates]
    BY <1>17, WritesTyped DEF RunRaises, LoopRaises
  <2>4. epc' \in [Reqs -> ExecPC]
    BY <2>1 DEF TypeOK
  <2> QED BY <1>17, <2>2, <2>3, <2>4 DEF RunRaises, LoopRaises, TypeOK, TaskStates, JobStates
<1>18. CASE NoteRaises(r) \/ MailRaises(r)
  <2>1. /\ Raises(r, epc[r]) /\ epc[r] \in Stages
        /\ \E to \in ExecPC : epc' = [epc EXCEPT ![r] = to]
    BY <1>18 DEF NoteRaises, MailRaises, AfterNote, AfterMail, TypeOK, Stages,
       ExecPC, Executing
  <2>2. raised' \in [Reqs -> SUBSET Stages]
    BY <2>1, RaisesTyped
  <2>3. note' \subseteq Reqs /\ pushed' \in [Reqs -> SUBSET {"ok", "failed"}]
    <3>1. note \subseteq Reqs /\ pushed \in [Reqs -> SUBSET {"ok", "failed"}]
      BY DEF TypeOK
    <3>2. note' \in {note, note \cup {r}}
      BY <1>18 DEF NoteRaises, MailRaises, StoreNote
    <3>3. \/ pushed' = pushed
          \/ \E o \in {"ok", "failed"} : pushed' = [pushed EXCEPT ![r] = @ \cup {o}]
      BY <1>18 DEF NoteRaises, MailRaises, Mails
    <3> QED BY <3>1, <3>2, <3>3
  <2>4. epc' \in [Reqs -> ExecPC]
    BY <2>1 DEF TypeOK
  <2>5. UNCHANGED <<handlerVars, queueVars, idle, task, job, ledgerVars, reap, mode, crashes>>
    BY <1>18 DEF NoteRaises, MailRaises
  <2> QED BY <2>2, <2>3, <2>4, <2>5 DEF TypeOK
<1>19. CASE BillingRaises(r)
  <2>1. /\ Raises(r, epc[r]) /\ epc[r] \in Stages
        /\ epc' = [epc EXCEPT ![r] = "error"]
    BY <1>19 DEF BillingRaises, TypeOK, Stages
  <2>2. raised' \in [Reqs -> SUBSET Stages]
    BY <2>1, RaisesTyped
  <2>3. meter' \in [Peers -> Nat]
    <3>1. Metered(r) \/ meter' = meter
      BY <1>19 DEF BillingRaises
    <3>2. meter \in [Peers -> Nat] /\ Caller[r] \in Peers
      BY CallerIsPeer DEF TypeOK
    <3> QED BY <3>1, <3>2 DEF Metered
  <2>4. balance' \in [Peers -> Int] /\ charged' \in [Reqs -> Nat] /\ held' \in [Peers -> Nat]
    <3>1. Billed(r) \/ UNCHANGED <<balance, charged, held>>
      BY <1>19 DEF BillingRaises
    <3> QED BY <3>1, BilledTyped DEF TypeOK
  <2>5. epc' \in [Reqs -> ExecPC]
    BY <2>1 DEF TypeOK, ExecPC, Executing
  <2>6. UNCHANGED <<handlerVars, queueVars, idle, tableVars, peak, reap, mode, crashes>>
    BY <1>19 DEF BillingRaises
  <2> QED BY <2>2, <2>3, <2>4, <2>5, <2>6 DEF TypeOK
<1> QED BY <1>1, <1>2, <1>3, <1>4, <1>5, <1>6, <1>7, <1>8, <1>9, <1>10,
           <1>12, <1>13, <1>14, <1>15, <1>16, <1>17, <1>18, <1>19 DEF WorkerStep

\* Every step keeps the types.
LEMMA StepTyped ==
  ASSUME IInv, [Next]_vars
  PROVE  TypeOK'
<1> USE DEF IInv
<1>1. ASSUME NEW r \in Reqs, Receive(r) PROVE TypeOK'
  BY <1>1 DEF Receive, Arrives, TypeOK, HandlerPC
<1>2. ASSUME NEW r \in Reqs, Reject(r) PROVE TypeOK'
  BY <1>2 DEF Reject, Arrives, TypeOK, HandlerPC, Replies
<1>3. ASSUME NEW r \in Reqs, HandlerStep(r) PROVE TypeOK'
  BY <1>3, HandlerTyped
<1>4. ASSUME NEW r \in Reqs, WorkerStep(r) PROVE TypeOK'
  BY <1>4, WorkerTyped
<1>5. ASSUME NEW r \in Reqs, WatchdogReap(r) PROVE TypeOK'
  BY <1>5 DEF WatchdogReap, TypeOK
<1>6. ASSUME NEW r \in Reqs, ExpireJob(r) PROVE TypeOK'
  BY <1>6 DEF ExpireJob, TypeOK
<1>7. ASSUME NEW p \in Peers, Credit(p) PROVE TypeOK'
  <2>1. balance' \in [Peers -> Int]
    BY <1>7 DEF Credit, TypeOK
  <2> QED BY <1>7, <2>1 DEF Credit, TypeOK
<1>8. CASE Dequeue
  <2> DequeueMoves
    BY <1>8, DequeueEffect
  <2>1. queue' \in Seq(Reqs) /\ Len(queue') <= QueueMax /\ idle' \in 0..TaskSlots
    BY DEF DequeueMoves, TypeOK
  <2>2. epc' \in [Reqs -> ExecPC]
    BY DEF DequeueMoves, TypeOK, ExecPC
  <2> QED BY <1>8, <2>1, <2>2 DEF Dequeue, TypeOK
<1>9. CASE WorkerExits
  BY <1>9 DEF WorkerExits, TypeOK
<1>10. CASE WatchdogRead
  BY <1>10 DEF WatchdogRead, TypeOK
<1>11. CASE Crash
  <2>1. rpc' \in [Reqs -> HandlerPC] /\ epc' \in [Reqs -> ExecPC]
    BY <1>11 DEF Crash, TypeOK, HandlerPC, ExecPC
  <2>2. job' \in [Reqs -> {"none", "queued", "running", "completed", "failed", "expired"}]
    BY <1>11 DEF Crash, TypeOK
  <2>3. /\ queue' \in Seq(Reqs) /\ Len(queue') <= QueueMax
        /\ future' \in [Reqs -> {"none", "pending", "ok", "failed", "cancelled"}]
        /\ idle' \in 0..TaskSlots /\ cache' \subseteq Reqs /\ reap' \subseteq Reqs
        /\ skillActive' \in Nat /\ crashes' \in Nat
    BY <1>11 DEF Crash, TypeOK
  <2> QED BY <1>11, <2>1, <2>2, <2>3 DEF Crash, TypeOK
<1>12. CASE Stop
  BY <1>12 DEF Stop, TypeOK
<1>13. CASE WriterExits
  BY <1>13 DEF WriterExits, TypeOK
<1>14. CASE Exit
  BY <1>14 DEF Exit, TypeOK
<1>15. CASE UNCHANGED vars
  BY <1>15 DEF TypeOK
<1> QED BY <1>1, <1>2, <1>3, <1>4, <1>5, <1>6, <1>7, <1>8, <1>9, <1>10, <1>11,
           <1>12, <1>13, <1>14, <1>15 DEF Next
-----------------------------------------------------------------------------
(* The queue, the phases of a request and the worker slots.                *)

\* Every step keeps the queue free of duplicates and of started requests.
LEMMA StepQueue ==
  ASSUME IInv, [Next]_vars
  PROVE  QueueOK'
<1> USE DEF IInv
<1>1. ASSUME NEW r \in Reqs, HandlerStep(r) PROVE QueueOK'
  <2>1. CASE epc' = epc /\ queue' = queue
    BY <2>1 DEF QueueOK
  <2>2. CASE /\ rpc[r] = "submit"
             /\ epc' = [epc EXCEPT ![r] = "queued"] /\ queue' = Append(queue, r)
    <3>1. epc[r] = "none"
      BY <2>2 DEF PhaseOK
    <3>2. \A i \in 1..Len(queue) : queue[i] \in Reqs /\ queue[i] # r
      BY <3>1, ElementOfSeq DEF QueueOK, TypeOK
    <3>3. /\ Len(queue') = Len(queue) + 1 /\ queue'[Len(queue) + 1] = r
          /\ \A i \in 1..Len(queue) : queue'[i] = queue[i]
      BY <2>2, AppendProperties DEF TypeOK
    <3>4. Len(queue) \in Nat
      BY LenProperties DEF TypeOK
    <3>5. \A i \in 1..Len(queue') : i \in 1..Len(queue) \/ i = Len(queue) + 1
      BY <3>3, <3>4
    <3>6. \A i \in 1..Len(queue') : epc'[queue'[i]] = "queued"
      BY <2>2, <3>2, <3>3, <3>5 DEF QueueOK, TypeOK
    <3>7. \A i, j \in 1..Len(queue') : queue'[i] = queue'[j] => i = j
      BY <3>2, <3>3, <3>5 DEF QueueOK
    <3> QED BY <3>6, <3>7 DEF QueueOK
  <2> QED BY <1>1, <2>1, <2>2, HandlerEffect DEF HandlerMoves
<1>2. ASSUME NEW r \in Reqs, WorkerStep(r) PROVE QueueOK'
  <2>1. PICK to : epc' = [epc EXCEPT ![r] = to] /\ queue' = queue /\ epc[r] # "queued"
    BY <1>2, WorkerEffect DEF WorkerMoves, Executing
  <2>2. \A i \in 1..Len(queue) : queue[i] \in Reqs
    BY ElementOfSeq DEF TypeOK
  <2> QED BY <2>1, <2>2 DEF QueueOK, TypeOK
<1>3. CASE Dequeue
  <2> DequeueMoves
    BY <1>3, DequeueEffect
  <2>1. \A i \in 1..Len(queue') : i + 1 \in 1..Len(queue) /\ i + 1 # 1 /\ 1 \in 1..Len(queue)
    BY DEF DequeueMoves
  <2>2. \A i \in 1..Len(queue') : queue[i + 1] # queue[1] /\ epc[queue[i + 1]] = "queued"
    BY <2>1 DEF QueueOK
  <2>3. \A i \in 1..Len(queue') : queue[i + 1] \in Reqs
    BY <2>1, ElementOfSeq DEF TypeOK
  <2>4. \A q \in Reqs : q # queue[1] => epc'[q] = epc[q]
    BY DEF DequeueMoves, TypeOK
  <2>5. \A i, j \in 1..Len(queue') : queue[i + 1] = queue[j + 1] => i + 1 = j + 1
    BY <2>1 DEF QueueOK
  <2>6. \A i, j \in 1..Len(queue') : queue[i + 1] = queue[j + 1] => i = j
    BY <2>5 DEF DequeueMoves
  <2> QED BY <2>2, <2>3, <2>4, <2>6 DEF QueueOK, DequeueMoves
<1>4. CASE Crash
  BY <1>4 DEF Crash, QueueOK
<1>5. CASE UNCHANGED <<epc, queue>>
  BY <1>5 DEF QueueOK
<1> QED BY <1>1, <1>2, <1>3, <1>4, <1>5
    DEF Next, Receive, Reject, WatchdogReap, ExpireJob, Credit, WorkerExits,
        WatchdogRead, Stop, WriterExits, Exit

\* Every step keeps handler and worker of a request apart.
LEMMA StepPhase ==
  ASSUME IInv, [Next]_vars
  PROVE  PhaseOK'
<1> USE DEF IInv
<1>1. ASSUME NEW r \in Reqs, Receive(r) \/ Reject(r) PROVE PhaseOK'
  BY <1>1 DEF Receive, Reject, Arrives, PhaseOK, TypeOK
<1>2. ASSUME NEW r \in Reqs, HandlerStep(r) PROVE PhaseOK'
  <2>1. HandlerMoves(r)
    BY <1>2, HandlerEffect
  <2>2. epc[r] # "none" => rpc'[r] = "done"
    BY <2>1 DEF HandlerMoves, PhaseOK
  <2> QED BY <2>1, <2>2, SMTT(30) DEF HandlerMoves, PhaseOK, TypeOK
<1>3. ASSUME NEW r \in Reqs, WorkerStep(r) PROVE PhaseOK'
  <2>1. WorkerMoves(r)
    BY <1>3, WorkerEffect
  <2> QED BY <2>1 DEF WorkerMoves, PhaseOK, TypeOK, Executing
<1>4. CASE Dequeue
  <2> DequeueMoves
    BY <1>4, DequeueEffect
  <2>1. epc[queue[1]] = "queued"
    BY DEF DequeueMoves, QueueOK
  <2> QED BY <2>1 DEF DequeueMoves, PhaseOK, TypeOK
<1>5. CASE Crash
  BY <1>5 DEF Crash, PhaseOK, TypeOK
<1>6. CASE UNCHANGED <<rpc, epc>>
  BY <1>6 DEF PhaseOK
<1> QED BY <1>1, <1>2, <1>3, <1>4, <1>5, <1>6
    DEF Next, WatchdogReap, ExpireJob, Credit, WorkerExits, WatchdogRead, Stop,
        WriterExits, Exit

\* No step makes up a worker loop.
LEMMA StepSlots ==
  ASSUME IInv, [Next]_vars
  PROVE  SlotsOK'
<1> USE DEF IInv
<1>1. IsFiniteSet(Busy) /\ Cardinality(Busy) \in Nat
  BY FS_Subset, FS_CardinalityType DEF Busy
<1>2. ASSUME NEW r \in Reqs, HandlerStep(r) PROVE SlotsOK'
  <2>1. HandlerMoves(r)
    BY <1>2, HandlerEffect
  <2>2. Busy' = Busy
    <3>1. CASE epc' = epc
      BY <3>1 DEF Busy
    <3>2. CASE rpc[r] = "submit" /\ epc' = [epc EXCEPT ![r] = "queued"]
      <4>1. epc[r] = "none"
        BY <3>2 DEF PhaseOK
      <4> QED BY <3>2, <4>1 DEF Busy, TypeOK, Executing
    <3> QED BY <2>1, <3>1, <3>2 DEF HandlerMoves
  <2> QED BY <2>1, <2>2 DEF SlotsOK, HandlerMoves
<1>3. ASSUME NEW r \in Reqs, WorkerStep(r) PROVE SlotsOK'
  <2>1. PICK to \in Executing \cup {"done", "abandoned"} :
          /\ epc' = [epc EXCEPT ![r] = to]
          /\ to \in Executing => idle' = idle
          /\ to \notin Executing => idle' \in {idle, idle + 1}
    BY <1>3, WorkerEffect DEF WorkerMoves
  <2>2. r \in Busy
    BY <1>3, WorkerEffect DEF WorkerMoves, Busy
  <2>3. CASE to \in Executing
    <3>1. Busy' = Busy
      BY <2>1, <2>2, <2>3 DEF Busy, TypeOK
    <3> QED BY <2>1, <2>3, <3>1 DEF SlotsOK
  <2>4. CASE to \notin Executing
    <3>1. Busy' = Busy \ {r}
      BY <2>1, <2>2, <2>4 DEF Busy, TypeOK
    <3>2. Cardinality(Busy') = Cardinality(Busy) - 1
      BY <1>1, <2>2, <3>1, FS_RemoveElement
    <3> QED BY <1>1, <2>1, <2>4, <3>2, SMTT(30) DEF SlotsOK, TypeOK
  <2> QED BY <2>3, <2>4
<1>4. CASE Dequeue
  <2> DequeueMoves
    BY <1>4, DequeueEffect
  <2>1. epc[queue[1]] = "queued"
    BY DEF DequeueMoves, QueueOK
  <2>2. queue[1] \notin Busy
    BY <2>1 DEF Busy, Executing
  <2>3. Busy' = Busy \cup {queue[1]}
    <3>1. queue[1] \in Reqs
      BY DEF DequeueMoves
    <3>2. \A q \in Reqs : epc'[q] = IF q = queue[1] THEN "marking" ELSE epc[q]
      BY DEF DequeueMoves, TypeOK
    <3> QED BY <3>1, <3>2 DEF Busy
  <2>4. Cardinality(Busy') = Cardinality(Busy) + 1
    BY <1>1, <2>2, <2>3, FS_AddElement
  <2> QED BY <1>1, <2>4 DEF DequeueMoves, SlotsOK, TypeOK
<1>5. CASE WorkerExits
  <2>1. Busy' = Busy
    BY <1>5 DEF WorkerExits, Busy
  <2> QED BY <1>1, <1>5, <2>1 DEF WorkerExits, SlotsOK, TypeOK
<1>6. CASE Crash
  <2>1. Busy' = {}
    BY <1>6 DEF Crash, Busy, Executing, TypeOK
  <2> QED BY <1>6, <2>1, FS_EmptySet DEF Crash, SlotsOK
<1>7. CASE UNCHANGED <<epc, idle>>
  BY <1>7 DEF SlotsOK, Busy
<1> QED BY <1>2, <1>3, <1>4, <1>5, <1>6, <1>7
    DEF Next, Receive, Reject, WatchdogReap, ExpireJob, Credit, WatchdogRead, Stop,
        WriterExits, Exit

\* The initial state satisfies the invariant.
LEMMA InitIInv == Init => IInv
<1> SUFFICES ASSUME Init PROVE IInv
  OBVIOUS
<1>1. TypeOK
  BY DEF Init, TypeOK, HandlerPC, ExecPC, Replies
<1>2. Busy = {}
  BY DEF Init, Busy, Executing
<1>3. SlotsOK
  BY <1>2, FS_EmptySet DEF Init, SlotsOK
<1>4. QueueOK /\ PhaseOK
  BY DEF Init, QueueOK, PhaseOK
<1> QED BY <1>1, <1>3, <1>4 DEF IInv

(* The invariant that the theorems below rest on holds in every state.     *)
THEOREM Invariance == Spec => []IInv
<1>1. IInv /\ [Next]_vars => IInv'
  BY StepTyped, StepQueue, StepPhase, StepSlots DEF IInv
<1> QED BY InitIInv, <1>1, PTL DEF Spec

(* Every variable keeps its type; above all the queue never exceeds        *)
(* max_queue_depth and no worker loop comes out of nothing: those that     *)
(* wait and those that work are at most task_slots.                        *)
THEOREM TypeCorrect == Spec => []TypeOK
<1>1. IInv => TypeOK
  BY DEF IInv
<1> QED BY Invariance, <1>1, PTL
-----------------------------------------------------------------------------
(* The admission cache.                                                    *)

\* Every step keeps the cache in line with the admitted requests.
LEMMA StepPriceCached ==
  ASSUME IInv, PriceCached, [Next]_vars
  PROVE  PriceCached'
<1> USE DEF IInv
<1>1. ASSUME NEW r \in Reqs, Receive(r) \/ Reject(r) PROVE PriceCached'
  BY <1>1 DEF Receive, Reject, Arrives, PriceCached, Priced, TypeOK
<1>2. ASSUME NEW r \in Reqs, HandlerStep(r) PROVE PriceCached'
  <2>1. CASE ReadEntry(r)
    BY <2>1 DEF ReadEntry, PriceCached, Priced, PhaseOK, TypeOK
  <2>2. CASE ReadMeter(r)
    BY <2>2 DEF ReadMeter, PriceCached, Priced, PhaseOK, TypeOK
  <2>3. CASE Block(r)
    BY <2>3 DEF Block, PriceCached, Priced, PhaseOK, TypeOK
  <2>4. CASE PollExisting(r)
    BY <2>4 DEF PollExisting, PriceCached, Priced, PhaseOK, TypeOK
  <2>5. CASE Admit(r)
    BY <2>5 DEF Admit, PriceCached, Priced, PhaseOK, TypeOK
  <2>6. CASE InsertTask(r)
    BY <2>6 DEF InsertTask, PriceCached, Priced, PhaseOK, TypeOK
  <2>7. CASE InsertJob(r)
    BY <2>7 DEF InsertJob, PriceCached, Priced, PhaseOK, TypeOK
  <2>8. CASE SubmitAsync(r)
    BY <2>8 DEF SubmitAsync, Enqueue, PriceCached, Priced, PhaseOK, TypeOK
  <2>9. CASE SubmitSlow(r)
    BY <2>9 DEF SubmitSlow, Enqueue, PriceCached, Priced, PhaseOK, TypeOK
  <2>10. CASE SubmitFast(r)
    BY <2>10 DEF SubmitFast, Enqueue, PriceCached, Priced, PhaseOK, TypeOK
  <2>11. CASE RefuseSaturated(r)
    BY <2>11 DEF RefuseSaturated, PriceCached, Priced, PhaseOK, TypeOK
  <2>12. CASE RefuseFull(r)
    BY <2>12 DEF RefuseFull, PriceCached, Priced, PhaseOK, TypeOK
  <2>13. CASE FailTask(r)
    <3>1. PICK to \in {"failJob", "done"} : rpc' = [rpc EXCEPT ![r] = to]
      BY <2>13 DEF FailTask
    <3>2. /\ rpc[r] \in {"failBusy", "failRetry"}
          /\ UNCHANGED <<cache, epc, raised>>
      BY <2>13 DEF FailTask
    <3> QED BY <3>1, <3>2 DEF PriceCached, Priced, TypeOK
  <2>14. CASE FailJob(r)
    BY <2>14 DEF FailJob, PriceCached, Priced, PhaseOK, TypeOK
  <2>15. CASE ReplyResult(r)
    BY <2>15 DEF ReplyResult, PriceCached, Priced, PhaseOK, TypeOK
  <2>16. CASE ReplyTimeout(r)
    BY <2>16 DEF ReplyTimeout, PriceCached, Priced, PhaseOK, TypeOK
  <2>17. CASE AdmitLocal(r)
    BY <2>17 DEF AdmitLocal, PriceCached, Priced, PhaseOK, TypeOK
  <2>18. CASE InsertLocal(r)
    BY <2>18 DEF InsertLocal, PriceCached, Priced, PhaseOK, TypeOK
  <2>19. CASE LocalHandlerEnds(r)
    BY <2>19, SMTT(30) DEF LocalHandlerEnds, PriceCached, Priced, PhaseOK, TypeOK
  <2>20. CASE FinishLocal(r)
    BY <2>20 DEF FinishLocal, PriceCached, Priced, PhaseOK, TypeOK
  <2>21. CASE HandlerRaises(r)
    <3>1. HandlerMoves(r) /\ epc[r] = "none"
      BY <1>2, <2>21, HandlerEffect DEF HandlerRaises, PhaseOK
    <3>2. /\ rpc[r] # "submit" /\ rpc'[r] \in {"localFail", "lost"} /\ epc' = epc /\ cache' = cache
          /\ raised'[r] = raised[r] \cup {rpc[r]}
          /\ \A q \in Reqs : q # r => rpc'[q] = rpc[q] /\ raised'[q] = raised[q]
      BY <2>21 DEF HandlerRaises, Raises, TypeOK
    <3> QED BY <3>1, <3>2 DEF PriceCached, Priced
  <2> QED BY <1>2, <2>1, <2>2, <2>3, <2>4, <2>5, <2>6, <2>7, <2>8, <2>9, <2>10,
             <2>11, <2>12, <2>13, <2>14, <2>15, <2>16, <2>17, <2>18, <2>19,
             <2>20, <2>21 DEF HandlerStep
<1>3. ASSUME NEW r \in Reqs, WorkerStep(r) PROVE PriceCached'
  <2>1. WorkerMoves(r)
    BY <1>3, WorkerEffect
  <2>2. rpc[r] \in {"wait", "done", "lost"}
    BY <2>1 DEF WorkerMoves, PhaseOK, Executing
  <2>3. epc'[r] \notin {"queued", "marking"} /\ \A q \in Reqs : q # r => epc'[q] = epc[q]
    BY <2>1 DEF WorkerMoves, TypeOK, Executing
  <2>4. /\ \A q \in Reqs : q # r => raised'[q] = raised[q]
        /\ raised[r] \subseteq raised'[r]
        /\ raised' # raised => epc[r] \in raised'[r]
    BY <2>1 DEF WorkerMoves, TypeOK
  <2>5. /\ rpc' = rpc /\ \A q \in Reqs : q # r => (q \in cache' <=> q \in cache)
        /\ r \in cache' => r \in cache /\ (epc[r] = "marking" => "marking" \in raised'[r])
    BY <2>1, <2>4 DEF WorkerMoves
  <2>6. epc[r] # "queued"
    BY <2>1 DEF WorkerMoves, Executing
  <2>7. r \in cache' => raised'[r] \cap {"insert", "insertJob", "marking"} # {}
    BY <2>2, <2>4, <2>5, <2>6 DEF PriceCached, Priced
  <2> QED BY <2>2, <2>3, <2>4, <2>5, <2>7 DEF PriceCached, Priced
<1>4. CASE Dequeue
  <2> DequeueMoves
    BY <1>4, DequeueEffect
  <2>1. queue[1] \in Reqs /\ epc[queue[1]] = "queued"
    BY DEF DequeueMoves, QueueOK
  <2>2. \A q \in Reqs : epc'[q] = IF q = queue[1] THEN "marking" ELSE epc[q]
    BY DEF DequeueMoves, TypeOK
  <2> QED BY <2>1, <2>2 DEF DequeueMoves, PriceCached, Priced
<1>5. CASE Crash
  BY <1>5 DEF Crash, PriceCached, Priced, TypeOK
<1>6. CASE UNCHANGED <<rpc, epc, cache, raised>>
  BY <1>6 DEF PriceCached, Priced
<1> QED BY <1>1, <1>2, <1>3, <1>4, <1>5, <1>6
    DEF Next, WatchdogReap, ExpireJob, Credit, WorkerExits, WatchdogRead, Stop,
        WriterExits, Exit

(* The admission cache holds the price of every request that was admitted  *)
(* and that no worker has taken yet, and of no other, unless a storage     *)
(* call of the request raised in between: nothing runs at a price fixed    *)
(* anew, and only such an exception leaves an entry behind.                *)
THEOREM PriceIsCached == Spec => []PriceCached
<1>1. Init => PriceCached
  BY DEF Init, PriceCached, Priced
<1> QED BY <1>1, Invariance, StepPriceCached, PTL DEF Spec
-----------------------------------------------------------------------------
(* Requests that were turned away.                                         *)

\* Storage calls whose exception leaves an entry in the admission cache.
Keeping == {"insert", "insertJob", "marking"}

\* An answer ends the handler, and before its request is queued nothing has
\* happened to it.
Untouched ==
  \A r \in Reqs :
    /\ reply[r] # "none" => rpc[r] = "done"
    /\ rpc[r] \notin {"wait", "done", "lost"} =>
         epc[r] = "none" /\ charged[r] = 0 /\ r \notin note /\ pushed[r] = {}
         /\ raised[r] \cap Keeping = {}

Refusals == {"rejected", "blocked", "existing", "busy", "retry"}
RefusedIdle ==
  \A r \in Reqs : reply[r] \in Refusals =>
    epc[r] = "none" /\ charged[r] = 0 /\ r \notin note /\ pushed[r] = {}
    /\ raised[r] \cap Keeping = {}

\* Every step keeps refused requests untouched.
LEMMA StepRefused ==
  ASSUME IInv, Untouched, RefusedIdle, [Next]_vars
  PROVE  Untouched' /\ RefusedIdle'
<1> USE DEF IInv
<1>1. ASSUME NEW r \in Reqs, Receive(r) \/ Reject(r) PROVE Untouched' /\ RefusedIdle'
  <2>1. \E to \in {"entry", "done"} : rpc' = [rpc EXCEPT ![r] = to]
    BY <1>1 DEF Receive, Reject, Arrives
  <2>2. /\ rpc[r] = "idle" /\ \A q \in Reqs : q # r => reply'[q] = reply[q]
        /\ reply'[r] # reply[r] => rpc'[r] = "done"
        /\ UNCHANGED <<epc, charged, note, pushed, raised>>
    BY <1>1 DEF Receive, Reject, Arrives, TypeOK
  <2>3. /\ reply[r] = "none" /\ epc[r] = "none" /\ charged[r] = 0 /\ r \notin note
        /\ pushed[r] = {} /\ raised[r] \cap Keeping = {}
    BY <2>2 DEF Untouched
  <2>4. \A q \in Reqs : q # r => rpc'[q] = rpc[q]
    BY <2>1 DEF TypeOK
  <2>5. Untouched'
    BY <2>2, <2>3, <2>4 DEF Untouched
  <2>6. RefusedIdle'
    BY <2>2, <2>3 DEF RefusedIdle
  <2> QED BY <2>5, <2>6
<1>2. ASSUME NEW r \in Reqs, HandlerStep(r) PROVE Untouched' /\ RefusedIdle'
  <2>1. HandlerMoves(r)
    BY <1>2, HandlerEffect
  <2>2. /\ \A q \in Reqs : q # r => rpc'[q] = rpc[q] /\ reply'[q] = reply[q]
        /\ \A q \in Reqs : q # r => epc'[q] = epc[q] /\ raised'[q] = raised[q]
        /\ UNCHANGED <<note, pushed, charged>>
    BY <2>1 DEF HandlerMoves, TypeOK
  <2>3. reply[r] = "none"
    BY <2>1 DEF HandlerMoves, Untouched
  <2>4. reply'[r] # "none" => rpc'[r] = "done"
    BY <2>1, <2>3 DEF HandlerMoves
  <2>7. rpc'[r] # "lost" /\ raised[r] \cap Keeping = {} => raised'[r] \cap Keeping = {}
    <3>1. raised' # raised => raised'[r] = raised[r] \cup {rpc[r]} /\ (rpc[r] \in Keeping => rpc'[r] = "lost")
      <4>1. rpc[r] # "marking"
        BY DEF TypeOK, HandlerPC
      <4> QED BY <2>1, <4>1 DEF HandlerMoves, Keeping, TypeOK
    <3> QED BY <3>1
  <2>5. CASE epc' = epc
    <3>1. rpc[r] = "wait" => reply'[r] \notin Refusals
      BY <1>2 DEF HandlerStep, ReadEntry, ReadMeter, Block, PollExisting, Admit,
         InsertTask, InsertJob, SubmitAsync, SubmitSlow, SubmitFast, Enqueue,
         RefuseSaturated, RefuseFull, FailTask, FailJob, ReplyResult, ReplyTimeout,
         AdmitLocal, InsertLocal, LocalHandlerEnds, FinishLocal, HandlerRaises,
         Refusals, TypeOK
    <3>2. /\ rpc'[r] \notin {"wait", "done", "lost"} => rpc[r] \notin {"wait", "done", "lost"}
          /\ reply'[r] \in Refusals => rpc[r] \notin {"wait", "done", "lost"}
      BY <2>1, <2>3, <3>1 DEF HandlerMoves, Refusals
    <3> QED BY <2>2, <2>4, <2>5, <2>7, <3>2 DEF Untouched, RefusedIdle, Refusals
  <2>6. CASE /\ rpc[r] = "submit" /\ rpc'[r] \in {"wait", "done"}
             /\ reply'[r] \in {reply[r], "accepted", "queued"}
    BY <2>2, <2>3, <2>4, <2>6, <2>7 DEF Untouched, RefusedIdle, Refusals
  <2> QED BY <2>1, <2>5, <2>6 DEF HandlerMoves
<1>3. ASSUME NEW r \in Reqs, WorkerStep(r) PROVE Untouched' /\ RefusedIdle'
  <2>1. WorkerMoves(r)
    BY <1>3, WorkerEffect
  <2>2. epc[r] # "none"
    BY <2>1 DEF WorkerMoves, Executing
  <2>3. \A q \in Reqs : q # r => epc'[q] = epc[q]
    BY <2>1 DEF WorkerMoves, TypeOK
  <2>4. /\ rpc' = rpc /\ reply' = reply
        /\ \A q \in Reqs \ {r} :
             /\ charged'[q] = charged[q] /\ pushed'[q] = pushed[q]
             /\ (q \in note' <=> q \in note) /\ raised'[q] = raised[q]
    BY <2>1 DEF WorkerMoves, TypeOK
  <2>5. reply[r] \notin Refusals /\ rpc[r] \in {"wait", "done", "lost"}
    BY <2>2 DEF RefusedIdle, PhaseOK
  <2>6. \A q \in Reqs \ {r} : /\ charged'[q] = charged[q] /\ pushed'[q] = pushed[q]
                            /\ epc'[q] = epc[q] /\ raised'[q] = raised[q]
                            /\ (q \in note' <=> q \in note)
    BY <2>3, <2>4
  <2>7. Untouched'
    BY <2>4, <2>5, <2>6 DEF Untouched
  <2>8. RefusedIdle'
    BY <2>4, <2>5, <2>6 DEF RefusedIdle
  <2> QED BY <2>7, <2>8
<1>4. CASE Dequeue
  <2> DequeueMoves
    BY <1>4, DequeueEffect
  <2>1. queue[1] \in Reqs /\ epc[queue[1]] = "queued"
    BY DEF DequeueMoves, QueueOK
  <2>2. \A q \in Reqs : q # queue[1] => epc'[q] = epc[q]
    BY DEF DequeueMoves, TypeOK
  <2> QED BY <2>1, <2>2 DEF DequeueMoves, Untouched, RefusedIdle
<1>5. CASE Crash
  BY <1>5 DEF Crash, Untouched, RefusedIdle, TypeOK
<1>6. CASE UNCHANGED <<rpc, reply, epc, charged, note, pushed, raised>>
  BY <1>6 DEF Untouched, RefusedIdle
<1> QED BY <1>1, <1>2, <1>3, <1>4, <1>5, <1>6
    DEF Next, WatchdogReap, ExpireJob, Credit, WorkerExits, WatchdogRead, Stop,
        WriterExits, Exit

(* A request that was answered rejected, blocked, existing, busy or retry  *)
(* is never queued, run, billed, noted or reported, for any number of      *)
(* requests, workers and queue places: the caller may safely go elsewhere. *)
THEOREM RefusedNeverRunsTheorem == Spec => []RefusedNeverRuns
<1>1. Init => Untouched /\ RefusedIdle
  BY DEF Init, Untouched, RefusedIdle, Keeping
<1>2. Spec => [](Untouched /\ RefusedIdle)
  BY <1>1, Invariance, StepRefused, PTL DEF Spec
<1>3. Untouched /\ RefusedIdle /\ PriceCached => RefusedNeverRuns
  BY DEF Untouched, RefusedIdle, PriceCached, Priced, RefusedNeverRuns,
     Refusals, Keeping
<1> QED BY <1>2, <1>3, PriceIsCached, PTL
-----------------------------------------------------------------------------
(* Credit.                                                                 *)

\* The balance that was read for r covers the price.
Covered(r) == seenBal[r] - Price >= HardLimit

\* Requests of p whose price may still be taken from its balance.
Committed(p) == {q \in Window(p) : Covered(q)}

\* What went through the gate to be charged was covered.
Gated ==
  \A r \in Reqs :
    rpc[r] \in {"insert", "insertJob", "submit"} \/ epc[r] \in Unbilled
      => Deducts(r) \/ Price = 0 \/ Covered(r)

(* The hard limit can be passed only by what the committed requests of the *)
(* caller, all but one of the peak, are still going to take.  This, and    *)
(* not OverdraftBound, is what a charge preserves: it lowers the balance   *)
(* by one price and the committed requests by one.                         *)
Solvent ==
  \A p \in Peers :
    balance[p] + Price * (peak[p] - 1) >= HardLimit + Price * Cardinality(Committed(p))

\* Price * _ is monotone ...
LEMMA PriceMonotone == \A a, b \in Int : a <= b => Price * a <= Price * b
OBVIOUS

\* ... takes a step of one price ...
LEMMA PriceStep == \A a \in Int : Price * (a - 1) = Price * a - Price
OBVIOUS

\* ... and stays in the integers.
LEMMA PriceInteger == \A a \in Int : Price * a \in Int /\ Price * (a - 1) \in Int
OBVIOUS

\* The row of a peer, from TypeOK.
LEMMA PeerTyped ==
  ASSUME TypeOK, NEW p \in Peers
  PROVE  balance[p] \in Int /\ peak[p] \in Int
BY DEF TypeOK

\* The committed requests of a peer can be counted.
LEMMA CommittedFinite ==
  \A p : IsFiniteSet(Committed(p)) /\ Cardinality(Committed(p)) \in Nat
BY FS_Subset, FS_CardinalityType DEF Committed, Window

\* A peer whose balance and peak do not fall and whose committed requests do
\* not grow stays solvent.
LEMMA SolventStays ==
  ASSUME TypeOK, TypeOK', Solvent, NEW p \in Peers,
         balance'[p] >= balance[p], peak'[p] >= peak[p],
         Committed(p)' \subseteq Committed(p)
  PROVE  balance'[p] + Price * (peak'[p] - 1)
           >= HardLimit + Price * Cardinality(Committed(p)')
<1> DEFINE c == Cardinality(Committed(p))
           d == Cardinality(Committed(p)')
<1>1. c \in Nat /\ d \in Nat /\ d <= c
  <2>1. IsFiniteSet(Committed(p)) /\ c \in Nat
    BY CommittedFinite
  <2>2. IsFiniteSet(Committed(p)') /\ d <= c
    BY <2>1, FS_Subset
  <2> QED BY <2>1, <2>2, FS_CardinalityType
<1>2. balance[p] + Price * (peak[p] - 1) >= HardLimit + Price * c
  BY DEF Solvent
<1> HIDE DEF c, d
<1>3. balance[p] \in Int /\ peak[p] \in Int
  BY PeerTyped
<1>4. balance'[p] \in Int /\ peak'[p] \in Int
  BY DEF TypeOK
<1>5. Price * d <= Price * c /\ Price * (peak[p] - 1) <= Price * (peak'[p] - 1)
  <2>1. peak[p] - 1 \in Int /\ peak'[p] - 1 \in Int /\ peak[p] - 1 <= peak'[p] - 1
    BY <1>3, <1>4
  <2> QED BY <1>1, <2>1, PriceMonotone
<1>6. /\ Price * d \in Int /\ Price * c \in Int
      /\ Price * (peak[p] - 1) \in Int /\ Price * (peak'[p] - 1) \in Int
      /\ balance[p] \in Int /\ balance'[p] \in Int
  BY <1>1, <1>3, <1>4, PriceInteger
<1>7. balance'[p] + Price * (peak'[p] - 1) >= HardLimit + Price * d
  BY <1>5, <1>2, <1>6
<1> QED BY <1>7 DEF d

\* The read of a balance may commit one more request, which it covers, and
\* the peak grows with it.
LEMMA ReadEntrySolvent ==
  ASSUME IInv, TypeOK', Solvent, NEW r \in Reqs, ReadEntry(r)
  PROVE  Solvent'
<1> USE DEF IInv
<1> SUFFICES ASSUME NEW p \in Peers
             PROVE  balance'[p] + Price * (peak'[p] - 1)
                      >= HardLimit + Price * Cardinality(Committed(p)')
  BY DEF Solvent
<1>1. /\ rpc[r] = "entry" /\ epc' = epc /\ balance' = balance
      /\ rpc' = [rpc EXCEPT ![r] = "meter"]
      /\ seenBal' = [seenBal EXCEPT ![r] = balance[Caller[r]]]
  BY DEF ReadEntry
<1>2. r \notin Window(p)
  BY <1>1 DEF Window, InWindow, PhaseOK
<1>3. \A q \in Reqs : q # r => (q \in Committed(p)' <=> q \in Committed(p))
  BY <1>1 DEF Committed, Window, InWindow, Covered, TypeOK
<1>4. Committed(p)' \subseteq Reqs
  BY DEF Committed, Window
<1> DEFINE n == Cardinality(Window(Caller[r]) \cup {r})
<1>5. peak'[p] >= peak[p] /\ (p = Caller[r] => peak'[p] >= n)
  <2>1. /\ p = Caller[r] => peak'[p] = IF n > peak[p] THEN n ELSE peak[p]
        /\ p # Caller[r] => peak'[p] = peak[p]
    BY DEF ReadEntry, TypeOK
  <2>2. peak[p] \in Int
    BY PeerTyped
  <2>3. n \in Int
    BY FS_Subset, FS_CardinalityType DEF Window
  <2> HIDE DEF n
  <2> QED BY <2>1, <2>2, <2>3
<1> HIDE DEF n
<1>6. CASE r \notin Committed(p)'
  <2>1. Committed(p)' \subseteq Committed(p)
    BY <1>3, <1>4, <1>6
  <2>2. balance'[p] >= balance[p]
    BY <1>1, PeerTyped
  <2> QED BY <1>5, <2>1, <2>2, SolventStays
<1>7. CASE r \in Committed(p)'
  <2>1. Caller[r] = p /\ balance[p] - Price >= HardLimit
    BY <1>1, <1>7 DEF Committed, Window, Covered, TypeOK
  <2>2. Committed(p)' \subseteq Window(p) \cup {r}
    BY <1>3, <1>4 DEF Committed
  <2> DEFINE d == Cardinality(Committed(p)')
             w == Cardinality(Window(p) \cup {r})
  <2>3. IsFiniteSet(Window(p) \cup {r})
    BY FS_Subset DEF Window
  <2>4. w \in Nat /\ d \in Nat /\ d <= w
    BY <2>2, <2>3, FS_Subset, FS_CardinalityType
  <2>5. peak'[p] >= w /\ peak'[p] \in Int
    BY <1>5, <2>1 DEF n, TypeOK
  <2> HIDE DEF d, w
  <2>6. d <= peak'[p] /\ peak'[p] \in Int /\ d \in Int
    BY <2>4, <2>5
  <2>7. Price * d <= Price * peak'[p] /\ Price * (peak'[p] - 1) = Price * peak'[p] - Price
    BY <2>6, PriceMonotone, PriceStep
  <2>8. balance'[p] + Price * (peak'[p] - 1) >= HardLimit + Price * d
    <3>1. Price * d \in Int /\ Price * peak'[p] \in Int /\ balance[p] \in Int
      BY <2>6, PriceInteger, PeerTyped
    <3> QED BY <1>1, <2>1, <2>7, <3>1
  <2> QED BY <2>8 DEF d
<1> QED BY <1>6, <1>7

\* A charge takes one price and ends one commitment.
LEMMA ChargeSolvent ==
  ASSUME IInv, TypeOK', Solvent, Gated, NEW r \in Reqs,
         epc[r] = "bill", ~Deducts(r), rpc' = rpc, seenBal' = seenBal, peak' = peak,
         NEW to \in ExecPC \ Unbilled, epc' = [epc EXCEPT ![r] = to],
         balance' = [balance EXCEPT ![Caller[r]] = @ - Price]
  PROVE  Solvent'
<1> USE DEF IInv
<1> SUFFICES ASSUME NEW p \in Peers
             PROVE  balance'[p] + Price * (peak'[p] - 1)
                      >= HardLimit + Price * Cardinality(Committed(p)')
  BY DEF Solvent
<1>1. Committed(p)' = Committed(p) \ {r}
  <2>1. ~InWindow(r)'
    <3>1. rpc'[r] \in {"wait", "done", "lost"} /\ epc'[r] \notin Unbilled
      BY DEF PhaseOK, TypeOK
    <3> QED BY <3>1 DEF InWindow, Unbilled
  <2>2. \A q \in Reqs : q # r => (InWindow(q)' <=> InWindow(q))
    BY DEF InWindow, TypeOK
  <2> QED BY <2>1, <2>2 DEF Committed, Window, Covered
<1>2. CASE p # Caller[r] \/ Price = 0
  <2>1. balance[p] \in Int /\ peak[p] \in Int
    BY PeerTyped
  <2>2. balance'[p] = balance[p] \/ (balance'[p] = balance[p] - Price /\ Price = 0)
    BY <1>2 DEF TypeOK
  <2>3. balance'[p] >= balance[p] /\ peak'[p] >= peak[p]
    BY <2>1, <2>2
  <2> QED BY <1>1, <2>3, SolventStays
<1>3. CASE p = Caller[r] /\ Price # 0
  <2>1. r \in Committed(p)
    BY <1>3 DEF Committed, Window, InWindow, Gated, Unbilled
  <2> DEFINE c == Cardinality(Committed(p))
             d == Cardinality(Committed(p)')
  <2>2. c \in Nat /\ d = c - 1
    BY <1>1, <2>1, CommittedFinite, FS_RemoveElement
  <2>3. balance[p] + Price * (peak[p] - 1) >= HardLimit + Price * c
    BY DEF Solvent
  <2> HIDE DEF c, d
  <2>4. Price * d = Price * c - Price
    BY <2>2, PriceStep
  <2>5. balance'[p] = balance[p] - Price /\ peak'[p] = peak[p]
    BY <1>3 DEF TypeOK
  <2>6. /\ Price * c \in Int /\ balance[p] \in Int
        /\ Price * (peak[p] - 1) \in Int
    <3>1. c \in Int /\ balance[p] \in Int /\ peak[p] \in Int
      BY <2>2, PeerTyped
    <3> QED BY <3>1, PriceInteger
  <2>7. balance'[p] + Price * (peak'[p] - 1) >= HardLimit + Price * d
    BY <2>3, <2>4, <2>5, <2>6
  <2> QED BY <2>7 DEF d
<1> QED BY <1>2, <1>3

\* A step that moves no request into the window keeps every peer solvent as
\* long as no balance falls.
LEMMA WindowSolvent ==
  ASSUME TypeOK, TypeOK', Solvent, seenBal' = seenBal, peak' = peak,
         \A p \in Peers : balance'[p] >= balance[p],
         \A q \in Reqs : InWindow(q)' => InWindow(q)
  PROVE  Solvent'
<1> SUFFICES ASSUME NEW p \in Peers
             PROVE  balance'[p] + Price * (peak'[p] - 1)
                      >= HardLimit + Price * Cardinality(Committed(p)')
  BY DEF Solvent
<1>1. Committed(p)' \subseteq Committed(p)
  BY DEF Committed, Window, Covered
<1>2. peak'[p] >= peak[p]
  BY DEF TypeOK
<1> QED BY <1>1, <1>2, SolventStays

\* Every step keeps the requests behind the gate covered.
LEMMA StepGated ==
  ASSUME ~TitForTat, IInv, Gated, [Next]_vars
  PROVE  Gated'
<1> USE DEF IInv
<1>1. ASSUME NEW r \in Reqs, Receive(r) \/ Reject(r) PROVE Gated'
  <2>1. \E to \in {"entry", "done"} : rpc' = [rpc EXCEPT ![r] = to]
    BY <1>1 DEF Receive, Reject, Arrives
  <2>2. epc' = epc /\ seenBal' = seenBal
    BY <1>1 DEF Receive, Reject, Arrives
  <2> QED BY <2>1, <2>2 DEF Gated, Covered, TypeOK
<1>2. ASSUME NEW r \in Reqs, HandlerStep(r) PROVE Gated'
  <2>1. HandlerMoves(r)
    BY <1>2, HandlerEffect
  <2>2. \A q \in Reqs : q # r => seenBal'[q] = seenBal[q] /\ rpc'[q] = rpc[q] /\ epc'[q] = epc[q]
    <3>1. \A q \in Reqs : q # r => seenBal'[q] = seenBal[q]
      BY <2>1 DEF HandlerMoves, ReadEntry, TypeOK
    <3> QED BY <2>1, <3>1 DEF HandlerMoves, TypeOK
  <2>3. CASE ReadEntry(r)
    <3>1. rpc'[r] = "meter" /\ epc'[r] = "none"
      BY <2>3 DEF ReadEntry, PhaseOK, TypeOK
    <3> QED BY <2>2, <3>1 DEF Gated, Covered, Unbilled
  <2>4. CASE seenBal' = seenBal
    <3>1. CASE rpc'[r] \in {"insert", "insertJob", "submit"}
      <4>1. rpc[r] = "gate" /\ ~HardBlock(r) => Deducts(r) \/ Price = 0 \/ Covered(r)
        BY DEF HardBlock, Affordable, Covered
      <4>2. Deducts(r) \/ Price = 0 \/ Covered(r)
        BY <2>1, <3>1, <4>1 DEF HandlerMoves, Gated
      <4> QED BY <2>2, <2>4, <4>2 DEF Gated, Covered
    <3>2. CASE rpc'[r] \notin {"insert", "insertJob", "submit"} /\ epc'[r] \in Unbilled
      <4>1. rpc[r] = "submit" \/ epc[r] \in Unbilled
        BY <2>1, <3>2 DEF HandlerMoves
      <4> QED BY <2>2, <2>4, <4>1 DEF Gated, Covered
    <3>3. CASE rpc'[r] \notin {"insert", "insertJob", "submit"} /\ epc'[r] \notin Unbilled
      BY <2>2, <2>4, <3>3 DEF Gated, Covered
    <3> QED BY <3>1, <3>2, <3>3
  <2> QED BY <2>1, <2>3, <2>4 DEF HandlerMoves
<1>3. ASSUME NEW r \in Reqs, WorkerStep(r) PROVE Gated'
  <2>1. WorkerMoves(r)
    BY <1>3, WorkerEffect
  <2>2. rpc' = rpc /\ seenBal' = seenBal
    BY <2>1 DEF WorkerMoves
  <2>3. \A q \in Reqs : epc'[q] \in Unbilled => epc[q] \in Unbilled
    BY <2>1 DEF WorkerMoves, TypeOK
  <2> QED BY <2>2, <2>3 DEF Gated, Covered
<1>4. CASE Dequeue
  <2> DequeueMoves
    BY <1>4, DequeueEffect
  <2>1. epc[queue[1]] \in Unbilled
    BY DEF DequeueMoves, QueueOK, Unbilled
  <2>2. \A q \in Reqs : epc'[q] \in Unbilled => epc[q] \in Unbilled
    BY <2>1 DEF DequeueMoves, TypeOK
  <2> QED BY <2>2 DEF DequeueMoves, Gated, Covered
<1>5. CASE Crash
  <2>1. /\ seenBal' = seenBal
        /\ \A q \in Reqs : epc'[q] \notin Unbilled
                        /\ rpc'[q] \notin {"insert", "insertJob", "submit"}
    BY <1>5 DEF Crash, Unbilled
  <2> QED BY <2>1 DEF Gated
<1>6. CASE UNCHANGED <<rpc, epc, seenBal>>
  BY <1>6 DEF Gated, Covered
<1> QED BY <1>1, <1>2, <1>3, <1>4, <1>5, <1>6
    DEF Next, WatchdogReap, ExpireJob, Credit, WorkerExits, WatchdogRead, Stop,
        WriterExits, Exit

\* Every step keeps every peer solvent.
LEMMA StepSolvent ==
  ASSUME IInv, Gated, Solvent, [Next]_vars
  PROVE  Solvent'
<1> USE DEF IInv
<1> TypeOK'
  BY StepTyped
<1>1. ASSUME NEW r \in Reqs, Receive(r) \/ Reject(r) PROVE Solvent'
  <2>1. \E to \in {"entry", "done"} : rpc' = [rpc EXCEPT ![r] = to]
    BY <1>1 DEF Receive, Reject, Arrives
  <2>2. UNCHANGED <<epc, seenBal, balance, peak>>
    BY <1>1 DEF Receive, Reject, Arrives
  <2>3. \A q \in Reqs : InWindow(q)' => InWindow(q)
    BY <2>1, <2>2, SMTT(30) DEF InWindow, TypeOK
  <2> QED BY <2>2, <2>3, PeerTyped, WindowSolvent
<1>2. ASSUME NEW r \in Reqs, HandlerStep(r) PROVE Solvent'
  <2>1. HandlerMoves(r)
    BY <1>2, HandlerEffect
  <2>2. CASE ReadEntry(r)
    BY <2>2, ReadEntrySolvent
  <2>3. CASE rpc'[r] # "meter" /\ seenBal' = seenBal /\ peak' = peak
    <3>1. \A q \in Reqs : q # r => rpc'[q] = rpc[q] /\ epc'[q] = epc[q]
      <4>1. PICK to : rpc' = [rpc EXCEPT ![r] = to]
        BY <2>1 DEF HandlerMoves
      <4>2. epc' = epc \/ epc' = [epc EXCEPT ![r] = "queued"]
        BY <2>1 DEF HandlerMoves
      <4>3. DOMAIN rpc = Reqs /\ DOMAIN epc = Reqs
        BY DEF TypeOK
      <4> QED BY <4>1, <4>2, <4>3
    <3>2. InWindow(r)' => InWindow(r)
      BY <2>1, <2>3 DEF HandlerMoves, InWindow
    <3>3. \A q \in Reqs : InWindow(q)' => InWindow(q)
      BY <3>1, <3>2 DEF InWindow
    <3>4. balance' = balance
      BY <2>1 DEF HandlerMoves
    <3> QED BY <2>3, <3>3, <3>4, PeerTyped, WindowSolvent
  <2> QED BY <2>1, <2>2, <2>3 DEF HandlerMoves
<1>3. ASSUME NEW r \in Reqs, WorkerStep(r) PROVE Solvent'
  <2>1. WorkerMoves(r)
    BY <1>3, WorkerEffect
  <2>2. PICK to \in Executing \cup {"done", "abandoned"} :
          /\ epc' = [epc EXCEPT ![r] = to]
          /\ to \in Unbilled => epc[r] \in Unbilled
          /\ \/ balance' = balance
             \/ /\ epc[r] = "bill" /\ ~Deducts(r) /\ to \notin Unbilled
                /\ balance' = [balance EXCEPT ![Caller[r]] = @ - Price]
    BY <2>1 DEF WorkerMoves
  <2>3. UNCHANGED <<rpc, seenBal, peak>>
    BY <2>1 DEF WorkerMoves
  <2>4. CASE balance' = balance
    <3>1. \A q \in Reqs : epc'[q] \in Unbilled => epc[q] \in Unbilled
      BY <2>2 DEF TypeOK
    <3>2. \A q \in Reqs : InWindow(q)' => InWindow(q)
      BY <2>3, <3>1 DEF InWindow, Unbilled
    <3> QED BY <2>3, <2>4, <3>2, PeerTyped, WindowSolvent
  <2>5. CASE /\ epc[r] = "bill" /\ ~Deducts(r) /\ to \notin Unbilled
             /\ balance' = [balance EXCEPT ![Caller[r]] = @ - Price]
    <3>1. to \in ExecPC \ Unbilled
      BY <2>5 DEF ExecPC
    <3> QED BY <2>2, <2>3, <2>5, <3>1, ChargeSolvent
  <2> QED BY <2>2, <2>4, <2>5
<1>4. CASE Dequeue
  <2> DequeueMoves
    BY <1>4, DequeueEffect
  <2>1. epc[queue[1]] \in Unbilled
    BY DEF DequeueMoves, QueueOK, Unbilled
  <2>2. \A q \in Reqs : epc'[q] \in Unbilled => epc[q] \in Unbilled
    BY <2>1 DEF DequeueMoves, TypeOK
  <2>3. \A q \in Reqs : InWindow(q)' => InWindow(q)
    BY <2>2 DEF DequeueMoves, InWindow, Unbilled
  <2>4. UNCHANGED <<seenBal, balance, peak>>
    BY DEF DequeueMoves
  <2> QED BY <2>3, <2>4, PeerTyped, WindowSolvent
<1>5. CASE Crash
  <2>1. UNCHANGED <<seenBal, balance, peak>> /\ \A q \in Reqs : ~InWindow(q)'
    BY <1>5 DEF Crash, InWindow
  <2> QED BY <2>1, PeerTyped, WindowSolvent
<1>6. ASSUME NEW p \in Peers, Credit(p) PROVE Solvent'
  <2>1. \A q \in Peers : balance'[q] \in {balance[q], balance[q] + Price}
    BY <1>6 DEF Credit, TypeOK
  <2>2. \A q \in Peers : balance'[q] >= balance[q]
    BY <2>1, PeerTyped
  <2>3. UNCHANGED <<rpc, epc, seenBal, peak>>
    BY <1>6 DEF Credit
  <2> QED BY <2>2, <2>3, WindowSolvent DEF InWindow
<1>7. CASE UNCHANGED <<rpc, epc, seenBal, balance, peak>>
  BY <1>7, PeerTyped, WindowSolvent DEF InWindow
<1> QED BY <1>1, <1>2, <1>3, <1>4, <1>5, <1>6, <1>7
    DEF Next, WatchdogReap, ExpireJob, WorkerExits, WatchdogRead, Stop,
        WriterExits, Exit

\* Nothing is committed at the start.
LEMMA InitSolvent == Init => Solvent
<1> SUFFICES ASSUME Init, NEW p \in Peers
             PROVE  balance[p] + Price * (peak[p] - 1)
                      >= HardLimit + Price * Cardinality(Committed(p))
  BY DEF Solvent
<1>1. Committed(p) = {}
  BY DEF Init, Committed, Window, InWindow
<1>2. balance[p] = 0 /\ peak[p] = 1
  BY DEF Init
<1>3. Price * (1 - 1) = 0 /\ Price * 0 = 0
  OBVIOUS
<1> QED BY <1>1, <1>2, <1>3, FS_EmptySet

(* Unless the policy is tit for tat, the balance of a caller never falls   *)
(* below the hard limit by more than one price for every further request   *)
(* that was between the read of the balance and its charge at the same     *)
(* time: the gate may be late, but its lateness is bounded by the          *)
(* concurrency of the caller, whatever the number of requests and peers.   *)
THEOREM Overdraft == ASSUME ~TitForTat PROVE Spec => []OverdraftBound
<1>1. Init => Gated
  BY DEF Init, Gated, Unbilled
<1>2. Spec => [](Gated /\ Solvent)
  <2>1. IInv /\ Gated /\ Solvent /\ [Next]_vars => Gated' /\ Solvent'
    BY StepGated, StepSolvent
  <2> QED BY <1>1, <2>1, InitSolvent, Invariance, PTL DEF Spec
<1>3. IInv /\ Solvent => OverdraftBound
  <2> SUFFICES ASSUME IInv, Solvent, NEW p \in Peers
               PROVE  balance[p] >= HardLimit - Price * (peak[p] - 1)
    BY DEF OverdraftBound
  <2> DEFINE c == Cardinality(Committed(p))
  <2>1. c \in Nat
    BY CommittedFinite
  <2>2. balance[p] + Price * (peak[p] - 1) >= HardLimit + Price * c
    BY DEF Solvent
  <2> HIDE DEF c
  <2>3. balance[p] \in Int /\ peak[p] \in Int
    BY PeerTyped DEF IInv
  <2>4. Price * 0 <= Price * c /\ Price * 0 = 0 /\ Price * c \in Int
    BY <2>1, PriceMonotone, PriceInteger
  <2>5. Price * (peak[p] - 1) \in Int
    BY <2>3, PriceInteger
  <2> QED BY <2>2, <2>3, <2>4, <2>5
<1> QED BY <1>2, <1>3, Invariance, PTL
-----------------------------------------------------------------------------
(* What the caller of a task is told and what it pays, for every value of  *)
(* the constants but two: without prepaid callers, whose billing step      *)
(* always raises after the result was delivered, the charge has its note   *)
(* and nobody is told two outcomes, but for storage calls that raise;      *)
(* without plain handlers, whose timeout takes the worker loop down,       *)
(* nothing is left open.                                                   *)

\* Handler stages after which the request was never refused.
Before == {"idle", "entry", "meter", "gate", "insert", "insertJob", "submit"}

\* Where the handler of a request may be when a worker is done with it.
Released == {"wait", "done", "lost"}

\* Where the except clause may be, and what follows it.
Failing == {"error", "errorJob", "errorMail", "finishFail", "abandoned", "done", "none"}

\* Nobody was told, and no row says, that r failed.
Fine(r) == task[r] # "failed" /\ "failed" \notin pushed[r] /\ future[r] # "failed"

\* r has not been submitted, or is on the good way.
Fresh(r) == rpc[r] \in Before \/ epc[r] \in Unbilled \cup {"finishOk"}

\* The credit note of r was stored, or storing it raised.
Noted(r) == r \in note \/ "note" \in raised[r]

\* A charge is followed by a success, unless the billing call raised.
Paid(r) ==
  /\ charged[r] = 1 /\ Noted(r) /\ rpc[r] \in Released
  /\ \/ Fine(r) /\ epc[r] \in {"finishOk", "done", "none"}
     \/ "bill" \in raised[r] /\ epc[r] \in Failing

\* So is the result that left, unless metering or billing raised.
Excused(r) == "meter" \in raised[r] \/ "bill" \in raised[r]
OkTold(r) ==
  /\ rpc[r] \in Released
  /\ \/ epc[r] \in {"meter", "bill", "finishOk", "done", "none"}
     \/ Excused(r) /\ epc[r] \in Failing

\* What is told and paid, against where the handler and the worker are.
Out(r) ==
  /\ Fresh(r) => Fine(r)
  /\ epc[r] \in {"job", "mail"} /\ r \in Billable => Noted(r)
  /\ epc[r] \in {"meter", "bill"} => Noted(r)
  /\ charged[r] > 0 => Paid(r)
  /\ "ok" \in pushed[r] => OkTold(r)
  /\ "failed" \in pushed[r] => epc[r] \in {"finishFail", "done", "none"} /\ rpc[r] \in Released
  /\ "ok" \in pushed[r] /\ "failed" \in pushed[r] => Excused(r)

OutcomeOK == \A r \in Reqs : Out(r)

\* A step leaves what is told and paid for q alone.
Apart(q) ==
  /\ rpc'[q] = rpc[q] /\ epc'[q] = epc[q] /\ task'[q] = task[q]
  /\ pushed'[q] = pushed[q] /\ future'[q] = future[q] /\ charged'[q] = charged[q]
  /\ (q \in note' <=> q \in note) /\ raised'[q] = raised[q]

\* A request that is left alone keeps its outcome.
LEMMA ApartKeeps ==
  ASSUME NEW q \in Reqs, Out(q), Apart(q)
  PROVE  Out(q)'
BY DEF Apart, Out, Fresh, Fine, Noted, Paid, Excused, OkTold

\* What a step of the handler of r tells: a row may be set to failed only
\* once the request was refused, or by the local fast path.
HandlerTells(r) ==
  /\ \A q \in Reqs \ {r} : task'[q] = task[q] /\ future'[q] = future[q]
  /\ future'[r] = "failed" => future[r] = "failed"
  /\ task'[r] = "failed" =>
       task[r] = "failed" \/ rpc[r] \in {"failBusy", "failRetry", "localOk", "localFail"}
  /\ rpc'[r] \in Before => rpc[r] \in Before
-----------------------------------------------------------------------------
\* _handle_task_request, step by step, tells no more than HandlerTells.
LEMMA HandlerTold ==
  ASSUME TypeOK, NEW r \in Reqs, HandlerStep(r)
  PROVE  HandlerTells(r)
<1> USE DEF TypeOK, HandlerTells, Before
<1>1. CASE ReadEntry(r) \/ ReadMeter(r) \/ Block(r) \/ PollExisting(r) \/ Admit(r)
  BY <1>1 DEF ReadEntry, ReadMeter, Block, PollExisting, Admit
<1>2. CASE InsertTask(r)
  BY <1>2 DEF InsertTask
<1>7. CASE InsertJob(r)
  BY <1>7 DEF InsertJob, QueueJob
<1>3. CASE SubmitAsync(r) \/ SubmitSlow(r) \/ SubmitFast(r)
  BY <1>3 DEF SubmitAsync, SubmitSlow, SubmitFast, Enqueue
<1>4. CASE RefuseSaturated(r) \/ RefuseFull(r) \/ FailJob(r)
  BY <1>4 DEF RefuseSaturated, RefuseFull, FailJob
<1>8. CASE FailTask(r)
  BY <1>8 DEF FailTask
<1>5. CASE ReplyResult(r) \/ ReplyTimeout(r)
  BY <1>5 DEF ReplyResult, ReplyTimeout
<1>6. CASE AdmitLocal(r) \/ InsertLocal(r) \/ LocalHandlerEnds(r) \/ FinishLocal(r)
  BY <1>6 DEF AdmitLocal, InsertLocal, LocalHandlerEnds, FinishLocal
<1>9. CASE HandlerRaises(r)
  <2>1. rpc'[r] \in {"localFail", "lost"} /\ future' = future
    BY <1>9 DEF HandlerRaises
  <2>2. CASE UNCHANGED task
    BY <2>1, <2>2
  <2>3. CASE HandlerWrites(r)
    <3>1. \/ task' = task \/ task' = [task EXCEPT ![r] = "accepted"]
          \/ task' = [task EXCEPT ![r] = "completed"]
          \/ task' = [task EXCEPT ![r] = "failed"]
             /\ rpc[r] \in {"failBusy", "failRetry", "localFail"}
      BY <2>3 DEF HandlerWrites
    <3> QED BY <2>1, <3>1
  <2> QED BY <1>9, <2>2, <2>3 DEF HandlerRaises
<1> QED BY <1>1, <1>2, <1>3, <1>4, <1>5, <1>6, <1>7, <1>8, <1>9
   DEF HandlerStep

\* A step of a handler keeps what is told and paid in order.
LEMMA HandlerOut ==
  ASSUME IInv, OutcomeOK, NEW r \in Reqs, HandlerStep(r)
  PROVE  OutcomeOK'
<1> USE DEF IInv
<1>1. HandlerMoves(r) /\ HandlerTells(r)
  BY HandlerEffect, HandlerTold
<1>2. \A q \in Reqs : q # r => rpc'[q] = rpc[q] /\ epc'[q] = epc[q]
  BY <1>1 DEF HandlerMoves, TypeOK
<1>3. \A q \in Reqs : q # r => Apart(q)
  <2>1. \A q \in Reqs : q # r => raised'[q] = raised[q]
    BY <1>1 DEF HandlerMoves, TypeOK
  <2> QED BY <1>1, <1>2, <2>1 DEF HandlerMoves, HandlerTells, Apart
<1>8. raised[r] \subseteq raised'[r]
  BY <1>1 DEF HandlerMoves, TypeOK
<1>4. /\ pushed'[r] = pushed[r] /\ charged'[r] = charged[r]
      /\ (r \in note' <=> r \in note)
      /\ rpc'[r] \in Released \/ rpc[r] \notin Released
  BY <1>1 DEF HandlerMoves, Released
<1>5. CASE epc'[r] = epc[r]
  <2>1. /\ Fresh(r)' => Fresh(r)
        /\ Fine(r) /\ (Fresh(r) \/ rpc[r] \in Released) => Fine(r)'
    <3>1. Fresh(r)' => Fresh(r)
      BY <1>1, <1>5 DEF HandlerTells, Fresh
    <3>2. epc[r] \in Unbilled \cup {"finishOk"} => rpc[r] \in Released
      BY DEF PhaseOK, Unbilled, Released
    <3>3. Fresh(r) \/ rpc[r] \in Released =>
            rpc[r] \notin {"failBusy", "failRetry", "localOk", "localFail"}
      BY <3>2 DEF Fresh, Before, Released
    <3> QED BY <1>1, <1>4, <3>1, <3>3 DEF HandlerTells, Fine
  <2>2. Out(r)
    BY DEF OutcomeOK
  <2>3. /\ Noted(r) => Noted(r)'
        /\ Excused(r) => Excused(r)'
        /\ "bill" \in raised[r] => "bill" \in raised'[r]
    BY <1>4, <1>8 DEF Noted, Excused
  <2>4. Paid(r) => Paid(r)'
    BY <1>4, <1>5, <2>1, <2>3 DEF Paid
  <2>5. OkTold(r) => OkTold(r)'
    BY <1>4, <1>5, <2>3 DEF OkTold
  <2>6. Fresh(r)' => Fine(r)'
    BY <2>1, <2>2 DEF Out
  <2>7. Out(r)'
    BY <1>4, <1>5, <2>2, <2>3, <2>4, <2>5, <2>6 DEF Out
  <2> QED BY <1>3, <2>7, ApartKeeps DEF OutcomeOK
<1>6. CASE rpc[r] = "submit" /\ rpc'[r] \in {"wait", "done"} /\ epc'[r] = "queued"
  <2>1. /\ Fine(r) /\ ~(charged[r] > 0) /\ pushed[r] \cap {"ok", "failed"} = {}
    BY <1>6 DEF OutcomeOK, Out, Fresh, Before, Released, Paid, OkTold
  <2>2. Fine(r)'
    BY <1>1, <1>4, <1>6, <2>1 DEF HandlerTells, Fine
  <2>3. Out(r)'
    BY <1>4, <1>6, <2>1, <2>2 DEF Out
  <2> QED BY <1>3, <2>3, ApartKeeps DEF OutcomeOK
<1>7. epc' = epc \/ epc' = [epc EXCEPT ![r] = "queued"]
  BY <1>1 DEF HandlerMoves
<1> QED BY <1>1, <1>5, <1>6, <1>7 DEF HandlerMoves, TypeOK

\* Before the note is dealt with nothing is paid and nobody is told.
LEMMA Untold ==
  ASSUME NEW r \in Reqs, Out(r), charged[r] \in Nat, pushed[r] \subseteq {"ok", "failed"},
         epc[r] \in {"marking", "complete", "note", "job"}
  PROVE  charged[r] = 0 /\ pushed[r] = {}
<1>1. ~(charged[r] > 0)
  BY DEF Out, Paid, Failing
<1>2. "ok" \notin pushed[r] /\ "failed" \notin pushed[r]
  BY DEF Out, OkTold, Failing
<1> QED BY <1>1, <1>2

\* A mail whose enqueue raised may have been stored: what is told stays in order.
LEMMA MailRaisesOut ==
  ASSUME NEW r \in Reqs, Out(r), rpc'[r] = rpc[r], rpc[r] \in Released,
         raised[r] \subseteq raised'[r], UNCHANGED <<note, task, future, charged>>,
         \/ /\ epc[r] = "mail" /\ epc'[r] \in {"meter", "finishOk"}
            /\ epc'[r] = "meter" => r \in Billable
            /\ pushed'[r] \in {pushed[r], pushed[r] \cup {"ok"}}
         \/ /\ epc[r] = "errorMail" /\ epc'[r] = "finishFail"
            /\ pushed'[r] \in {pushed[r], pushed[r] \cup {"failed"}}
  PROVE  Out(r)'
<1>1. CASE /\ epc[r] = "mail" /\ epc'[r] \in {"meter", "finishOk"}
           /\ epc'[r] = "meter" => r \in Billable
           /\ pushed'[r] \in {pushed[r], pushed[r] \cup {"ok"}}
  <2>1. Fine(r) /\ ~(charged[r] > 0) /\ (r \in Billable => Noted(r))
    BY <1>1 DEF Out, Fresh, Unbilled, Paid, Failing
  <2>2. "failed" \notin pushed'[r] /\ Fine(r)'
    BY <1>1, <2>1 DEF Fine
  <2>3. OkTold(r)' /\ (r \in Billable => Noted(r)')
    BY <1>1, <2>1 DEF OkTold, Noted
  <2> QED BY <1>1, <2>1, <2>2, <2>3 DEF Out
<1>2. CASE /\ epc[r] = "errorMail" /\ epc'[r] = "finishFail"
           /\ pushed'[r] \in {pushed[r], pushed[r] \cup {"failed"}}
  <2>1. rpc[r] \notin Before
    BY DEF Released, Before
  <2>2. ~Fresh(r)'
    BY <1>2, <2>1 DEF Fresh, Unbilled
  <2>3. charged[r] > 0 => Paid(r)'
    BY <1>2 DEF Out, Paid, Noted, Failing
  <2>4. "ok" \in pushed'[r] => "ok" \in pushed[r]
    BY <1>2
  <2>5. "ok" \in pushed[r] => Excused(r) /\ Excused(r)'
    BY <1>2 DEF Out, OkTold, Excused
  <2>6. "ok" \in pushed[r] => OkTold(r)'
    BY <1>2, <2>5 DEF OkTold, Failing
  <2> QED BY <1>2, <2>2, <2>3, <2>4, <2>5, <2>6 DEF Out
<1> QED BY <1>1, <1>2

\* A step of a worker keeps what is told and paid in order, as long as the
\* billing step cannot raise.
LEMMA WorkerOut ==
  ASSUME Prepaid = {}, IInv, OutcomeOK, NEW r \in Reqs, WorkerStep(r)
  PROVE  OutcomeOK'
<1> USE DEF IInv
<1>1. WorkerMoves(r)
  BY WorkerEffect
<1>2. \A q \in Reqs : q # r => task'[q] = task[q] /\ future'[q] = future[q]
  <2>1. CASE RunRaises(r) \/ LoopRaises(r)
    <3>1. future' = future /\ (WorkerWrites(r) \/ UNCHANGED <<task, job>>)
      BY <2>1 DEF RunRaises, LoopRaises
    <3> QED BY <3>1 DEF WorkerWrites, TypeOK
  <2>2. CASE NoteRaises(r) \/ MailRaises(r) \/ BillingRaises(r)
    BY <2>2 DEF NoteRaises, MailRaises, BillingRaises
  <2> QED BY <2>1, <2>2 DEF WorkerStep, MarkRunning, HandlerReturns, HandlerFails,
     WorkerDies, CompleteTask, IssueNote, CompleteJob, PushResult, MeterTask, Bill,
     DeductFails, FailRun, FailRunJob, PushFailure, Finish, TypeOK
<1>3. \A q \in Reqs : q # r => Apart(q)
  <2>1. \A q \in Reqs : q # r => raised'[q] = raised[q]
    BY <1>1 DEF WorkerMoves, TypeOK
  <2> QED BY <1>1, <1>2, <2>1 DEF WorkerMoves, Apart, TypeOK
<1>4. Out(r) /\ rpc'[r] = rpc[r] /\ rpc[r] \in Released
  BY <1>1 DEF WorkerMoves, OutcomeOK, PhaseOK, Released, Executing
<1>5. charged[r] \in Nat /\ pushed[r] \subseteq {"ok", "failed"}
  BY DEF TypeOK
<1>6. Out(r)'
  <2> USE <1>4, <1>5 DEF Out, Fresh, Fine, Unbilled, Before, Released, Noted, Paid,
      Excused, OkTold, Failing, TypeOK
  <2>1. CASE MarkRunning(r) \/ HandlerReturns(r) \/ HandlerFails(r) \/ WorkerDies(r)
    BY <2>1 DEF MarkRunning, HandlerReturns, HandlerFails, WorkerDies
  <2>2. CASE CompleteTask(r)
    BY <2>2 DEF CompleteTask
  <2>3. CASE IssueNote(r)
    BY <2>3 DEF IssueNote, AfterNote, StoreNote
  <2>4. CASE CompleteJob(r)
    BY <2>4 DEF CompleteJob
  <2>5. CASE PushResult(r)
    BY <2>5 DEF PushResult, AfterMail, Mails
  <2>6. CASE MeterTask(r)
    BY <2>6 DEF MeterTask
  <2>7. CASE Bill(r)
    BY <2>7 DEF Bill, Billed
  <2>8. CASE DeductFails(r)
    BY <2>8 DEF DeductFails, Deducts
  <2>9. CASE FailRun(r) \/ FailRunJob(r)
    BY <2>9 DEF FailRun, FailRunJob
  <2>10. CASE PushFailure(r)
    BY <2>10 DEF PushFailure, Mails
  <2>11. CASE Finish(r)
    BY <2>11 DEF Finish
  <2>12. CASE RunRaises(r) \/ LoopRaises(r)
    <3>1. /\ epc[r] \in {"complete", "job", "marking", "error", "errorJob"}
          /\ epc'[r] \in {"error", "abandoned"} /\ raised[r] \subseteq raised'[r]
          /\ UNCHANGED <<note, pushed, future, charged>>
      BY <2>12 DEF RunRaises, LoopRaises, Raises
    <3>2. CASE epc[r] \in {"complete", "job", "marking"}
      <4>1. charged[r] = 0 /\ pushed[r] = {}
        BY <3>2, Untold
      <4> QED BY <3>1, <3>2, <4>1
    <3>3. CASE epc[r] \in {"error", "errorJob"}
      BY <3>1, <3>3
    <3> QED BY <3>1, <3>2, <3>3
  <2>13. CASE NoteRaises(r)
    <3>1. /\ epc[r] = "note" /\ epc'[r] \in {"error", "job", "meter"}
          /\ "note" \in raised'[r] /\ UNCHANGED <<task, pushed, future, charged>>
      BY <2>13 DEF NoteRaises, Raises, AfterNote
    <3>2. charged[r] = 0 /\ pushed[r] = {}
      BY <3>1, Untold
    <3> QED BY <3>1, <3>2
  <2>14. CASE MailRaises(r)
    <3>1. /\ raised[r] \subseteq raised'[r] /\ UNCHANGED <<note, task, future, charged>>
          /\ \/ /\ epc[r] = "mail" /\ epc'[r] \in {"meter", "finishOk"}
                /\ epc'[r] = "meter" => r \in Billable
                /\ pushed'[r] \in {pushed[r], pushed[r] \cup {"ok"}}
             \/ /\ epc[r] = "errorMail" /\ epc'[r] = "finishFail"
                /\ pushed'[r] \in {pushed[r], pushed[r] \cup {"failed"}}
      BY <2>14 DEF MailRaises, Raises, AfterMail, Mails
    <3>2. Out(r) /\ rpc'[r] = rpc[r] /\ rpc[r] \in Released
      BY <1>4
    <3> QED BY <3>1, <3>2, MailRaisesOut
  <2>15. CASE BillingRaises(r)
    <3>1. /\ epc[r] \in {"meter", "bill"} /\ epc'[r] = "error"
          /\ raised'[r] = raised[r] \cup {epc[r]} /\ UNCHANGED <<note, task, pushed, future>>
          /\ charged'[r] = charged[r] \/ (epc[r] = "bill" /\ charged'[r] = charged[r] + 1)
      BY <2>15 DEF BillingRaises, Raises, Billed
    <3>2. charged[r] = 0 /\ "failed" \notin pushed[r]
      <4>1. ~(charged[r] > 0)
        BY <3>1
      <4>2. "failed" \notin pushed[r]
        BY <3>1
      <4> QED BY <4>1, <4>2
    <3> QED BY <3>1, <3>2
  <2> QED BY <2>1, <2>2, <2>3, <2>4, <2>5, <2>6, <2>7, <2>8, <2>9, <2>10, <2>11,
             <2>12, <2>13, <2>14, <2>15 DEF WorkerStep
<1> QED BY <1>3, <1>6, ApartKeeps DEF OutcomeOK

\* Every step keeps what is told and paid in order.
LEMMA StepOutcome ==
  ASSUME Prepaid = {}, IInv, OutcomeOK, [Next]_vars
  PROVE  OutcomeOK'
<1> USE DEF IInv
<1>1. ASSUME NEW r \in Reqs, Receive(r) \/ Reject(r) PROVE OutcomeOK'
  <2>1. \A q \in Reqs : q # r => Apart(q)
    BY <1>1 DEF Receive, Reject, Arrives, Apart, TypeOK
  <2>2. Out(r)'
    BY <1>1 DEF Receive, Reject, Arrives, OutcomeOK, Out, Fresh, Fine, Before, Released, Noted,
       Paid, Excused, OkTold, TypeOK
  <2> QED BY <2>1, <2>2, ApartKeeps DEF OutcomeOK
<1>2. ASSUME NEW r \in Reqs, HandlerStep(r) PROVE OutcomeOK'
  BY <1>2, HandlerOut
<1>3. ASSUME NEW r \in Reqs, WorkerStep(r) PROVE OutcomeOK'
  BY <1>3, WorkerOut
<1>4. CASE Dequeue
  <2> DequeueMoves
    BY <1>4, DequeueEffect
  <2>1. PICK h \in Reqs : /\ h = queue[1] /\ epc[h] = "queued"
                         /\ epc' = [epc EXCEPT ![h] = "marking"]
    <3>1. queue[1] \in Reqs /\ epc' = [epc EXCEPT ![queue[1]] = "marking"]
      BY DEF DequeueMoves
    <3>2. epc[queue[1]] = "queued"
      BY DEF DequeueMoves, QueueOK
    <3> QED BY <3>1, <3>2
  <2>2. epc'[h] = "marking" /\ \A q \in Reqs : q # h => epc'[q] = epc[q]
    BY <2>1 DEF TypeOK
  <2>3. UNCHANGED <<rpc, task, future, pushed, charged, note, raised>>
    BY <1>4 DEF Dequeue
  <2>4. Out(h)'
    BY <2>1, <2>2, <2>3 DEF OutcomeOK, Out, Fresh, Fine, Unbilled, Paid, OkTold, Failing
  <2>5. \A q \in Reqs : q # h => Apart(q)
    BY <2>2, <2>3 DEF Apart
  <2> QED BY <2>4, <2>5, ApartKeeps DEF OutcomeOK
<1>5. CASE Crash
  <2> SUFFICES ASSUME NEW q \in Reqs PROVE Out(q)'
    BY DEF OutcomeOK
  <2>1. /\ rpc'[q] = IF rpc[q] \in {"idle", "done"} THEN rpc[q] ELSE "lost"
        /\ epc'[q] = IF epc[q] = "done" THEN "done" ELSE "none"
        /\ future'[q] = "none" /\ UNCHANGED <<task, pushed, charged, note, raised>>
    BY <1>5 DEF Crash
  <2>2. Out(q)
    BY DEF OutcomeOK
  <2> QED BY <2>1, <2>2 DEF Out, Fresh, Fine, Before, Released, Unbilled, Noted, Paid,
         Excused, OkTold, Failing
<1>6. ASSUME NEW r \in Reqs, WatchdogReap(r) PROVE OutcomeOK'
  <2>1. /\ \A q \in Reqs : task'[q] \in {task[q], "expired"}
        /\ UNCHANGED <<rpc, epc, future, pushed, charged, note, raised>>
    BY <1>6 DEF WatchdogReap, TypeOK
  <2> QED BY <2>1 DEF OutcomeOK, Out, Fresh, Fine, Noted, Paid, Excused, OkTold
<1>7. CASE UNCHANGED <<rpc, epc, task, future, pushed, charged, note, raised>>
  BY <1>7 DEF OutcomeOK, Out, Fresh, Fine, Noted, Paid, Excused, OkTold
<1> QED BY <1>1, <1>2, <1>3, <1>4, <1>5, <1>6, <1>7
    DEF Next, ExpireJob, Credit, WorkerExits, WatchdogRead, Stop, WriterExits, Exit

\* What is told and paid is in order in every state.
LEMMA OutcomeAlways == ASSUME Prepaid = {} PROVE Spec => []OutcomeOK
<1>1. Init => OutcomeOK
  BY DEF Init, OutcomeOK, Out, Fresh, Fine
<1>2. IInv /\ OutcomeOK /\ [Next]_vars => OutcomeOK'
  BY StepOutcome
<1> QED BY <1>1, <1>2, Invariance, PTL DEF Spec

(* Where no caller is prepaid, a task is charged at most once, only after  *)
(* its credit note was stored or storing it raised, and then neither a row *)
(* nor a mail nor the answer of the call says that it failed, unless the   *)
(* billing call raised once the price had been taken: no other failure of  *)
(* _execute_queued_task reaches its except clause after the charge.        *)
THEOREM ChargeIsBacked == ASSUME Prepaid = {} PROVE Spec => []ChargeBacked
<1>1. OutcomeOK => ChargeBacked
  BY DEF OutcomeOK, Out, Paid, Noted, Fine, ChargeBacked
<1> QED BY <1>1, OutcomeAlways, PTL

(* Where no caller is prepaid, the mail of an async job and the push of a  *)
(* slow task report two outcomes of one request only if metering or        *)
(* billing raised, whatever else of its storage calls does.                *)
THEOREM OneOutcomeTold == ASSUME Prepaid = {} PROVE Spec => []OneOutcome
<1>1. OutcomeOK => OneOutcome
  BY DEF OutcomeOK, Out, Excused, OneOutcome
<1> QED BY <1>1, OutcomeAlways, PTL
-----------------------------------------------------------------------------
(* Nothing is left open.                                                   *)

\* The job row of r belongs to a handler, a queue entry or a worker.
HasOwner(r) ==
  \/ rpc[r] \in {"submit", "failBusy", "failJob"}
  \/ epc[r] \in {"queued", "marking", "running", "complete", "note", "job",
                 "error", "errorJob"}

\* A storage call raised that would have settled the job row of r.
Stuck(r) == raised[r] \cap {"insertJob", "failBusy", "failJob"} # {} \/ LoopLost(r)

\* What a request that is not settled needs, and where it is.  Only an async
\* request has a job row: the others end without a look at it.
Tended(r) ==
  /\ epc[r] \in {"done", "abandoned"} => future[r] # "pending" \/ LoopLost(r)
  /\ job[r] # "none" \/ rpc[r] = "insertJob" => r \in Async
  /\ crashes = 0 /\ job[r] \in {"queued", "running"} => HasOwner(r) \/ Stuck(r)

AllTended == \A r \in Reqs : Tended(r)

\* A step leaves q where it is; it may delete an old row of its job.
Aside(q) ==
  /\ rpc'[q] = rpc[q] /\ epc'[q] = epc[q] /\ future'[q] = future[q]
  /\ job'[q] \in {job[q], "none"} /\ crashes' = crashes /\ raised'[q] = raised[q]

\* A request that is left alone stays tended.
LEMMA AsideKeeps ==
  ASSUME NEW q \in Reqs, Tended(q), Aside(q)
  PROVE  Tended(q)'
BY DEF Aside, Tended, HasOwner, Stuck, LoopLost

\* A step of a handler leaves every request tended.
LEMMA HandlerTends ==
  ASSUME IInv, AllTended, NEW r \in Reqs, HandlerStep(r)
  PROVE  AllTended'
<1> USE DEF IInv
<1>1. HandlerMoves(r)
  BY HandlerEffect
<1>2. /\ \A q \in Reqs : q # r => rpc'[q] = rpc[q] /\ epc'[q] = epc[q]
      /\ rpc'[r] # "done" => epc'[r] \in {"none", "queued"}
      /\ epc'[r] # epc[r] => rpc[r] = "submit" /\ epc'[r] = "queued"
  BY <1>1 DEF HandlerMoves, PhaseOK, TypeOK
<1>5. raised[r] \subseteq raised'[r] /\ \A q \in Reqs : q # r => raised'[q] = raised[q]
  BY <1>1 DEF HandlerMoves, TypeOK
<1>6. /\ Stuck(r) => Stuck(r)'
      /\ LoopLost(r) => LoopLost(r)'
  BY <1>5 DEF Stuck, LoopLost
<1>3. Tended(r)
  BY DEF AllTended
<1>4. (\A q \in Reqs : q # r => Aside(q)) /\ Tended(r)'
  <2> USE <1>3 DEF Tended, HasOwner, Aside, TypeOK
  <2>1. CASE ReadEntry(r) \/ ReadMeter(r) \/ Block(r) \/ PollExisting(r) \/ Admit(r)
    <3>1. /\ rpc[r] \in {"entry", "meter", "gate"}
          /\ rpc'[r] \in {"meter", "gate", "insert", "done"}
          /\ UNCHANGED <<epc, future, job, crashes>>
      BY <2>1 DEF ReadEntry, ReadMeter, Block, PollExisting, Admit
    <3> QED BY <1>2, <1>5, <1>6, <3>1
  <2>2. CASE InsertTask(r)
    <3>1. /\ rpc[r] = "insert" /\ rpc'[r] \in {"insertJob", "submit"}
          /\ rpc'[r] = "insertJob" => r \in Async
          /\ future' = [future EXCEPT ![r] = "pending"]
          /\ UNCHANGED <<epc, job, crashes>>
      BY <2>2 DEF InsertTask
    <3>2. epc[r] = "none"
      BY <3>1 DEF PhaseOK
    <3> QED BY <1>2, <1>5, <1>6, <3>1, <3>2
  <2>3. CASE InsertJob(r)
    <3>1. /\ rpc[r] = "insertJob" /\ rpc'[r] = "submit"
          /\ UNCHANGED <<epc, future, crashes>>
          /\ \A q \in Reqs : q # r => job'[q] \in {job[q], "none"}
      BY <2>3 DEF InsertJob, QueueJob
    <3> QED BY <1>2, <1>5, <1>6, <3>1
  <2>4. CASE SubmitAsync(r) \/ SubmitSlow(r) \/ SubmitFast(r)
    <3>1. /\ epc'[r] = "queued" /\ rpc'[r] \in {"wait", "done"}
          /\ UNCHANGED <<future, job, crashes>>
      BY <2>4 DEF SubmitAsync, SubmitSlow, SubmitFast, Enqueue
    <3> QED BY <1>2, <1>5, <1>6, <3>1
  <2>5. CASE RefuseSaturated(r) \/ RefuseFull(r)
    <3>1. /\ rpc'[r] = "failBusy" \/ (rpc'[r] = "failRetry" /\ r \notin Async)
          /\ UNCHANGED <<epc, future, job, crashes>>
      BY <2>5 DEF RefuseSaturated, Refused, RefuseFull
    <3> QED BY <1>2, <1>5, <1>6, <3>1
  <2>6. CASE FailTask(r) \/ FailJob(r)
    <3>1. /\ rpc'[r] = "failJob" \/ (rpc'[r] = "done" /\ r \notin Async)
                                \/ job'[r] \notin {"queued", "running"}
          /\ \A q \in Reqs : job'[q] # job[q] => q = r /\ job[q] # "none"
          /\ rpc'[r] # "insertJob" /\ UNCHANGED <<epc, future, crashes>>
      BY <2>6 DEF FailTask, FailJob
    <3> QED BY <1>2, <1>5, <1>6, <3>1
  <2>7. CASE ReplyResult(r) \/ ReplyTimeout(r)
    <3>1. /\ rpc[r] = "wait" /\ rpc'[r] = "done" /\ UNCHANGED <<epc, job, crashes>>
          /\ future' \in {future, [future EXCEPT ![r] = "cancelled"]}
      BY <2>7 DEF ReplyResult, ReplyTimeout
    <3> QED BY <1>2, <1>5, <1>6, <3>1
  <2>8. CASE AdmitLocal(r) \/ InsertLocal(r) \/ LocalHandlerEnds(r) \/ FinishLocal(r)
    <3>1. /\ rpc[r] \in {"gate", "local", "localRun", "localOk", "localFail"}
          /\ rpc'[r] \in {"local", "localRun", "localOk", "localFail", "done"}
          /\ UNCHANGED <<epc, future, job, crashes>>
      BY <2>8 DEF AdmitLocal, InsertLocal, LocalHandlerEnds, FinishLocal
    <3> QED BY <1>2, <1>5, <1>6, <3>1
  <2>9. CASE HandlerRaises(r)
    <3>1. /\ epc' = epc /\ UNCHANGED <<future, crashes>> /\ epc[r] = "none"
          /\ rpc[r] \in {"entry", "meter", "insert", "insertJob", "failBusy",
                         "failRetry", "failJob", "local", "localOk", "localFail"}
          /\ rpc'[r] \in {"localFail", "lost"} /\ rpc[r] \in raised'[r]
      BY <2>9 DEF HandlerRaises, Raises, PhaseOK
    <3>2. \/ job' = job
          \/ rpc[r] = "insertJob" /\ \A q \in Reqs : q # r => job'[q] \in {job[q], "none"}
          \/ rpc[r] = "failJob" /\ job' \in {job, [job EXCEPT ![r] = "failed"]}
             /\ (job' # job => job[r] # "none")
      BY <2>9 DEF HandlerRaises, HandlerWrites, QueueJob
    <3>3. rpc[r] \in {"insertJob", "failBusy", "failJob"} => Stuck(r)'
      BY <3>1 DEF Stuck
    <3> QED BY <1>2, <1>5, <1>6, <3>1, <3>2, <3>3
  <2> QED BY <2>1, <2>2, <2>3, <2>4, <2>5, <2>6, <2>7, <2>8, <2>9 DEF HandlerStep
<1> QED BY <1>4, AsideKeeps DEF AllTended

\* A step of a worker leaves every request tended, as long as no handler can
\* take the worker loop down.
LEMMA WorkerTends ==
  ASSUME PlainHandler = {}, IInv, AllTended, NEW r \in Reqs, WorkerStep(r)
  PROVE  AllTended'
<1> USE DEF IInv
<1>1. WorkerMoves(r) /\ Tended(r)
  BY WorkerEffect DEF AllTended
<1>2. /\ \A q \in Reqs : q # r => epc'[q] = epc[q] /\ future'[q] = future[q] /\ job'[q] = job[q]
      /\ job'[r] # job[r] => job[r] # "none"
      /\ rpc' = rpc /\ crashes' = crashes
  <2>1. CASE MarkRunning(r) \/ CompleteJob(r) \/ FailRunJob(r)
    <3>1. \/ job' = job
          \/ job[r] # "none" /\ \E st \in {"running", "completed", "failed"} :
                                  job' = [job EXCEPT ![r] = st]
      BY <2>1 DEF MarkRunning, CompleteJob, FailRunJob
    <3>2. /\ \A q \in Reqs : q # r => job'[q] = job[q]
          /\ job'[r] # job[r] => job[r] # "none"
      BY <3>1 DEF TypeOK
    <3>3. /\ UNCHANGED <<rpc, future, crashes>>
          /\ \E p \in Executing : epc' = [epc EXCEPT ![r] = p]
      BY <2>1 DEF MarkRunning, CompleteJob, FailRunJob, Executing
    <3> QED BY <3>2, <3>3 DEF TypeOK
  <2>2. CASE HandlerReturns(r) \/ HandlerFails(r) \/ WorkerDies(r) \/ DeductFails(r)
    BY <2>2 DEF HandlerReturns, HandlerFails, WorkerDies, DeductFails, TypeOK
  <2>3. CASE CompleteTask(r) \/ IssueNote(r) \/ PushResult(r) \/ MeterTask(r)
    BY <2>3 DEF CompleteTask, IssueNote, PushResult,
       MeterTask, TypeOK
  <2>4. CASE Bill(r) \/ FailRun(r) \/ PushFailure(r)
    BY <2>4 DEF Bill, FailRun, PushFailure, TypeOK
  <2>5. CASE Finish(r)
    BY <2>5 DEF Finish, TypeOK
  <2>6. CASE RunRaises(r) \/ LoopRaises(r)
    <3>1. /\ UNCHANGED <<rpc, future, crashes>>
          /\ \E p \in {"error", "abandoned"} : epc' = [epc EXCEPT ![r] = p]
          /\ WorkerWrites(r) \/ UNCHANGED <<task, job>>
      BY <2>6 DEF RunRaises, LoopRaises
    <3>2. \/ job' = job
          \/ job[r] # "none" /\ \E st \in {"running", "completed", "failed"} :
                                  job' = [job EXCEPT ![r] = st]
      BY <3>1 DEF WorkerWrites
    <3>3. /\ \A q \in Reqs : q # r => job'[q] = job[q]
          /\ job'[r] # job[r] => job[r] # "none"
      BY <3>2 DEF TypeOK
    <3> QED BY <3>1, <3>3 DEF TypeOK
  <2>7. CASE NoteRaises(r) \/ MailRaises(r) \/ BillingRaises(r)
    <3>1. /\ UNCHANGED <<rpc, future, job, crashes>>
          /\ \E p \in ExecPC : epc' = [epc EXCEPT ![r] = p]
      BY <2>7 DEF NoteRaises, MailRaises, BillingRaises, AfterNote, AfterMail, ExecPC, Executing
    <3> QED BY <3>1 DEF TypeOK
  <2> QED BY <2>1, <2>2, <2>3, <2>4, <2>5, <2>6, <2>7 DEF WorkerStep
<1>5. raised[r] \subseteq raised'[r] /\ \A q \in Reqs : q # r => raised'[q] = raised[q]
  BY <1>1 DEF WorkerMoves, TypeOK
<1>6. /\ Stuck(r) => Stuck(r)'
      /\ LoopLost(r) => LoopLost(r)'
      /\ LoopLost(r) => Stuck(r)
  BY <1>5 DEF Stuck, LoopLost
<1>3. \A q \in Reqs : q # r => Aside(q)
  BY <1>2, <1>5 DEF Aside
<1>4. Tended(r)'
  <2> USE <1>1, <1>2, <1>6 DEF Tended, HasOwner, TypeOK
  <2>1. CASE MarkRunning(r) \/ HandlerReturns(r) \/ HandlerFails(r) \/ WorkerDies(r)
    BY <2>1 DEF MarkRunning, HandlerReturns, HandlerFails, WorkerDies
  <2>2. CASE CompleteTask(r)
    BY <2>2 DEF CompleteTask
  <2>3. CASE IssueNote(r)
    BY <2>3 DEF IssueNote, AfterNote
  <2>4. CASE CompleteJob(r)
    BY <2>4 DEF CompleteJob
  <2>5. CASE PushResult(r) \/ MeterTask(r) \/ Bill(r)
    BY <2>5 DEF PushResult, AfterMail, MeterTask, Bill
  <2>6. CASE DeductFails(r)
    BY <2>6 DEF DeductFails
  <2>7. CASE FailRun(r)
    BY <2>7 DEF FailRun
  <2>8. CASE FailRunJob(r)
    BY <2>8 DEF FailRunJob
  <2>9. CASE PushFailure(r)
    BY <2>9 DEF PushFailure
  <2>10. CASE Finish(r)
    BY <2>10 DEF Finish
  <2>11. CASE RunRaises(r)
    <3>1. epc[r] \in {"complete", "job"} /\ epc'[r] = "error"
      BY <2>11 DEF RunRaises
    <3> QED BY <3>1
  <2>12. CASE NoteRaises(r)
    <3>1. /\ epc[r] = "note" /\ UNCHANGED <<future, job>>
          /\ epc'[r] \in {"error", "job"} \/ (epc'[r] = "meter" /\ r \notin Async)
      BY <2>12 DEF NoteRaises, AfterNote
    <3> QED BY <3>1
  <2>13. CASE MailRaises(r) \/ BillingRaises(r)
    <3>1. /\ epc[r] \in {"mail", "errorMail", "meter", "bill"} /\ UNCHANGED <<future, job>>
          /\ epc'[r] \in {"meter", "finishOk", "finishFail", "error"}
      BY <2>13 DEF MailRaises, BillingRaises, AfterMail
    <3> QED BY <3>1
  <2>14. CASE LoopRaises(r)
    <3>1. LoopLost(r)' /\ epc'[r] = "abandoned"
      BY <2>14 DEF LoopRaises, Raises, LoopLost
    <3> QED BY <3>1 DEF Stuck
  <2> QED BY <2>1, <2>2, <2>3, <2>4, <2>5, <2>6, <2>7, <2>8, <2>9, <2>10, <2>11,
             <2>12, <2>13, <2>14 DEF WorkerStep
<1> QED BY <1>3, <1>4, AsideKeeps DEF AllTended

\* Every step leaves every request tended.
LEMMA StepTended ==
  ASSUME PlainHandler = {}, IInv, AllTended, [Next]_vars
  PROVE  AllTended'
<1> USE DEF IInv
<1>1. ASSUME NEW r \in Reqs, Receive(r) \/ Reject(r) PROVE AllTended'
  <2>1. /\ \A q \in Reqs : rpc'[q] = rpc[q] \/ (q = r /\ rpc[q] = "idle"
                                               /\ rpc'[q] \in {"entry", "done"})
        /\ UNCHANGED <<epc, future, job, crashes, raised>>
    BY <1>1 DEF Receive, Reject, Arrives, TypeOK
  <2> QED BY <2>1 DEF AllTended, Tended, HasOwner, Stuck, LoopLost
<1>2. ASSUME NEW r \in Reqs, HandlerStep(r) PROVE AllTended'
  BY <1>2, HandlerTends
<1>3. ASSUME NEW r \in Reqs, WorkerStep(r) PROVE AllTended'
  BY <1>3, WorkerTends
<1>4. CASE Dequeue
  <2> DequeueMoves
    BY <1>4, DequeueEffect
  <2>1. queue[1] \in Reqs /\ epc' = [epc EXCEPT ![queue[1]] = "marking"]
    BY DEF DequeueMoves
  <2>2. epc[queue[1]] = "queued"
    BY DEF DequeueMoves, QueueOK
  <2>3. \A q \in Reqs : epc'[q] = epc[q] \/ (epc[q] = "queued" /\ epc'[q] = "marking")
    BY <2>1, <2>2 DEF TypeOK
  <2>4. UNCHANGED <<rpc, future, job, crashes, raised>>
    BY <1>4 DEF Dequeue
  <2> QED BY <2>3, <2>4 DEF AllTended, Tended, HasOwner, Stuck, LoopLost
<1>5. CASE Crash
  <2>1. /\ crashes' # 0
        /\ \A q \in Reqs : /\ epc'[q] \in {"done", "none"} /\ future'[q] = "none"
                           /\ rpc'[q] # "insertJob"
                           /\ job'[q] # "none" => job[q] # "none"
    BY <1>5 DEF Crash, TypeOK
  <2> QED BY <2>1 DEF AllTended, Tended
<1>6. ASSUME NEW r \in Reqs, ExpireJob(r) PROVE AllTended'
  <2>1. /\ \A q \in Reqs : job'[q] = job[q] \/ (job[q] # "none" /\ job'[q] = "expired")
        /\ UNCHANGED <<rpc, epc, future, crashes, raised>>
    BY <1>6 DEF ExpireJob, TypeOK
  <2> QED BY <2>1 DEF AllTended, Tended, HasOwner, Stuck, LoopLost
<1>7. CASE UNCHANGED <<rpc, epc, future, job, crashes, raised>>
  BY <1>7 DEF AllTended, Tended, HasOwner, Stuck, LoopLost
<1> QED BY <1>1, <1>2, <1>3, <1>4, <1>5, <1>6, <1>7
    DEF Next, WatchdogReap, Credit, WorkerExits, WatchdogRead, Stop, WriterExits, Exit

(* Where every handler is a coroutine, whose timeout the worker loop       *)
(* survives, a request that left its worker has its future resolved or     *)
(* given up, and as long as the node has not crashed an unfinished job row *)
(* has a handler, a queue entry or a worker that will settle it, unless    *)
(* the storage call that would have done so raised: no other row turns     *)
(* away the same input for ever.                                           *)
THEOREM NothingIsLeftOpen == ASSUME PlainHandler = {} PROVE Spec => []NothingLeftOpen
<1>1. Init => AllTended
  BY DEF Init, AllTended, Tended
<1>2. IInv /\ AllTended /\ [Next]_vars => AllTended'
  BY StepTended
<1>3. AllTended => NothingLeftOpen
  BY DEF AllTended, Tended, HasOwner, Stuck, NothingLeftOpen, FinishedIsResolved
<1> QED BY <1>1, <1>2, <1>3, Invariance, PTL DEF Spec
=============================================================================
