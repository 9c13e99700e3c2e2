---------------------------- MODULE TaskPipeline ----------------------------
(***************************************************************************)
(* The provider side of a knarr node: what happens to a TaskRequest from   *)
(* the moment it is received until it has been executed, billed and        *)
(* answered (src/src/knarr/dht/node.py).                                   *)
(*                                                                         *)
(* Everything runs on one asyncio loop, so a step of this module is the    *)
(* code between two awaits.  Three kinds of coroutine interleave: one      *)
(* message handler per request (program counter rpc), the worker loops     *)
(* that take requests off the task queue (epc, kept per request because a  *)
(* request is executed by one worker), and the stale-task watchdog.  They  *)
(* share the SQLite tables (task, job, note, balance, held, meter), the    *)
(* bounded queue and the admission cache.  Tables survive a crash, the     *)
(* rest does not.  All writes go through one writer loop, and each of them *)
(* may raise in the coroutine that awaits it, with or without having taken *)
(* effect (commit can fail and leave the row to the next commit).  Reads   *)
(* of the tables succeed, except those after the charge.                   *)
(***************************************************************************)
EXTENDS Integers, Sequences, FiniteSets

CONSTANTS
  Reqs,         \* task requests, each with a task_id and a msg_id of its own
  Peers,        \* callers, each with a ledger row
  Self,         \* the node itself as a caller: {} or one member of Peers
  Caller,       \* [Reqs -> Peers]
  Hash,         \* [Reqs -> hashes]: input_hash of skill, input and caller
  Async,        \* requests sent with mode = "async"
  Slow,         \* requests for a skill registered as slow
  PlainHandler, \* requests for a skill whose handler is not a coroutine
  Billable,     \* requests whose handler does not answer _billable = False
  Held,         \* requests for a skill configured with hold = true
  Prepaid,      \* callers with a prepaid balance that covers the price
  TaskSlots,    \* worker loops
  QueueMax,     \* max_queue_depth of the task queue
  Price,        \* final price of the skill
  HardLimit,    \* min_balance of the policy
  SkillMax,     \* max_concurrent of the skill, for local calls
  MeterMax,     \* meter_max_count, 0 for no limit
  TitForTat,    \* policy.tit_for_tat
  MaxReceived,  \* bound on the requests that are received
  MaxCredit,    \* bound on the credit a peer may receive from outside
  MaxCrashes,   \* bound on crashes
  MaxFaults,    \* bound on crashes, stops and raising storage calls together
  AllowStop,    \* whether the operator may stop the node
  DrainTimeout  \* whether the 30 s drain timeout may fire

ASSUME RequestAssumption ==
  /\ IsFiniteSet(Reqs)
  /\ Caller \in [Reqs -> Peers]
  /\ DOMAIN Hash = Reqs
  /\ Async \subseteq Reqs /\ Slow \subseteq Reqs /\ PlainHandler \subseteq Reqs
  /\ Billable \subseteq Reqs /\ Held \subseteq Reqs /\ Prepaid \subseteq Peers
  /\ Self \subseteq Peers

ASSUME LimitAssumption ==
  /\ TaskSlots \in Nat \ {0} /\ QueueMax \in Nat \ {0}
  /\ SkillMax \in Nat \ {0}
  /\ Price \in Nat /\ HardLimit \in Int /\ HardLimit <= 0
  /\ MeterMax \in Nat /\ MaxReceived \in Nat /\ MaxCredit \in Int /\ MaxCrashes \in Nat
  /\ MaxFaults \in Nat
  /\ TitForTat \in BOOLEAN /\ AllowStop \in BOOLEAN /\ DrainTimeout \in BOOLEAN

VARIABLES
  rpc,       \* where the message handler of a request is
  seenBal,   \* entry.balance as the handler of a request read it
  seenMeter, \* meter_count as the handler of a request read it
  seenActive, \* _skill_active as the handler of a local request read it
  reply,     \* what the handler of a request answered
  queue,     \* _task_queue
  cache,     \* _admission_cache: requests with a cached price
  future,    \* result_future of a request
  epc,       \* where the execution of a request is
  idle,      \* worker loops waiting in queue.get()
  skillActive, \* _skill_active of the skill
  task,      \* tasks.status
  job,       \* async_jobs.status
  note,      \* requests with a stored credit note
  pushed,    \* outcomes mailed or sent to the requester (one attempt of either)
  balance,   \* ledger.balance
  held,      \* ledger.held_balance
  meter,     \* meter.count
  charged,   \* history: how often a request was charged to its caller
  peak,      \* history: most requests of a caller in the window at once
  raised,    \* history: stages of a request whose storage call raised
  reap,      \* rows the stale-task watchdog has read and not yet updated
  mode,      \* _running, the writer loop and the process
  crashes    \* crashes so far

seenVars    == <<seenBal, seenMeter, seenActive>>
handlerVars == <<rpc, seenVars, reply, skillActive>>
queueVars   == <<queue, cache, future>>
workerVars  == <<epc, idle>>
tableVars   == <<task, job, note, pushed>>
ledgerVars  == <<balance, held, meter, charged, peak>>
nodeVars    == <<raised, reap, mode, crashes>>
vars == <<handlerVars, queueVars, workerVars, tableVars, ledgerVars, nodeVars>>

HandlerPC == {"idle", "entry", "meter", "gate", "insert", "insertJob", "submit",
              "failBusy", "failRetry", "failJob", "wait",
              "local", "localRun", "localOk", "localFail", "done", "lost"}
\* Worker stages in which _active_workers counts the request.
Executing == {"running", "complete", "note", "job", "mail", "meter", "bill",
              "error", "errorJob", "errorMail", "finishOk", "finishFail"}
ExecPC    == Executing \cup {"none", "queued", "marking", "abandoned", "done"}
Stages    == HandlerPC \cup ExecPC
Replies   == {"none", "rejected", "blocked", "existing", "accepted", "queued",
              "busy", "retry", "ok", "failed", "timeout"}

TypeOK ==
  /\ rpc \in [Reqs -> HandlerPC]
  /\ seenBal \in [Reqs -> Int] /\ seenMeter \in [Reqs -> Nat]
  /\ seenActive \in [Reqs -> Nat] /\ skillActive \in Nat
  /\ reply \in [Reqs -> Replies]
  /\ queue \in Seq(Reqs) /\ Len(queue) <= QueueMax
  /\ cache \subseteq Reqs
  /\ future \in [Reqs -> {"none", "pending", "ok", "failed", "cancelled"}]
  /\ epc \in [Reqs -> ExecPC] /\ idle \in 0..TaskSlots
  /\ task \in [Reqs -> {"none", "accepted", "completed", "failed", "expired"}]
  /\ job \in [Reqs -> {"none", "queued", "running", "completed", "failed", "expired"}]
  /\ note \subseteq Reqs /\ pushed \in [Reqs -> SUBSET {"ok", "failed"}]
  /\ balance \in [Peers -> Int] /\ held \in [Peers -> Nat]
  /\ meter \in [Peers -> Nat] /\ charged \in [Reqs -> Nat]
  /\ peak \in [Peers -> Nat]
  /\ raised \in [Reqs -> SUBSET Stages] /\ reap \subseteq Reqs
  /\ mode \in {"up", "stopping", "stopped", "exited"} /\ crashes \in Nat
-----------------------------------------------------------------------------
(* The writer loop executes batches while the node runs.  After _running   *)
(* is cleared it may still serve the batch it is collecting.               *)
Writing == mode \in {"up", "stopping"}
Alive   == mode # "exited"

\* update_async_job_status: an UPDATE, so a missing row stays missing.
SetJob(r, s) == job' = IF job[r] = "none" THEN job ELSE [job EXCEPT ![r] = s]
SetTask(r, s) == task' = [task EXCEPT ![r] = s]
\* store_credit_note: INSERT OR IGNORE.
StoreNote(r) == note' = note \cup {r}
To(r, p) == rpc' = [rpc EXCEPT ![r] = p]
Exec(r, p) == epc' = [epc EXCEPT ![r] = p]
Answer(r, a) == reply' = [reply EXCEPT ![r] = a] /\ To(r, "done")

Faults == crashes + Cardinality(UNION {{q} \X raised[q] : q \in Reqs})
                  + (IF mode = "up" THEN 0 ELSE 1)

\* The storage call of r at this stage raises, through the writer's future.
Raises(r, stage) ==
  /\ Writing /\ Faults < MaxFaults
  /\ raised' = [raised EXCEPT ![r] = @ \cup {stage}]

ActiveWorkers == Cardinality({r \in Reqs : epc[r] \in Executing})
Saturated == ActiveWorkers >= TaskSlots

\* get_async_job_by_hash
ActiveJob(h) == \E q \in Reqs : Hash[q] = h /\ job[q] \in {"queued", "running"}

\* Mutant of Affordable: the gate compares the balance before the task.
AffordableBefore(b) == TitForTat \/ Price = 0 \/ b >= HardLimit
\* check_admission: the balance test of the gate
Affordable(b) == TitForTat \/ Price = 0 \/ b - Price >= HardLimit
\* evaluate_prepaid
Deducts(r) == Caller[r] \in Prepaid /\ Price > 0

\* run_admission: evaluate_prepaid first, then check_admission
HardBlock(r) ==
  /\ ~Deducts(r)
  /\ \/ MeterMax > 0 /\ seenMeter[r] >= MeterMax
     \/ ~Affordable(seenBal[r])

(* A request is in the window from the read of its caller's balance until  *)
(* its price has been taken from that balance or it has been turned away.  *)
InWindow(r) ==
  \/ rpc[r] \in {"meter", "gate", "insert", "insertJob", "submit"}
  \/ epc[r] \in {"queued", "marking", "running", "complete", "note", "job",
                 "mail", "meter", "bill"}
Window(p) == {r \in Reqs : Caller[r] = p /\ InWindow(r)}

Init ==
  /\ rpc = [r \in Reqs |-> "idle"]
  /\ seenBal = [r \in Reqs |-> 0] /\ seenMeter = [r \in Reqs |-> 0]
  /\ seenActive = [r \in Reqs |-> 0] /\ skillActive = 0
  /\ reply = [r \in Reqs |-> "none"]
  /\ queue = <<>> /\ cache = {} /\ future = [r \in Reqs |-> "none"]
  /\ epc = [r \in Reqs |-> "none"] /\ idle = TaskSlots
  /\ task = [r \in Reqs |-> "none"] /\ job = [r \in Reqs |-> "none"]
  /\ note = {} /\ pushed = [r \in Reqs |-> {}]
  /\ balance = [p \in Peers |-> 0] /\ held = [p \in Peers |-> 0]
  /\ meter = [p \in Peers |-> 0] /\ charged = [r \in Reqs |-> 0]
  /\ peak = [p \in Peers |-> 1]
  /\ raised = [r \in Reqs |-> {}] /\ reap = {} /\ mode = "up" /\ crashes = 0
-----------------------------------------------------------------------------
(* Mutants: a plausible slip in the action that is named.  No action below *)
(* uses them; they show that the properties can tell.                      *)

\* RefuseFull: the admission cache keeps the entry.
RefuseFullLeaks(r) ==
  /\ Alive /\ rpc[r] = "submit" /\ Len(queue) = QueueMax /\ To(r, "failBusy")
  /\ UNCHANGED <<seenVars, skillActive, reply, queueVars, workerVars,
                 tableVars, ledgerVars, nodeVars>>

\* ReplyTimeout: the result is awaited without a timeout while the node runs.
ReplyTimeoutStopped(r) ==
  /\ mode = "stopped" /\ rpc[r] = "wait" /\ future[r] = "pending"
  /\ Answer(r, "timeout") /\ future' = [future EXCEPT ![r] = "cancelled"]
  /\ UNCHANGED <<seenVars, skillActive, queue, cache, workerVars, tableVars,
                 ledgerVars, nodeVars>>

\* MarkRunning: the admission result is read but not taken out.
MarkRunningPeeks(r) ==
  /\ Writing /\ epc[r] = "marking" /\ Exec(r, "running") /\ SetJob(r, "running")
  /\ UNCHANGED <<handlerVars, queueVars, idle, task, note, pushed, ledgerVars,
                 nodeVars>>

\* CompleteTask: the note of an async job is left to the mail of its result.
CompleteTaskUnnoted(r) ==
  /\ Writing /\ epc[r] = "complete" /\ SetTask(r, "completed")
  /\ Exec(r, IF r \in Async THEN "job"
             ELSE IF r \in Billable THEN "note" ELSE "finishOk")
  /\ UNCHANGED <<handlerVars, queueVars, idle, job, note, pushed, ledgerVars,
                 nodeVars>>

\* MailRaises: enqueue stored the row and raised, and nothing catches that.
MailRaisesUncaught(r) ==
  /\ epc[r] \in {"mail", "errorMail"} /\ Raises(r, epc[r])
  /\ Exec(r, IF epc[r] = "mail" THEN "error" ELSE "finishFail")
  /\ pushed' = [pushed EXCEPT ![r] = IF epc[r] = "mail" THEN @ \cup {"ok"} ELSE @]
  /\ UNCHANGED <<handlerVars, queueVars, idle, task, job, note, ledgerVars,
                 reap, mode, crashes>>

\* PushFailure: no task_failed mail is sent.
PushFailureSilent(r) ==
  /\ Writing /\ epc[r] = "errorMail" /\ Exec(r, "finishFail")
  /\ UNCHANGED <<handlerVars, queueVars, idle, tableVars, ledgerVars, nodeVars>>

\* Finish: the future is left alone.
FinishUnresolved(r) ==
  /\ Alive /\ epc[r] \in {"finishOk", "finishFail"} /\ Exec(r, "done")
  /\ idle' = idle + 1
  /\ UNCHANGED <<handlerVars, queueVars, tableVars, ledgerVars, nodeVars>>

\* ExpireJob: only running rows, as in cleanup_zombie_tasks.
ExpireJobRunning(r) ==
  /\ mode = "up" /\ job[r] = "running"
  /\ rpc[r] \in {"done", "lost"} /\ epc[r] \in {"none", "done", "abandoned"}
  /\ SetJob(r, "expired")
  /\ UNCHANGED <<handlerVars, queueVars, workerVars, task, note, pushed,
                 ledgerVars, nodeVars>>
-----------------------------------------------------------------------------
(* The message handler: _handle_task_request.                              *)

Arrives(r) ==
  /\ Alive /\ rpc[r] = "idle"
  /\ Cardinality({q \in Reqs : rpc[q] # "idle"}) < MaxReceived

\* A request passes the replay guard, the version, upgrade, URI, handler and
\* input checks and the visibility check, and asks for its ledger entry.
Receive(r) ==
  /\ Arrives(r) /\ To(r, "entry")
  /\ UNCHANGED <<seenVars, skillActive, reply, queueVars, workerVars, tableVars,
                 ledgerVars, nodeVars>>

\* One of those checks fails: the request is answered and nothing is written.
Reject(r) ==
  /\ Arrives(r) /\ Answer(r, "rejected")
  /\ UNCHANGED <<seenVars, skillActive, queueVars, workerVars, tableVars,
                 ledgerVars, nodeVars>>

\* await get_or_create_ledger_entry
ReadEntry(r) ==
  /\ Writing /\ rpc[r] = "entry" /\ To(r, "meter")
  /\ seenBal' = [seenBal EXCEPT ![r] = balance[Caller[r]]]
  /\ LET p == Caller[r]
         n == Cardinality(Window(p) \cup {r})
     IN  peak' = [peak EXCEPT ![p] = IF n > @ THEN n ELSE @]
  /\ UNCHANGED <<seenMeter, seenActive, skillActive, reply, queueVars, workerVars, tableVars,
                 balance, held, meter, charged, nodeVars>>

\* await meter_get
ReadMeter(r) ==
  /\ Writing /\ rpc[r] = "meter" /\ To(r, "gate")
  /\ seenMeter' = [seenMeter EXCEPT ![r] = meter[Caller[r]]]
  /\ UNCHANGED <<seenBal, seenActive, skillActive, reply, queueVars, workerVars, tableVars, ledgerVars,
                 nodeVars>>

\* ADMISSION_BLOCKED
Block(r) ==
  /\ Alive /\ rpc[r] = "gate" /\ HardBlock(r) /\ Answer(r, "blocked")
  /\ UNCHANGED <<seenVars, skillActive, queueVars, workerVars, tableVars,
                 ledgerVars, nodeVars>>

\* An unfinished async job with the same input hash is reported instead.
PollExisting(r) ==
  /\ Alive /\ rpc[r] = "gate" /\ ~HardBlock(r) /\ ActiveJob(Hash[r])
  /\ Answer(r, "existing")
  /\ UNCHANGED <<seenVars, skillActive, queueVars, workerVars, tableVars,
                 ledgerVars, nodeVars>>

\* A sync call of the node to itself runs without the queue as long as the
\* skill has a free slot.
TakesLocalPath(r) ==
  r \notin Async /\ Caller[r] \in Self /\ skillActive < SkillMax

Admit(r) ==
  /\ Alive /\ rpc[r] = "gate" /\ ~HardBlock(r) /\ ~ActiveJob(Hash[r])
  /\ ~TakesLocalPath(r)
  /\ To(r, "insert") /\ cache' = cache \cup {r}
  /\ UNCHANGED <<seenVars, skillActive, reply, queue, future, workerVars,
                 tableVars, ledgerVars, nodeVars>>

\* await insert_task, then the result future is created
InsertTask(r) ==
  /\ Writing /\ rpc[r] = "insert"
  /\ To(r, IF r \in Async THEN "insertJob" ELSE "submit")
  /\ SetTask(r, "accepted") /\ future' = [future EXCEPT ![r] = "pending"]
  /\ UNCHANGED <<seenVars, skillActive, reply, queue, cache, workerVars, job,
                 note, pushed, ledgerVars, nodeVars>>

\* insert_async_job first deletes failed and expired rows that are old
\* enough, here any set of them.
QueueJob(r) ==
  \E old \in SUBSET {q \in Reqs : job[q] \in {"failed", "expired"}} :
    job' = [q \in Reqs |-> IF q = r THEN "queued"
                           ELSE IF q \in old THEN "none" ELSE job[q]]

\* await insert_async_job
InsertJob(r) ==
  /\ Writing /\ rpc[r] = "insertJob" /\ To(r, "submit") /\ QueueJob(r)
  /\ UNCHANGED <<seenVars, skillActive, reply, queueVars, workerVars, task, note,
                 pushed, ledgerVars, nodeVars>>

\* The saturation test comes before put_nowait and only for fast sync tasks.
Refused(r) == r \notin Async /\ r \notin Slow /\ Saturated

Enqueue(r) ==
  /\ Alive /\ rpc[r] = "submit" /\ ~Refused(r) /\ Len(queue) < QueueMax
  /\ queue' = Append(queue, r) /\ Exec(r, "queued")

SubmitAsync(r) ==
  /\ r \in Async /\ Enqueue(r) /\ Answer(r, "accepted")
  /\ UNCHANGED <<seenVars, skillActive, cache, future, idle, tableVars,
                 ledgerVars, nodeVars>>

SubmitSlow(r) ==
  /\ r \in Slow \ Async /\ Enqueue(r)
  /\ Answer(r, IF Saturated THEN "queued" ELSE "accepted")
  /\ UNCHANGED <<seenVars, skillActive, cache, future, idle, tableVars,
                 ledgerVars, nodeVars>>

SubmitFast(r) ==
  /\ r \notin Slow \cup Async /\ Enqueue(r) /\ To(r, "wait")
  /\ UNCHANGED <<seenVars, skillActive, reply, cache, future, idle, tableVars,
                 ledgerVars, nodeVars>>

\* RETRY_AFTER
RefuseSaturated(r) ==
  /\ Alive /\ rpc[r] = "submit" /\ Refused(r)
  /\ To(r, "failRetry") /\ cache' = cache \ {r}
  /\ UNCHANGED <<seenVars, skillActive, reply, queue, future, workerVars,
                 tableVars, ledgerVars, nodeVars>>

\* asyncio.QueueFull: PROVIDER_BUSY
RefuseFull(r) ==
  /\ Alive /\ rpc[r] = "submit" /\ ~Refused(r) /\ Len(queue) = QueueMax
  /\ To(r, "failBusy") /\ cache' = cache \ {r}
  /\ UNCHANGED <<seenVars, skillActive, reply, queue, future, workerVars,
                 tableVars, ledgerVars, nodeVars>>

FailTask(r) ==
  /\ Writing /\ rpc[r] \in {"failBusy", "failRetry"} /\ SetTask(r, "failed")
  /\ IF r \in Async THEN To(r, "failJob") /\ UNCHANGED reply
     ELSE Answer(r, IF rpc[r] = "failBusy" THEN "busy" ELSE "retry")
  /\ UNCHANGED <<seenVars, skillActive, queueVars, workerVars, job, note, pushed,
                 ledgerVars, nodeVars>>

FailJob(r) ==
  /\ Writing /\ rpc[r] = "failJob" /\ SetJob(r, "failed") /\ Answer(r, "busy")
  /\ UNCHANGED <<seenVars, skillActive, queueVars, workerVars, task, note, pushed,
                 ledgerVars, nodeVars>>

\* A fast sync request waits for its future ...
ReplyResult(r) ==
  /\ Alive /\ rpc[r] = "wait" /\ future[r] \in {"ok", "failed"}
  /\ Answer(r, future[r])
  /\ UNCHANGED <<seenVars, skillActive, queueVars, workerVars, tableVars,
                 ledgerVars, nodeVars>>

\* ... but no longer than the handler timeout; wait_for cancels the future.
ReplyTimeout(r) ==
  /\ Alive /\ rpc[r] = "wait" /\ future[r] = "pending"
  /\ Answer(r, "timeout") /\ future' = [future EXCEPT ![r] = "cancelled"]
  /\ UNCHANGED <<seenVars, skillActive, queue, cache, workerVars, tableVars,
                 ledgerVars, nodeVars>>
-----------------------------------------------------------------------------
(* The local fast path: _execute_local_fast_path.                          *)

AdmitLocal(r) ==
  /\ Alive /\ rpc[r] = "gate" /\ ~HardBlock(r) /\ ~ActiveJob(Hash[r])
  /\ TakesLocalPath(r)
  /\ To(r, "local") /\ seenActive' = [seenActive EXCEPT ![r] = skillActive]
  /\ UNCHANGED <<seenBal, seenMeter, skillActive, reply, queueVars, workerVars,
                 tableVars, ledgerVars, nodeVars>>

\* await insert_task, then _skill_active is set from the value read before.
InsertLocal(r) ==
  /\ Writing /\ rpc[r] = "local" /\ To(r, "localRun") /\ SetTask(r, "accepted")
  /\ skillActive' = seenActive[r] + 1
  /\ UNCHANGED <<seenVars, reply, queueVars, workerVars, job, note, pushed,
                 ledgerVars, nodeVars>>

\* The handler returns, or raises or exceeds its timeout.
LocalHandlerEnds(r) ==
  /\ Alive /\ rpc[r] = "localRun"
  /\ To(r, "localOk") \/ To(r, "localFail")
  /\ UNCHANGED <<seenVars, skillActive, reply, queueVars, workerVars, tableVars,
                 ledgerVars, nodeVars>>

\* The slot of a local call is given back, however the call ends.
GiveBack == skillActive' = IF skillActive > 0 THEN skillActive - 1 ELSE 0

\* await update_task_status, answer.
FinishLocal(r) ==
  /\ Writing /\ rpc[r] \in {"localOk", "localFail"}
  /\ SetTask(r, IF rpc[r] = "localOk" THEN "completed" ELSE "failed")
  /\ Answer(r, IF rpc[r] = "localOk" THEN "ok" ELSE "failed")
  /\ GiveBack
  /\ UNCHANGED <<seenVars, queueVars, workerVars, job, note, pushed, ledgerVars,
                 nodeVars>>

\* What a storage call of the handler writes to the task and the job row.
HandlerWrites(r) ==
  \/ rpc[r] \in {"insert", "local"} /\ SetTask(r, "accepted") /\ UNCHANGED job
  \/ rpc[r] \in {"failBusy", "failRetry", "localFail"} /\ SetTask(r, "failed")
     /\ UNCHANGED job
  \/ rpc[r] = "localOk" /\ SetTask(r, "completed") /\ UNCHANGED job
  \/ rpc[r] = "insertJob" /\ QueueJob(r) /\ UNCHANGED task
  \/ rpc[r] = "failJob" /\ SetJob(r, "failed") /\ UNCHANGED task

\* A storage call of the handler raises: the connection is closed without an
\* answer, whatever the handler had cached.  Only the success of a local call
\* is written inside a try, whose except clause reports a failure.
HandlerRaises(r) ==
  /\ rpc[r] \in {"entry", "meter", "insert", "insertJob", "failBusy",
                 "failRetry", "failJob", "local", "localOk", "localFail"}
  /\ Raises(r, rpc[r])
  /\ To(r, IF rpc[r] = "localOk" THEN "localFail" ELSE "lost")
  /\ IF rpc[r] = "localFail" THEN GiveBack ELSE UNCHANGED skillActive
  /\ HandlerWrites(r) \/ UNCHANGED <<task, job>>
  /\ UNCHANGED <<seenVars, reply, queueVars, workerVars, note, pushed, ledgerVars,
                 reap, mode, crashes>>
-----------------------------------------------------------------------------
(* A worker loop: _task_worker_loop and _execute_queued_task.              *)

Dequeue ==
  /\ Alive /\ idle > 0 /\ queue # <<>>
  /\ idle' = idle - 1 /\ queue' = Tail(queue) /\ Exec(Head(queue), "marking")
  /\ UNCHANGED <<handlerVars, cache, future, tableVars, ledgerVars, nodeVars>>

\* await update_async_job_status(running), then _active_workers += 1 and the
\* admission result is taken out of the cache.
MarkRunning(r) ==
  /\ Writing /\ epc[r] = "marking" /\ Exec(r, "running")
  /\ SetJob(r, "running") /\ cache' = cache \ {r}
  /\ UNCHANGED <<handlerVars, queue, future, idle, task, note, pushed,
                 ledgerVars, nodeVars>>

HandlerReturns(r) ==
  /\ Alive /\ epc[r] = "running" /\ Exec(r, "complete")
  /\ UNCHANGED <<handlerVars, queueVars, idle, tableVars, ledgerVars, nodeVars>>

\* The handler raises, or is a coroutine and exceeds its timeout.
HandlerFails(r) ==
  /\ Alive /\ epc[r] = "running" /\ Exec(r, "error")
  /\ UNCHANGED <<handlerVars, queueVars, idle, tableVars, ledgerVars, nodeVars>>

\* A plain handler exceeds its timeout: the except clause reads
\* job_id_for_update before it is assigned, the exception leaves the worker
\* loop, and the loop is not started again.
WorkerDies(r) ==
  /\ Alive /\ r \in PlainHandler /\ epc[r] = "running" /\ Exec(r, "abandoned")
  /\ UNCHANGED <<handlerVars, queueVars, idle, tableVars, ledgerVars, nodeVars>>

\* await update_task_status(completed), log_execution
CompleteTask(r) ==
  /\ Writing /\ epc[r] = "complete" /\ SetTask(r, "completed")
  /\ Exec(r, IF r \in Billable THEN "note"
             ELSE IF r \in Async THEN "job" ELSE "finishOk")
  /\ UNCHANGED <<handlerVars, queueVars, idle, job, note, pushed, ledgerVars,
                 nodeVars>>

AfterNote(r) == IF r \in Async THEN "job" ELSE "meter"
AfterMail(r) == IF r \in Billable THEN "meter" ELSE "finishOk"

\* await store_receipt, store_credit_note
IssueNote(r) ==
  /\ Writing /\ epc[r] = "note" /\ StoreNote(r) /\ Exec(r, AfterNote(r))
  /\ UNCHANGED <<handlerVars, queueVars, idle, task, job, pushed, ledgerVars,
                 nodeVars>>

CompleteJob(r) ==
  /\ Writing /\ epc[r] = "job" /\ SetJob(r, "completed") /\ Exec(r, "mail")
  /\ UNCHANGED <<handlerVars, queueVars, idle, task, note, pushed, ledgerVars,
                 nodeVars>>

\* A mail put into the outbox.
Mails(r, outcome) == pushed' = [pushed EXCEPT ![r] = @ \cup {outcome}]

\* task_result mail, unless the node called itself
PushResult(r) ==
  /\ Writing /\ epc[r] = "mail" /\ Exec(r, AfterMail(r))
  /\ IF Caller[r] \in Self THEN UNCHANGED pushed ELSE Mails(r, "ok")
  /\ UNCHANGED <<handlerVars, queueVars, idle, task, job, note, ledgerVars,
                 nodeVars>>

Metered(r) == meter' = [meter EXCEPT ![Caller[r]] = @ + 1]
MeterTask(r) ==
  /\ Writing /\ epc[r] = "meter" /\ Exec(r, "bill") /\ Metered(r)
  /\ UNCHANGED <<handlerVars, queueVars, idle, tableVars, balance, held,
                 charged, peak, nodeVars>>

\* update_ledger_provider, or hold_balance for a skill with hold
Billed(r) ==
  \/ /\ r \notin Held /\ UNCHANGED held
     /\ balance' = [balance EXCEPT ![Caller[r]] = @ - Price]
     /\ charged' = [charged EXCEPT ![r] = @ + 1]
  \/ /\ r \in Held /\ UNCHANGED <<balance, charged>>
     /\ held' = [held EXCEPT ![Caller[r]] = @ + Price]

\* _apply_provider_billing, direct and hold
Bill(r) ==
  /\ Writing /\ epc[r] = "bill" /\ ~Deducts(r) /\ Exec(r, "finishOk")
  /\ Billed(r)
  /\ UNCHANGED <<handlerVars, queueVars, idle, tableVars, meter, peak, nodeVars>>

\* _apply_provider_billing, prepaid: storage has no deduct_prepaid, and the
\* AttributeError is handled like an exception of the handler.
DeductFails(r) ==
  /\ Alive /\ epc[r] = "bill" /\ Deducts(r) /\ Exec(r, "error")
  /\ UNCHANGED <<handlerVars, queueVars, idle, tableVars, ledgerVars, nodeVars>>

\* await update_task_status(failed), log_execution
FailRun(r) ==
  /\ Writing /\ epc[r] = "error" /\ SetTask(r, "failed")
  /\ Exec(r, IF r \in Async THEN "errorJob" ELSE "finishFail")
  /\ UNCHANGED <<handlerVars, queueVars, idle, job, note, pushed, ledgerVars,
                 nodeVars>>

FailRunJob(r) ==
  /\ Writing /\ epc[r] = "errorJob" /\ SetJob(r, "failed")
  /\ Exec(r, "errorMail")
  /\ UNCHANGED <<handlerVars, queueVars, idle, task, note, pushed, ledgerVars,
                 nodeVars>>

\* task_failed mail
PushFailure(r) ==
  /\ Writing /\ epc[r] = "errorMail" /\ Exec(r, "finishFail") /\ Mails(r, "failed")
  /\ UNCHANGED <<handlerVars, queueVars, idle, task, job, note, ledgerVars,
                 nodeVars>>

\* What a storage call of the worker writes to the task and the job row.
WorkerWrites(r) ==
  \/ epc[r] = "complete" /\ SetTask(r, "completed") /\ UNCHANGED job
  \/ epc[r] = "error" /\ SetTask(r, "failed") /\ UNCHANGED job
  \/ epc[r] = "marking" /\ SetJob(r, "running") /\ UNCHANGED task
  \/ epc[r] = "job" /\ SetJob(r, "completed") /\ UNCHANGED task
  \/ epc[r] = "errorJob" /\ SetJob(r, "failed") /\ UNCHANGED task

\* A storage call raises in the try of _execute_queued_task: the generic
\* except clause reports a failure, whatever was stored, mailed or metered.
RunRaises(r) ==
  /\ epc[r] \in {"complete", "job"} /\ Raises(r, epc[r]) /\ Exec(r, "error")
  /\ WorkerWrites(r) \/ UNCHANGED <<task, job>>
  /\ UNCHANGED <<handlerVars, queueVars, idle, note, pushed, ledgerVars,
                 reap, mode, crashes>>

\* store_receipt raises likewise; a note that cannot be made or stored is
\* only logged (CREDIT_NOTE_ISSUE_FAIL).
NoteRaises(r) ==
  /\ epc[r] = "note" /\ Raises(r, "note")
  /\ \/ Exec(r, "error") /\ UNCHANGED note
     \/ Exec(r, AfterNote(r)) /\ (StoreNote(r) \/ UNCHANGED note)
  /\ UNCHANGED <<handlerVars, queueVars, idle, task, job, pushed, ledgerVars,
                 reap, mode, crashes>>

\* A mail that cannot be put into the outbox is logged and given up.
MailRaises(r) ==
  /\ \/ /\ epc[r] = "mail" /\ Caller[r] \notin Self /\ Exec(r, AfterMail(r))
        /\ Mails(r, "ok") \/ UNCHANGED pushed
     \/ /\ epc[r] = "errorMail" /\ Exec(r, "finishFail")
        /\ Mails(r, "failed") \/ UNCHANGED pushed
  /\ Raises(r, epc[r])
  /\ UNCHANGED <<handlerVars, queueVars, idle, task, job, note, ledgerVars,
                 reap, mode, crashes>>

\* meter_increment or the billing raises, the latter also once the price has
\* been taken: then get_ledger_balance or _check_credit_restored does.
BillingRaises(r) ==
  /\ \/ epc[r] = "meter" /\ (Metered(r) \/ UNCHANGED meter)
        /\ UNCHANGED <<balance, charged, held>>
     \/ epc[r] = "bill" /\ ~Deducts(r) /\ UNCHANGED meter
        /\ (Billed(r) \/ UNCHANGED <<balance, charged, held>>)
  /\ Raises(r, epc[r]) /\ Exec(r, "error")
  /\ UNCHANGED <<handlerVars, queueVars, idle, tableVars, peak, reap, mode, crashes>>

\* Outside that try, or in its except clause, the exception leaves the worker
\* loop, which is not started again; the cache and the future stay.
LoopRaises(r) ==
  /\ epc[r] \in {"marking", "error", "errorJob"} /\ Raises(r, epc[r])
  /\ Exec(r, "abandoned") /\ (WorkerWrites(r) \/ UNCHANGED <<task, job>>)
  /\ UNCHANGED <<handlerVars, queueVars, idle, note, pushed, ledgerVars,
                 reap, mode, crashes>>

\* The future is resolved unless its waiter gave up, a slow task's result is
\* sent to a remote requester, and the loop goes round if the node still runs.
Finish(r) ==
  /\ Alive /\ epc[r] \in {"finishOk", "finishFail"} /\ Exec(r, "done")
  /\ LET outcome == IF epc[r] = "finishOk" THEN "ok" ELSE "failed"
     IN  /\ future' = [future EXCEPT ![r] = IF @ = "pending" THEN outcome ELSE @]
         /\ pushed' = IF r \in Slow /\ Caller[r] \notin Self
                      THEN [pushed EXCEPT ![r] = @ \cup {outcome}] ELSE pushed
  /\ idle' = IF mode = "up" THEN idle + 1 ELSE idle
  /\ UNCHANGED <<handlerVars, queue, cache, task, job, note, ledgerVars,
                 nodeVars>>

\* while self._running ends for a worker that waits in queue.get()
WorkerExits ==
  /\ mode \in {"stopping", "stopped"} /\ idle > 0 /\ idle' = idle - 1
  /\ UNCHANGED <<handlerVars, queueVars, epc, tableVars, ledgerVars, nodeVars>>
-----------------------------------------------------------------------------
(* Background loops, payments, crash and stop.                             *)

\* _stale_task_watchdog reads the accepted rows; which of them are older than
\* twice their timeout is left open.
WatchdogRead ==
  /\ mode = "up" /\ reap = {}
  /\ \E old \in SUBSET {r \in Reqs : task[r] = "accepted"} :
       old # {} /\ reap' = old
  /\ UNCHANGED <<handlerVars, queueVars, workerVars, tableVars, ledgerVars,
                 raised, mode, crashes>>

\* await update_task_status(expired), without looking at the row again
WatchdogReap(r) ==
  /\ Writing /\ r \in reap /\ reap' = reap \ {r} /\ SetTask(r, "expired")
  /\ UNCHANGED <<handlerVars, queueVars, workerVars, job, note, pushed,
                 ledgerVars, raised, mode, crashes>>

\* cleanup_expired_jobs: a row past its 24 h, so none that a handler or a
\* worker still holds.
ExpireJob(r) ==
  /\ mode = "up" /\ job[r] \notin {"none", "expired"}
  /\ rpc[r] \in {"done", "lost"} /\ epc[r] \in {"none", "done", "abandoned"}
  /\ SetJob(r, "expired")
  /\ UNCHANGED <<handlerVars, queueVars, workerVars, task, note, pushed,
                 ledgerVars, nodeVars>>

\* A payment or settlement of a peer arrives: its balance grows.
Credit(p) ==
  /\ mode = "up" /\ balance[p] + Price <= MaxCredit
  /\ balance' = [balance EXCEPT ![p] = @ + Price]
  /\ UNCHANGED <<handlerVars, queueVars, workerVars, tableVars, held, meter,
                 charged, peak, nodeVars>>

\* The process dies and is started again: memory is gone, and
\* cleanup_zombie_tasks fails the running jobs that are old enough.
Crash ==
  /\ mode = "up" /\ crashes < MaxCrashes /\ Faults < MaxFaults
  /\ crashes' = crashes + 1
  /\ rpc' = [r \in Reqs |-> IF rpc[r] \in {"idle", "done"} THEN rpc[r] ELSE "lost"]
  /\ queue' = <<>> /\ cache' = {} /\ future' = [r \in Reqs |-> "none"]
  /\ epc' = [r \in Reqs |-> IF epc[r] = "done" THEN "done" ELSE "none"]
  /\ idle' = TaskSlots /\ skillActive' = 0 /\ reap' = {}
  /\ \E old \in SUBSET {r \in Reqs : job[r] = "running"} :
       job' = [r \in Reqs |-> IF r \in old THEN "failed" ELSE job[r]]
  /\ UNCHANGED <<seenVars, reply, task, note, pushed, ledgerVars, raised, mode>>

\* _heartbeat_loop finds knarr.stop and clears _running.
Stop ==
  /\ AllowStop /\ mode = "up" /\ Faults < MaxFaults /\ mode' = "stopping"
  /\ UNCHANGED <<handlerVars, queueVars, workerVars, tableVars, ledgerVars,
                 raised, reap, crashes>>

WriterExits ==
  /\ mode = "stopping" /\ mode' = "stopped"
  /\ UNCHANGED <<handlerVars, queueVars, workerVars, tableVars, ledgerVars,
                 raised, reap, crashes>>

\* The drain loop ends when the queue is empty and no worker is active, or
\* after 30 s.
Drained == queue = <<>> /\ ActiveWorkers = 0
Exit ==
  /\ mode \in {"stopping", "stopped"} /\ (Drained \/ DrainTimeout)
  /\ mode' = "exited"
  /\ UNCHANGED <<handlerVars, queueVars, workerVars, tableVars, ledgerVars,
                 raised, reap, crashes>>
-----------------------------------------------------------------------------
HandlerStep(r) ==
  \/ ReadEntry(r) \/ ReadMeter(r) \/ Block(r) \/ PollExisting(r) \/ Admit(r)
  \/ InsertTask(r) \/ InsertJob(r) \/ SubmitAsync(r) \/ SubmitSlow(r)
  \/ SubmitFast(r) \/ RefuseSaturated(r) \/ RefuseFull(r) \/ FailTask(r)
  \/ FailJob(r) \/ ReplyResult(r) \/ ReplyTimeout(r) \/ AdmitLocal(r)
  \/ InsertLocal(r) \/ LocalHandlerEnds(r) \/ FinishLocal(r) \/ HandlerRaises(r)

WorkerStep(r) ==
  \/ MarkRunning(r) \/ HandlerReturns(r) \/ HandlerFails(r) \/ WorkerDies(r)
  \/ CompleteTask(r) \/ IssueNote(r) \/ CompleteJob(r) \/ PushResult(r)
  \/ MeterTask(r) \/ Bill(r) \/ DeductFails(r) \/ FailRun(r) \/ FailRunJob(r)
  \/ PushFailure(r) \/ Finish(r)
  \/ RunRaises(r) \/ NoteRaises(r) \/ MailRaises(r) \/ BillingRaises(r)
  \/ LoopRaises(r)

Next ==
  \/ \E r \in Reqs : Receive(r) \/ Reject(r) \/ HandlerStep(r) \/ WorkerStep(r)
                     \/ WatchdogReap(r) \/ ExpireJob(r)
  \/ \E p \in Peers : Credit(p)
  \/ Dequeue \/ WorkerExits \/ WatchdogRead \/ Crash \/ Stop \/ WriterExits
  \/ Exit

Spec == Init /\ [][Next]_vars

(* Coroutines that can run do run, a handler returns or is timed out, and  *)
(* the background loops keep turning.  Requests, payments, crashes and     *)
(* stops need not happen.                                                  *)
Fairness ==
  /\ \A r \in Reqs : WF_vars(HandlerStep(r)) /\ WF_vars(WorkerStep(r))
                     /\ WF_vars(WatchdogReap(r)) /\ WF_vars(ExpireJob(r))
  /\ WF_vars(Dequeue) /\ WF_vars(WorkerExits) /\ WF_vars(WriterExits)
  /\ WF_vars(Exit)

FairSpec == Spec /\ Fairness
-----------------------------------------------------------------------------
(* Safety.                                                                 *)

(* The gate compares a balance that was read before several awaits, and    *)
(* the price is taken only after the execution.  So a caller can go below  *)
(* the hard limit, but by no more than one price for every further request *)
(* it ever had between that read and its charge at the same time.          *)
OverdraftBound ==
  \A p \in Peers : balance[p] >= HardLimit - Price * (peak[p] - 1)

(* A caller that was turned away may try elsewhere: its request is not     *)
(* queued, not executed, not billed, and leaves no credit note or price.   *)
RefusedNeverRuns ==
  \A r \in Reqs : reply[r] \in {"rejected", "blocked", "existing", "busy", "retry"} =>
    /\ epc[r] = "none" /\ charged[r] = 0
    /\ r \notin note \cup cache /\ pushed[r] = {}

(* The price fixed at admission is kept until a worker takes the request,  *)
(* whatever way the handler leaves, and an entry outlives its request only *)
(* where a storage call raised before the worker took it out.              *)
Priced(r) == rpc[r] \in {"insert", "insertJob", "submit"}
             \/ epc[r] \in {"queued", "marking"}
PriceCached ==
  \A r \in Reqs :
    /\ Priced(r) => r \in cache
    /\ r \in cache => Priced(r) \/ raised[r] \cap {"insert", "insertJob", "marking"} # {}

(* A task is charged at most once.  Its credit note was stored before,     *)
(* unless storing it raised, and neither a row nor a mail nor the answer   *)
(* of the call says that it failed, unless something raised after the      *)
(* price had been taken.                                                   *)
ChargeBacked ==
  \A r \in Reqs : charged[r] > 0 =>
    /\ charged[r] = 1
    /\ r \in note \/ "note" \in raised[r]
    /\ \/ task[r] # "failed" /\ "failed" \notin pushed[r] /\ future[r] # "failed"
       \/ "bill" \in raised[r]

\* A call of the worker loop or of the except clause raised.
LoopLost(r) == raised[r] \cap {"marking", "error", "errorJob"} # {}

(* Two channels report the outcome of a task; they contradict each other   *)
(* only where metering or billing raised: no other failure after the       *)
(* result has left turns the outcome round.                                *)
OneOutcome ==
  \A r \in Reqs : pushed[r] = {"ok", "failed"} => raised[r] \cap {"meter", "bill"} # {}

(* A request that left the worker has its future resolved or given up,     *)
(* unless a raising call took the worker loop down with it.                *)
FinishedIsResolved ==
  \A r \in Reqs : epc[r] \in {"done", "abandoned"} =>
    future[r] # "pending" \/ LoopLost(r)

(* Every request has an owner until it is settled: one that left the       *)
(* worker is resolved, and as long as the node has not crashed, an         *)
(* unfinished async job belongs to a handler, a queue entry or a worker,   *)
(* or the storage call that would have settled it raised: else no row      *)
(* blocks its hash for ever.                                               *)
NothingLeftOpen ==
  /\ FinishedIsResolved
  /\ \A r \in Reqs : crashes = 0 /\ job[r] \in {"queued", "running"} =>
       \/ raised[r] \cap {"insertJob", "failBusy", "failJob"} # {} \/ LoopLost(r)
       \/ rpc[r] \in {"submit", "failBusy", "failJob"}
       \/ epc[r] \in {"queued", "marking", "error", "errorJob"}
       \/ epc[r] \in {"running", "complete", "note", "job"}
-----------------------------------------------------------------------------
(* Liveness.                                                               *)

Handled(r) == \/ rpc[r] = "done"
              \/ rpc[r] = "lost" /\ (crashes > 0 \/ raised[r] # {})

WorkersLost ==
  idle + Cardinality({r \in Reqs : epc[r] \in Executing \cup {"marking"}}) < TaskSlots

(* The handler of every request that was received ends, with an answer     *)
(* unless the node crashed or a storage call raised, even if every worker  *)
(* loop is lost: as long as the writer runs, and for a caller that waits   *)
(* for its result, as long as the process lives.                           *)
CallAnswered ==
  \A r \in Reqs : rpc[r] = "entry" ~>
    Handled(r) \/ (~Writing /\ rpc[r] # "wait") \/ ~Alive

(* To a remote caller that was told accepted or queued the outcome is      *)
(* pushed later, unless the process or a worker loop is lost or the mail   *)
(* could not be put into the outbox.                                       *)
AcceptedIsDelivered ==
  \A r \in {q \in Async \cup Slow : Caller[q] \notin Self} :
    reply[r] \in {"accepted", "queued"}
                  ~> \/ pushed[r] # {} \/ raised[r] \cap {"mail", "errorMail"} # {}
                      \/ crashes > 0 \/ mode # "up" \/ WorkersLost

(* Even after a crash an unfinished job row is settled in the end, so that *)
(* the same input can be submitted again.                                  *)
UnfinishedJobSettles ==
  \A r \in Async : job[r] \in {"queued", "running"}
                  ~> job[r] \notin {"queued", "running"} \/ mode # "up" \/ WorkersLost
=============================================================================
