----------------------------- MODULE CallerSide -----------------------------
(***************************************************************************)
(* The caller's side of a task.  A command of the command line asks one    *)
(* provider after another and calls request_task() for each, which may     *)
(* answer at once, or later with a pushed result.  A job of the dashboard  *)
(* is tracked in a row of async_jobs: the tracker sets it from the         *)
(* acknowledgement and the result mail settles and charges it.             *)
(*                                                                         *)
(* The provider is reduced to what its replies and its executions are (the *)
(* pipeline is modelled in TaskPipeline).  A write that is awaited takes   *)
(* effect when it is queued, because the queue keeps the order; what       *)
(* follows the await is the next step.                                     *)
(***************************************************************************)
EXTENDS Naturals, FiniteSets

CONSTANTS
  Commands,    \* "knarr request" commands
  MaxAttempts, \* bound: calls of request_task() of one command
  Jobs,        \* jobs of the dashboard
  Inputs,      \* the input (the hash of skill, input and caller) of each
  MaxResent    \* bound: results pushed, or mailed, once more

ASSUME CallerAssumption ==
  DOMAIN Inputs = Jobs /\ MaxAttempts \in Nat \ {0} /\ MaxResent \in Nat

Calls == Commands \X (1..MaxAttempts)

VARIABLES
  cli,      \* the loop of a command: "idle", "calling", "again" (it sleeps
            \* before it asks the same provider again), "repeat", "next", "done"
  tries,    \* calls it has made
  at,       \* where request_task() is, for each call
  code,     \* the result it holds, later the one it returned
  taskRow,  \* tasks.status at the caller
  paid,     \* ledger debits of each call at the caller
  arrived,  \* _task_results
  executor, \* the provider: "none", "asked", "fast", "slow", "late" (its reply
            \* was a timeout), "ended"
  reply,    \* the reply on its way
  pushes,   \* results pushed to the caller and on their way
  executed, \* what the execution at the provider ended in
  jobRow,   \* async_jobs.status at the caller
  tracker,  \* _submit_and_track(): "none", "local", "waits", "done"
  provJob,  \* async_jobs.status at the provider
  ackMsg,   \* its acknowledgement on its way
  mails,    \* result mails on their way, "completed" or "failed"
  settling, \* result handlers: "checked" (past the check for duplicates) and
            \* "noted" (before the charge)
  debits,   \* ledger debits of each job at the caller
  reopened, \* history: finished rows that a late acknowledgement or the
            \* daily expiry put back to a status that takes a result
  resent    \* results delivered once more so far

callVars   == <<cli, tries, at, code, taskRow, paid, arrived>>
servedVars == <<executor, reply, pushes, executed>>
jobVars    == <<jobRow, tracker, provJob, ackMsg, mails, settling, debits, reopened>>
callerVars == <<callVars, servedVars, jobVars, resent>>

Refusals == {"RETRY_AFTER", "PROVIDER_BUSY", "REJECTED"}
Final    == {"completed", "failed"}
Late     == resent < MaxResent /\ resent' = resent + 1

CallerTypeOK ==
  /\ cli \in [Commands -> {"idle", "calling", "again", "repeat", "next", "done"}]
  /\ tries \in [Commands -> 0..MaxAttempts]
  /\ at \in [Calls -> {"idle", "inserting", "asked", "acking", "waiting", "charging",
                       "closing", "done"}]
  /\ code \in [Calls -> {"none", "NETWORK_ERROR", "TIMEOUT", "WRONG_PROVIDER"} \cup Refusals \cup Final]
  /\ taskRow \in [Calls -> {"none", "submitted", "queued", "rejected"} \cup Final]
  /\ paid \in [Calls -> Nat] /\ arrived \in [Calls -> {"none"} \cup Final]
  /\ executor \in [Calls -> {"none", "asked", "fast", "slow", "late", "ended"}]
  /\ reply \in [Calls -> {"none", "accepted", "TIMEOUT", "stranger"} \cup Refusals \cup Final]
  /\ pushes \in [Calls -> 0..2] /\ executed \in [Calls -> {"none"} \cup Final]
  /\ jobRow \in [Jobs -> {"none", "remote", "accepted", "queued", "expired", "purged"} \cup Final]
  /\ tracker \in [Jobs -> {"none", "local", "waits", "done"}]
  /\ provJob \in [Jobs -> {"none", "asked", "queued", "running", "twin"} \cup Final]
  /\ ackMsg \in [Jobs -> {"none", "accepted", "queued", "running", "refused"}]
  /\ mails \in [Jobs -> SUBSET Final]
  /\ settling \in [Jobs -> SUBSET {"checked", "noted"}]
  /\ debits \in [Jobs -> Nat] /\ reopened \in [Jobs -> Nat] /\ resent \in 0..MaxResent

CallerInit ==
  /\ cli = [k \in Commands |-> "idle"] /\ tries = [k \in Commands |-> 0]
  /\ at = [c \in Calls |-> "idle"] /\ code = [c \in Calls |-> "none"]
  /\ taskRow = [c \in Calls |-> "none"] /\ paid = [c \in Calls |-> 0]
  /\ arrived = [c \in Calls |-> "none"] /\ executor = [c \in Calls |-> "none"]
  /\ reply = [c \in Calls |-> "none"] /\ pushes = [c \in Calls |-> 0]
  /\ executed = [c \in Calls |-> "none"]
  /\ jobRow = [j \in Jobs |-> "none"] /\ tracker = [j \in Jobs |-> "none"]
  /\ provJob = [j \in Jobs |-> "none"] /\ ackMsg = [j \in Jobs |-> "none"]
  /\ mails = [j \in Jobs |-> {}] /\ settling = [j \in Jobs |-> {}]
  /\ debits = [j \in Jobs |-> 0] /\ reopened = [j \in Jobs |-> 0] /\ resent = 0
-----------------------------------------------------------------------------
(* request_task()                                                          *)

\* Rows of a call: what update_task_status() writes for the result in hand.
RowOf(s) == IF s = "completed" THEN "completed" ELSE IF s = "REJECTED" THEN "rejected" ELSE "failed"

\* The loop of cmd_request() calls; the task is inserted.
CallStarts(k) ==
  LET c == <<k, tries[k] + 1>> IN
  /\ cli[k] \in {"idle", "again", "next"} /\ tries[k] < MaxAttempts
  /\ cli' = [cli EXCEPT ![k] = IF @ = "again" THEN "repeat" ELSE "calling"]
  /\ tries' = [tries EXCEPT ![k] = @ + 1]
  /\ at' = [at EXCEPT ![c] = "inserting"] /\ taskRow' = [taskRow EXCEPT ![c] = "submitted"]
  /\ UNCHANGED <<code, paid, arrived, servedVars, jobVars, resent>>

\* The event is registered and the request is sent.
CallAsks(c) ==
  /\ at[c] = "inserting" /\ at' = [at EXCEPT ![c] = "asked"]
  /\ executor' = [executor EXCEPT ![c] = "asked"]
  /\ UNCHANGED <<cli, tries, code, taskRow, paid, arrived, reply, pushes, executed, jobVars, resent>>

\* A result in the reply: one signed by another node is not looked at and the
\* row stays as it is, otherwise the row is written and a completed task is
\* charged.
CallHasResult(c) ==
  LET s == reply[c] IN
  /\ at[c] = "asked" /\ s \in Final \cup {"RETRY_AFTER", "PROVIDER_BUSY", "TIMEOUT", "stranger"}
  /\ reply' = [reply EXCEPT ![c] = "none"]
  /\ code' = [code EXCEPT ![c] = IF s = "stranger" THEN "WRONG_PROVIDER" ELSE s]
  /\ taskRow' = IF s = "stranger" THEN taskRow ELSE [taskRow EXCEPT ![c] = RowOf(s)]
  /\ at' = [at EXCEPT ![c] = IF s = "completed" THEN "charging" ELSE "closing"]
  /\ UNCHANGED <<cli, tries, paid, arrived, executor, pushes, executed, jobVars, resent>>

\* A status in the reply: a rejection ends the call, otherwise it waits for a
\* pushed result, which may have come before.
CallHasStatus(c) ==
  /\ at[c] = "asked" /\ reply[c] \in {"accepted", "REJECTED"}
  /\ reply' = [reply EXCEPT ![c] = "none"]
  /\ IF reply[c] = "REJECTED"
     THEN /\ code' = [code EXCEPT ![c] = "REJECTED"]
          /\ taskRow' = [taskRow EXCEPT ![c] = "rejected"] /\ at' = [at EXCEPT ![c] = "closing"]
     ELSE /\ taskRow' = [taskRow EXCEPT ![c] = "queued"] /\ at' = [at EXCEPT ![c] = "acking"]
          /\ UNCHANGED code
  /\ UNCHANGED <<cli, tries, paid, arrived, executor, pushes, executed, jobVars, resent>>

CallWaits(c) ==
  /\ at[c] = "acking" /\ at' = [at EXCEPT ![c] = "waiting"]
  /\ UNCHANGED <<cli, tries, code, taskRow, paid, arrived, servedVars, jobVars, resent>>

\* Mutant of Woken: the row is left to the dispatcher, which has written it.
WokenUnwritten(c) ==
  UNCHANGED taskRow
\* The event of the pushed result wakes the call: it writes the row again.
Woken(c) == taskRow' = [taskRow EXCEPT ![c] = arrived[c]]

CallWakes(c) ==
  /\ at[c] = "waiting" /\ arrived[c] # "none" /\ Woken(c)
  /\ code' = [code EXCEPT ![c] = arrived[c]]
  /\ at' = [at EXCEPT ![c] = IF arrived[c] = "completed" THEN "charging" ELSE "closing"]
  /\ UNCHANGED <<cli, tries, paid, arrived, servedVars, jobVars, resent>>

\* No reply, or no pushed result in time; the deadline may pass while the event
\* of a result is set and the call has not been resumed.
CallTimesOut(c) ==
  /\ at[c] \in {"asked", "waiting"}
  /\ code' = [code EXCEPT ![c] = IF at[c] = "asked" THEN "NETWORK_ERROR" ELSE "TIMEOUT"]
  /\ taskRow' = [taskRow EXCEPT ![c] = "failed"] /\ at' = [at EXCEPT ![c] = "closing"]
  /\ UNCHANGED <<cli, tries, paid, arrived, servedVars, jobVars, resent>>

CallCharges(c) ==
  /\ at[c] = "charging" /\ paid' = [paid EXCEPT ![c] = @ + 1]
  /\ at' = [at EXCEPT ![c] = "closing"]
  /\ UNCHANGED <<cli, tries, code, taskRow, arrived, servedVars, jobVars, resent>>

\* The call returns and forgets its event, its result and its provider.
CallReturns(c) ==
  /\ at[c] = "closing" /\ at' = [at EXCEPT ![c] = "done"]
  /\ arrived' = [arrived EXCEPT ![c] = "none"]
  /\ UNCHANGED <<cli, tries, code, taskRow, paid, servedVars, jobVars, resent>>

\* _dispatch() of a TaskResult: taken while the event of the task is registered.
PushArrives(c) ==
  /\ pushes[c] > 0
  /\ \/ pushes' = [pushes EXCEPT ![c] = @ - 1] /\ UNCHANGED resent
     \/ Late /\ UNCHANGED pushes
  /\ IF at[c] \in {"asked", "acking", "waiting", "charging", "closing"}
     THEN /\ arrived' = [arrived EXCEPT ![c] = executed[c]]
          /\ taskRow' = [taskRow EXCEPT ![c] = executed[c]]
     ELSE UNCHANGED <<arrived, taskRow>>
  /\ UNCHANGED <<cli, tries, at, code, paid, executor, reply, executed, jobVars>>
-----------------------------------------------------------------------------
(* The provider of a call                                                  *)

\* The request is refused, or reaches another node, or is queued; only a slow
\* task is answered before it ended.
ProviderTakes(c) ==
  /\ executor[c] = "asked"
  /\ \/ \E s \in Refusals \cup {"stranger"} :
          reply' = [reply EXCEPT ![c] = s] /\ executor' = [executor EXCEPT ![c] = "ended"]
     \/ executor' = [executor EXCEPT ![c] = "fast"] /\ UNCHANGED reply
     \/ executor' = [executor EXCEPT ![c] = "slow"] /\ reply' = [reply EXCEPT ![c] = "accepted"]
  /\ UNCHANGED <<callVars, pushes, executed, jobVars, resent>>

\* The reply of a fast task is cut off by its timeout; the task goes on.
ProviderTimesOut(c) ==
  /\ executor[c] = "fast" /\ reply[c] = "none"
  /\ executor' = [executor EXCEPT ![c] = "late"] /\ reply' = [reply EXCEPT ![c] = "TIMEOUT"]
  /\ UNCHANGED <<callVars, pushes, executed, jobVars, resent>>

\* The task ends: in the reply, or as a pushed result if the task is slow, or
\* with nobody to tell.
ProviderEnds(c) ==
  /\ executor[c] \in {"fast", "slow", "late"} /\ executor' = [executor EXCEPT ![c] = "ended"]
  /\ \E s \in Final :
       /\ executed' = [executed EXCEPT ![c] = s]
       /\ reply' = IF executor[c] = "fast" THEN [reply EXCEPT ![c] = s] ELSE reply
       /\ pushes' = IF executor[c] = "slow" THEN [pushes EXCEPT ![c] = 1] ELSE pushes
  /\ UNCHANGED <<callVars, jobVars, resent>>
-----------------------------------------------------------------------------
(* cmd_request()                                                           *)

\* Mutant of Again: a timeout is repeated as well.
AgainOnTimeout(s) == s \in {"RETRY_AFTER", "TIMEOUT"}
\* A busy provider is asked once more after a pause.
Again(s) == s = "RETRY_AFTER"

\* After a call: a completed one ends the command, a busy provider is asked
\* again or the next one is, any other error ends it.  After the second call
\* of one provider the loop goes on to the next one whatever the error was.
CliDecides(k) ==
  LET c == <<k, tries[k]>> s == code[c] IN
  /\ cli[k] \in {"calling", "repeat"} /\ tries[k] > 0 /\ at[c] = "done"
  /\ cli' = [cli EXCEPT ![k] = IF s = "completed" THEN "done"
                               ELSE IF cli[k] = "repeat" THEN "next"
                               ELSE IF Again(s) THEN "again"
                               ELSE IF s = "PROVIDER_BUSY" THEN "next" ELSE "done"]
  /\ UNCHANGED <<tries, at, code, taskRow, paid, arrived, servedVars, jobVars, resent>>
-----------------------------------------------------------------------------
(* Jobs of the dashboard                                                   *)

\* _handle_api_execute(): the row is inserted and a task submits and tracks
\* the job, or calls the own handler.
Execute(j, local) ==
  /\ tracker[j] = "none" /\ jobRow' = [jobRow EXCEPT ![j] = "remote"]
  /\ tracker' = [tracker EXCEPT ![j] = IF local THEN "local" ELSE "waits"]
  /\ provJob' = IF local THEN provJob ELSE [provJob EXCEPT ![j] = "asked"]
  /\ UNCHANGED <<callVars, servedVars, ackMsg, mails, settling, debits, reopened, resent>>

\* update_async_job_status(): unconditional, and nothing if the row is purged.
SetRow(j, s) == jobRow' = IF jobRow[j] = "purged" THEN jobRow ELSE [jobRow EXCEPT ![j] = s]

\* call_local() returns or raises, or its deadline ends it.
LocalEnds(j, s) ==
  /\ tracker[j] = "local" /\ tracker' = [tracker EXCEPT ![j] = "done"] /\ SetRow(j, s)
  /\ UNCHANGED <<callVars, servedVars, provJob, ackMsg, mails, settling, debits, reopened, resent>>

\* _handle_task_request() for an async task: a job with the same input that is
\* not finished is answered for this one, which is then not run.
TakeJob(j) ==
  LET twins == {i \in Jobs \ {j} : Inputs[i] = Inputs[j] /\ provJob[i] \in {"queued", "running"}} IN
  /\ provJob[j] = "asked"
  /\ IF twins # {}
     THEN \E i \in twins : /\ ackMsg' = [ackMsg EXCEPT ![j] = provJob[i]]
                           /\ provJob' = [provJob EXCEPT ![j] = "twin"]
     ELSE \/ ackMsg' = [ackMsg EXCEPT ![j] = "accepted"] /\ provJob' = [provJob EXCEPT ![j] = "queued"]
          \/ ackMsg' = [ackMsg EXCEPT ![j] = "refused"] /\ provJob' = [provJob EXCEPT ![j] = "failed"]
  /\ UNCHANGED <<callVars, servedVars, jobRow, tracker, mails, settling, debits, reopened, resent>>

\* A worker runs the job and mails the result.
RunJob(j) ==
  /\ provJob[j] = "queued" /\ provJob' = [provJob EXCEPT ![j] = "running"]
  /\ UNCHANGED <<callVars, servedVars, jobRow, tracker, ackMsg, mails, settling, debits, reopened, resent>>
EndJob(j, s) ==
  /\ provJob[j] = "running" /\ provJob' = [provJob EXCEPT ![j] = s]
  /\ mails' = [mails EXCEPT ![j] = @ \cup {s}]
  /\ UNCHANGED <<callVars, servedVars, jobRow, tracker, ackMsg, settling, debits, reopened, resent>>

\* The tracker has its answer: these statuses are copied, any other one
\* ("running" of a twin among them) is a failure.
Acknowledged(j) ==
  /\ tracker[j] = "waits" /\ ackMsg[j] # "none"
  /\ ackMsg' = [ackMsg EXCEPT ![j] = "none"] /\ tracker' = [tracker EXCEPT ![j] = "done"]
  /\ SetRow(j, IF ackMsg[j] \in {"accepted", "queued"} THEN ackMsg[j] ELSE "failed")
  /\ reopened' = IF jobRow[j] \in Final /\ ackMsg[j] \in {"accepted", "queued"}
                 THEN [reopened EXCEPT ![j] = @ + 1] ELSE reopened
  /\ UNCHANGED <<callVars, servedVars, provJob, mails, settling, debits, resent>>

\* submit_async_task() raises: the answer is late or lost.
AckTimesOut(j) ==
  /\ tracker[j] = "waits" /\ tracker' = [tracker EXCEPT ![j] = "done"] /\ SetRow(j, "failed")
  /\ UNCHANGED <<callVars, servedVars, provJob, ackMsg, mails, settling, debits, reopened, resent>>
-----------------------------------------------------------------------------
(* Result mails                                                            *)

\* Mutant of OpenRow: the check looks for a failure only.
OpenRowUnlessFailed(j) == jobRow[j] \notin {"none", "purged", "failed"}
\* A finished job, or one whose row is gone, takes no result.
OpenRow(j) == jobRow[j] \notin {"none", "purged", "completed", "failed"}

\* _handle_task_result_mail() up to the write of the row.  A mail is dispatched
\* once more only if its stored row was deleted and it was sent again, long
\* after the first dispatch has ended.
ResultMail(j) ==
  /\ "completed" \in mails[j] /\ settling[j] = {}
  /\ \/ mails' = [mails EXCEPT ![j] = @ \ {"completed"}] /\ UNCHANGED resent
     \/ Late /\ UNCHANGED mails
  /\ IF OpenRow(j) THEN SetRow(j, "completed") /\ settling' = [settling EXCEPT ![j] = {"checked"}]
                ELSE UNCHANGED <<jobRow, settling>>
  /\ UNCHANGED <<callVars, servedVars, tracker, provJob, ackMsg, debits, reopened>>

\* The note is verified and stored; without a valid one nothing is charged.
NoteStored(j, valid) ==
  /\ "checked" \in settling[j]
  /\ settling' = [settling EXCEPT ![j] = IF valid THEN {"noted"} ELSE {}]
  /\ UNCHANGED <<callVars, servedVars, jobRow, tracker, provJob, ackMsg, mails, debits, reopened, resent>>

Debited(j) ==
  /\ "noted" \in settling[j] /\ settling' = [settling EXCEPT ![j] = {}]
  /\ debits' = [debits EXCEPT ![j] = @ + 1]
  /\ UNCHANGED <<callVars, servedVars, jobRow, tracker, provJob, ackMsg, mails, reopened, resent>>

\* _handle_task_failed_mail() does not look at the status.
FailureMail(j) ==
  /\ "failed" \in mails[j]
  /\ \/ mails' = [mails EXCEPT ![j] = @ \ {"failed"}] /\ UNCHANGED resent
     \/ Late /\ UNCHANGED mails
  /\ IF jobRow[j] = "none" THEN UNCHANGED jobRow ELSE SetRow(j, "failed")
  /\ UNCHANGED <<callVars, servedVars, tracker, provJob, ackMsg, settling, debits, reopened>>

\* cleanup_expired_jobs() after a day, of finished jobs too, and
\* purge_stale_failed_jobs() five minutes later.
JobExpires(j) ==
  /\ jobRow[j] \notin {"none", "expired", "purged"} /\ settling[j] = {} /\ tracker[j] = "done"
  /\ jobRow' = [jobRow EXCEPT ![j] = "expired"]
  /\ reopened' = IF jobRow[j] \in Final THEN [reopened EXCEPT ![j] = @ + 1] ELSE reopened
  /\ UNCHANGED <<callVars, servedVars, tracker, provJob, ackMsg, mails, settling, debits, resent>>
JobPurged(j) ==
  /\ jobRow[j] \in {"failed", "expired"}
  /\ jobRow' = [jobRow EXCEPT ![j] = "purged"]
  /\ UNCHANGED <<callVars, servedVars, tracker, provJob, ackMsg, mails, settling, debits, reopened, resent>>

\* The process that tracks jobs dies.
CallerCrash ==
  /\ Late
  /\ tracker' = [j \in Jobs |-> IF tracker[j] = "none" THEN "none" ELSE "done"]
  /\ settling' = [j \in Jobs |-> {}]
  /\ UNCHANGED <<callVars, servedVars, jobRow, provJob, ackMsg, mails, debits, reopened>>

CommandNext ==
  \/ \E k \in Commands : CallStarts(k) \/ CliDecides(k)
  \/ \E c \in Calls :
       \/ CallAsks(c) \/ CallHasResult(c) \/ CallHasStatus(c) \/ CallWaits(c) \/ CallWakes(c)
       \/ CallTimesOut(c) \/ CallCharges(c) \/ CallReturns(c) \/ PushArrives(c)
       \/ ProviderTakes(c) \/ ProviderTimesOut(c) \/ ProviderEnds(c)

JobNext ==
  \/ \E j \in Jobs :
       \/ \E local \in BOOLEAN : Execute(j, local)
       \/ \E s \in Final : LocalEnds(j, s) \/ EndJob(j, s)
       \/ TakeJob(j) \/ RunJob(j) \/ Acknowledged(j) \/ AckTimesOut(j)
       \/ ResultMail(j) \/ (\E valid \in BOOLEAN : NoteStored(j, valid)) \/ Debited(j)
       \/ FailureMail(j) \/ JobExpires(j) \/ JobPurged(j)
  \/ CallerCrash

CallerNext == CommandNext \/ JobNext

CallerSpec == CallerInit /\ [][CallerNext]_callerVars
-----------------------------------------------------------------------------
(* Properties                                                              *)

Runs(c) == executor[c] \in {"fast", "slow", "late"} \/ executed[c] # "none"

\* cli/main.py:1248: a command is repeated only after a provider refused it, so
\* it is executed at most once, except when the second call of a provider ended
\* without its outcome: the loop then asks the next provider although the first
\* may still execute.
CommandRunsOnce ==
  \A k \in Commands : \A m, n \in 1..MaxAttempts :
    m < n /\ Runs(<<k, m>>) /\ Runs(<<k, n>>) => m > 1 /\ code[<<k, m - 1>>] = "RETRY_AFTER"

\* node.py:3145: however reply, pushed result and timeouts meet, a caller is told
\* that its task completed exactly when it was charged for it, once, and then
\* the row says so too.
ToldIsRecorded ==
  \A c \in Calls : at[c] = "done" =>
    /\ paid[c] = IF code[c] = "completed" THEN 1 ELSE 0
    /\ code[c] = "completed" => taskRow[c] = "completed" /\ executed[c] = "completed"

\* mail_handlers.py:105: a result mail that is dispatched again, after a crash or
\* a failed acknowledgement of the mail, charges the job again only if a late
\* acknowledgement of the task or the daily expiry has put its row back.
DebitedOnce ==
  \A j \in Jobs : debits[j] + Cardinality(settling[j]) <= 1 + reopened[j]
=============================================================================
