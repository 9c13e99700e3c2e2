-------------------------- MODULE CallerSideProofs --------------------------
(***************************************************************************)
(* What a caller is told and what it pays, for every value of the          *)
(* constants of CallerSide: any number of commands, attempts, jobs and     *)
(* results delivered once more.                                            *)
(***************************************************************************)
EXTENDS CallerSide, FiniteSetTheorems, TLAPS

USE CallerAssumption
USE DEF callerVars, callVars, servedVars, jobVars, Refusals, Final, Late

-----------------------------------------------------------------------------
(* Jobs of the dashboard                                                   *)

\* Debits of j made and under way.
Due(j) == debits[j] + (IF settling[j] = {} THEN 0 ELSE 1)

\* While its row takes a result, a job has no more debits than its row was
\* put back; once it is settled it may have one more.
JobOK(j) ==
  /\ settling[j] \in {{}, {"checked"}, {"noted"}}
  /\ debits[j] \in Nat /\ reopened[j] \in Nat
  /\ tracker[j] = "none" => jobRow[j] = "none"
  /\ Due(j) <= 1 + reopened[j]
  /\ jobRow[j] \notin {"purged", "completed", "failed"} => Due(j) <= reopened[j]

JobShape ==
  /\ DOMAIN jobRow = Jobs /\ DOMAIN tracker = Jobs /\ DOMAIN settling = Jobs
  /\ DOMAIN debits = Jobs /\ DOMAIN reopened = Jobs

JobInv == JobShape /\ \A j \in Jobs : JobOK(j)

\* A step leaves job i alone.
JobApart(i) ==
  /\ jobRow'[i] = jobRow[i] /\ tracker'[i] = tracker[i] /\ settling'[i] = settling[i]
  /\ debits'[i] = debits[i] /\ reopened'[i] = reopened[i]

\* A job that is left alone keeps its invariant.
LEMMA JobApartKeeps == ASSUME NEW i \in Jobs, JobOK(i), JobApart(i) PROVE JobOK(i)'
BY DEF JobApart, JobOK, Due

\* The row goes to s, and counts as put back if it was final and is not now.
LEMMA RowMoves ==
  ASSUME NEW j \in Jobs, JobOK(j), NEW s, jobRow'[j] \in {s, "purged"},
         s \in {"completed", "failed", "purged"} \/ jobRow[j] # "purged",
         settling'[j] = settling[j], debits'[j] = debits[j], tracker'[j] # "none",
         \/ reopened'[j] = reopened[j] + 1
         \/ reopened'[j] = reopened[j] /\ s \in {"completed", "failed", "purged"}
         \/ reopened'[j] = reopened[j] /\ jobRow[j] \notin {"purged", "completed", "failed"}
  PROVE  JobOK(j)'
<1>1. Due(j)' = Due(j) /\ Due(j) \in Nat /\ reopened[j] \in Nat
  BY DEF Due, JobOK
<1> QED BY <1>1 DEF JobOK

LEMMA StepJob ==
  ASSUME JobInv, [CallerNext]_callerVars
  PROVE  JobInv'
<1>1. ASSUME NEW j \in Jobs, NEW local \in BOOLEAN, Execute(j, local) PROVE JobInv'
  <2>1. /\ tracker[j] = "none" /\ jobRow' = [jobRow EXCEPT ![j] = "remote"]
        /\ \E to \in {"local", "waits"} : tracker' = [tracker EXCEPT ![j] = to]
        /\ UNCHANGED <<settling, debits, reopened>>
    BY <1>1 DEF Execute
  <2>2. JobShape' /\ \A i \in Jobs : i # j => JobApart(i)
    BY <2>1 DEF JobInv, JobShape, JobApart
  <2>3. jobRow[j] = "none" /\ jobRow'[j] = "remote" /\ tracker'[j] # "none"
    BY <2>1 DEF JobInv, JobShape, JobOK
  <2>4. JobOK(j)'
    BY <2>1, <2>3, RowMoves DEF JobInv
  <2> QED BY <2>2, <2>4, JobApartKeeps DEF JobInv
<1>2. ASSUME NEW j \in Jobs, NEW s \in Final, LocalEnds(j, s) PROVE JobInv'
  <2>1. /\ tracker' = [tracker EXCEPT ![j] = "done"]
        /\ jobRow' = IF jobRow[j] = "purged" THEN jobRow ELSE [jobRow EXCEPT ![j] = s]
        /\ UNCHANGED <<settling, debits, reopened>>
    BY <1>2 DEF LocalEnds, SetRow
  <2>2. JobShape' /\ \A i \in Jobs : i # j => JobApart(i)
    BY <2>1 DEF JobInv, JobShape, JobApart
  <2>3. jobRow'[j] \in {s, "purged"} /\ tracker'[j] # "none"
    BY <2>1 DEF JobInv, JobShape
  <2>4. JobOK(j)'
    BY <2>1, <2>3, RowMoves DEF JobInv
  <2> QED BY <2>2, <2>4, JobApartKeeps DEF JobInv
<1>3. ASSUME NEW j \in Jobs, Acknowledged(j) PROVE JobInv'
  <2> DEFINE s == IF ackMsg[j] \in {"accepted", "queued"} THEN ackMsg[j] ELSE "failed"
  <2>1. /\ tracker' = [tracker EXCEPT ![j] = "done"]
        /\ jobRow' = IF jobRow[j] = "purged" THEN jobRow ELSE [jobRow EXCEPT ![j] = s]
        /\ reopened' = IF jobRow[j] \in Final /\ s # "failed"
                       THEN [reopened EXCEPT ![j] = @ + 1] ELSE reopened
        /\ UNCHANGED <<settling, debits>>
    BY <1>3 DEF Acknowledged, SetRow
  <2> HIDE DEF s
  <2>2. JobShape' /\ \A i \in Jobs : i # j => JobApart(i)
    BY <2>1 DEF JobInv, JobShape, JobApart
  <2>3. /\ jobRow'[j] = IF jobRow[j] = "purged" THEN "purged" ELSE s
        /\ tracker'[j] = "done"
        /\ reopened'[j] = IF jobRow[j] \in Final /\ s # "failed"
                          THEN reopened[j] + 1 ELSE reopened[j]
    BY <2>1 DEF JobInv, JobShape
  <2>4. JobOK(j)'
    <3>1. CASE jobRow[j] = "purged"
      <4>1. reopened'[j] = reopened[j] /\ jobRow'[j] \in {"purged"}
        BY <2>3, <3>1
      <4> QED BY <2>1, <2>3, <4>1, RowMoves DEF JobInv
    <3>2. CASE jobRow[j] # "purged"
      BY <2>1, <2>3, <3>2, RowMoves DEF JobInv
    <3> QED BY <3>1, <3>2
  <2> QED BY <2>2, <2>4, JobApartKeeps DEF JobInv
<1>4. ASSUME NEW j \in Jobs, AckTimesOut(j) PROVE JobInv'
  <2>1. /\ tracker' = [tracker EXCEPT ![j] = "done"]
        /\ jobRow' = IF jobRow[j] = "purged" THEN jobRow ELSE [jobRow EXCEPT ![j] = "failed"]
        /\ UNCHANGED <<settling, debits, reopened>>
    BY <1>4 DEF AckTimesOut, SetRow
  <2>2. JobShape' /\ \A i \in Jobs : i # j => JobApart(i)
    BY <2>1 DEF JobInv, JobShape, JobApart
  <2>3. jobRow'[j] \in {"failed", "purged"} /\ tracker'[j] # "none"
    BY <2>1 DEF JobInv, JobShape
  <2>4. JobOK(j)'
    BY <2>1, <2>3, RowMoves DEF JobInv
  <2> QED BY <2>2, <2>4, JobApartKeeps DEF JobInv
<1>5. ASSUME NEW j \in Jobs, ResultMail(j) PROVE JobInv'
  <2>1. CASE ~OpenRow(j)
    BY <1>5, <2>1 DEF ResultMail, JobInv, JobShape, JobOK, Due
  <2>2. CASE OpenRow(j)
    <3>1. /\ settling[j] = {} /\ jobRow' = [jobRow EXCEPT ![j] = "completed"]
          /\ settling' = [settling EXCEPT ![j] = {"checked"}]
          /\ UNCHANGED <<tracker, debits, reopened>>
      BY <1>5, <2>2 DEF ResultMail, SetRow, OpenRow
    <3>2. JobShape' /\ \A i \in Jobs : i # j => JobApart(i)
      BY <3>1 DEF JobInv, JobShape, JobApart
    <3>3. /\ settling'[j] = {"checked"} /\ jobRow'[j] = "completed"
          /\ jobRow[j] \notin {"none", "purged", "completed", "failed"}
      BY <2>2, <3>1 DEF JobInv, JobShape, OpenRow
    <3>4. JobOK(j)'
      BY <3>1, <3>3 DEF JobInv, JobOK, Due
    <3> QED BY <3>2, <3>4, JobApartKeeps DEF JobInv
  <2> QED BY <2>1, <2>2
<1>6. ASSUME NEW j \in Jobs, NEW valid \in BOOLEAN, NoteStored(j, valid) PROVE JobInv'
  <2>1. /\ settling[j] = {"checked"} /\ UNCHANGED <<jobRow, tracker, debits, reopened>>
        /\ \E to \in {{}, {"noted"}} : settling' = [settling EXCEPT ![j] = to]
    BY <1>6 DEF NoteStored, JobInv, JobOK
  <2>2. JobShape' /\ \A i \in Jobs : i # j => JobApart(i)
    BY <2>1 DEF JobInv, JobShape, JobApart
  <2>3. settling'[j] = {} \/ settling'[j] = {"noted"}
    BY <2>1 DEF JobInv, JobShape
  <2>4. JobOK(j)'
    BY <2>1, <2>3 DEF JobInv, JobOK, Due
  <2> QED BY <2>2, <2>4, JobApartKeeps DEF JobInv
<1>7. ASSUME NEW j \in Jobs, Debited(j) PROVE JobInv'
  <2>1. /\ settling[j] = {"noted"} /\ settling' = [settling EXCEPT ![j] = {}]
        /\ debits' = [debits EXCEPT ![j] = @ + 1] /\ UNCHANGED <<jobRow, tracker, reopened>>
    BY <1>7 DEF Debited, JobInv, JobOK
  <2>2. JobShape' /\ \A i \in Jobs : i # j => JobApart(i)
    BY <2>1 DEF JobInv, JobShape, JobApart
  <2>3. settling'[j] = {} /\ debits'[j] = debits[j] + 1
    BY <2>1 DEF JobInv, JobShape
  <2>4. JobOK(j)'
    BY <2>1, <2>3 DEF JobInv, JobOK, Due
  <2> QED BY <2>2, <2>4, JobApartKeeps DEF JobInv
<1>8. ASSUME NEW j \in Jobs, FailureMail(j) PROVE JobInv'
  <2>1. CASE jobRow' = jobRow
    BY <1>8, <2>1 DEF FailureMail, JobInv, JobShape, JobOK, Due
  <2>2. CASE jobRow[j] # "none" /\ jobRow' = [jobRow EXCEPT ![j] = "failed"]
    <3>1. UNCHANGED <<tracker, settling, debits, reopened>>
      BY <1>8 DEF FailureMail
    <3>2. JobShape' /\ \A i \in Jobs : i # j => JobApart(i)
      BY <2>2, <3>1 DEF JobInv, JobShape, JobApart
    <3>3. jobRow'[j] = "failed" /\ tracker'[j] # "none"
      BY <2>2, <3>1 DEF JobInv, JobShape, JobOK
    <3>4. JobOK(j)'
      BY <3>1, <3>3, RowMoves DEF JobInv
    <3> QED BY <3>2, <3>4, JobApartKeeps DEF JobInv
  <2> QED BY <1>8, <2>1, <2>2 DEF FailureMail, SetRow
<1>9. ASSUME NEW j \in Jobs, JobExpires(j) PROVE JobInv'
  <2>1. /\ jobRow[j] \notin {"none", "expired", "purged"} /\ tracker[j] = "done"
        /\ jobRow' = [jobRow EXCEPT ![j] = "expired"]
        /\ reopened' = IF jobRow[j] \in Final THEN [reopened EXCEPT ![j] = @ + 1] ELSE reopened
        /\ UNCHANGED <<tracker, settling, debits>>
    BY <1>9 DEF JobExpires
  <2>2. JobShape' /\ \A i \in Jobs : i # j => JobApart(i)
    BY <2>1 DEF JobInv, JobShape, JobApart
  <2>3. /\ jobRow'[j] = "expired" /\ tracker'[j] # "none"
        /\ reopened'[j] = IF jobRow[j] \in Final THEN reopened[j] + 1 ELSE reopened[j]
    BY <2>1 DEF JobInv, JobShape
  <2>4. JobOK(j)'
    BY <2>1, <2>3, RowMoves DEF JobInv
  <2> QED BY <2>2, <2>4, JobApartKeeps DEF JobInv
<1>10. ASSUME NEW j \in Jobs, JobPurged(j) PROVE JobInv'
  <2>1. /\ jobRow[j] \in {"failed", "expired"} /\ jobRow' = [jobRow EXCEPT ![j] = "purged"]
        /\ UNCHANGED <<tracker, settling, debits, reopened>>
    BY <1>10 DEF JobPurged
  <2>2. JobShape' /\ \A i \in Jobs : i # j => JobApart(i)
    BY <2>1 DEF JobInv, JobShape, JobApart
  <2>3. jobRow'[j] = "purged" /\ tracker'[j] # "none"
    BY <2>1 DEF JobInv, JobShape, JobOK
  <2>4. JobOK(j)'
    BY <2>1, <2>3, RowMoves DEF JobInv
  <2> QED BY <2>2, <2>4, JobApartKeeps DEF JobInv
<1>11. CASE CallerCrash
  <2>1. /\ tracker' = [j \in Jobs |-> IF tracker[j] = "none" THEN "none" ELSE "done"]
        /\ settling' = [j \in Jobs |-> {}] /\ UNCHANGED <<jobRow, debits, reopened>>
    BY <1>11 DEF CallerCrash
  <2>2. ASSUME NEW j \in Jobs PROVE JobOK(j)'
    <3>1. settling'[j] = {} /\ (tracker'[j] = "none" => tracker[j] = "none") /\ JobOK(j)
      BY <2>1 DEF JobInv
    <3> QED BY <2>1, <3>1 DEF JobOK, Due
  <2> QED BY <2>1, <2>2 DEF JobInv, JobShape
<1>12. CASE UNCHANGED <<jobRow, tracker, settling, debits, reopened>>
  BY <1>12 DEF JobInv, JobShape, JobOK, Due
<1>13. CASE CommandNext
  BY <1>12, <1>13, ZenonT(30) DEF CommandNext, CallStarts, CliDecides, CallAsks,
     CallHasResult, CallHasStatus, CallWaits, CallWakes, CallTimesOut, CallCharges,
     CallReturns, PushArrives, ProviderTakes, ProviderTimesOut, ProviderEnds
<1>14. CASE JobNext
  BY <1>1, <1>2, <1>3, <1>4, <1>5, <1>6, <1>7, <1>8, <1>9, <1>10, <1>11, <1>12, <1>14
     DEF JobNext, EndJob, TakeJob, RunJob
<1> QED BY <1>12, <1>13, <1>14 DEF CallerNext

(* A result mail that is dispatched again, after a crash or a failed       *)
(* acknowledgement, charges a job once more only if a late acknowledgement *)
(* of the task or the daily expiry has put its row back; for any number of *)
(* jobs, mails and crashes.                                                *)
THEOREM DebitedOnceTheorem == CallerSpec => []DebitedOnce
<1>1. CallerInit => JobInv
  BY DEF CallerInit, JobInv, JobShape, JobOK, Due
<1>2. JobInv /\ [CallerNext]_callerVars => JobInv'
  BY StepJob
<1>3. JobInv => DebitedOnce
  <2>1. Cardinality({}) = 0 /\ Cardinality({"checked"}) = 1 /\ Cardinality({"noted"}) = 1
    BY FS_EmptySet, FS_Singleton
  <2>2. ASSUME NEW j \in Jobs, JobOK(j)
        PROVE  debits[j] + Cardinality(settling[j]) <= 1 + reopened[j]
    <3>1. Cardinality(settling[j]) = IF settling[j] = {} THEN 0 ELSE 1
      BY <2>1, <2>2 DEF JobOK
    <3> QED BY <2>2, <3>1 DEF JobOK, Due
  <2> QED BY <2>2 DEF JobInv, DebitedOnce
<1> QED BY <1>1, <1>2, <1>3, PTL DEF CallerSpec
-----------------------------------------------------------------------------
(* Calls of a command                                                      *)

Unsent == {"idle", "inserting"}
Open   == Unsent \cup {"asked", "acking", "waiting"}

\* What a call holds, its row, its debit and what the provider has done.
CallOK(c) ==
  /\ at[c] \in Unsent =>
       /\ executor[c] = "none" /\ reply[c] = "none" /\ pushes[c] = 0
       /\ executed[c] = "none" /\ arrived[c] = "none"
  /\ at[c] \in Open => code[c] = "none" /\ paid[c] = 0
  /\ at[c] = "charging" => code[c] = "completed" /\ paid[c] = 0
  /\ at[c] \in {"closing", "done"} => paid[c] = IF code[c] = "completed" THEN 1 ELSE 0
  /\ code[c] = "completed" => taskRow[c] = "completed" /\ executed[c] = "completed"
  /\ arrived[c] # "none" => arrived[c] = executed[c]
  /\ reply[c] \in Final => reply[c] = executed[c]
  /\ pushes[c] \in Nat /\ (pushes[c] > 0 => executed[c] \in Final)
  /\ executed[c] # "none" => executed[c] \in Final /\ executor[c] = "ended"
  /\ reply[c] \in Refusals \cup {"stranger"} => executor[c] = "ended" /\ executed[c] = "none"
  /\ code[c] \in {"RETRY_AFTER", "PROVIDER_BUSY"} =>
       executor[c] = "ended" /\ executed[c] = "none"

CallShape ==
  /\ cli \in [Commands -> {"idle", "calling", "again", "repeat", "next", "done"}]
  /\ tries \in [Commands -> 0..MaxAttempts]
  /\ DOMAIN at = Calls /\ DOMAIN code = Calls /\ DOMAIN taskRow = Calls
  /\ DOMAIN paid = Calls /\ DOMAIN arrived = Calls /\ DOMAIN executor = Calls
  /\ DOMAIN reply = Calls /\ DOMAIN pushes = Calls /\ DOMAIN executed = Calls

\* Calls are made one after another.
InTurn == \A k \in Commands : \A n \in 1..MaxAttempts : n > tries[k] => at[<<k, n>>] = "idle"

CallInv == CallShape /\ InTurn /\ \A c \in Calls : CallOK(c)

\* A step leaves call d alone.
CallApart(d) ==
  /\ at'[d] = at[d] /\ code'[d] = code[d] /\ taskRow'[d] = taskRow[d] /\ paid'[d] = paid[d]
  /\ arrived'[d] = arrived[d] /\ executor'[d] = executor[d] /\ reply'[d] = reply[d]
  /\ pushes'[d] = pushes[d] /\ executed'[d] = executed[d]

\* A call that is left alone keeps its invariant.
LEMMA CallApartKeeps == ASSUME NEW d \in Calls, CallOK(d), CallApart(d) PROVE CallOK(d)'
BY DEF CallApart, CallOK

CallStep(c) ==
  \/ CallAsks(c) \/ CallHasResult(c) \/ CallHasStatus(c) \/ CallWaits(c) \/ CallWakes(c)
  \/ CallTimesOut(c) \/ CallCharges(c) \/ CallReturns(c) \/ PushArrives(c)
  \/ ProviderTakes(c) \/ ProviderTimesOut(c) \/ ProviderEnds(c)

\* A step of a call or its provider is about that call, which has been made.
LEMMA StepCallApart ==
  ASSUME CallInv, NEW c \in Calls, CallStep(c)
  PROVE  /\ CallShape' /\ \A d \in Calls \ {c} : CallApart(d)
         /\ UNCHANGED tries /\ at[c] # "idle"
<1> USE DEF CallInv, CallShape, CallApart
<1>0. CallOK(c)
  OBVIOUS
<1>1. CASE CallAsks(c)
  BY <1>1 DEF CallAsks
<1>2. CASE CallHasResult(c)
  BY <1>2 DEF CallHasResult
<1>3. CASE CallHasStatus(c)
  BY <1>3 DEF CallHasStatus
<1>4. CASE CallWaits(c)
  BY <1>4 DEF CallWaits
<1>5. CASE CallWakes(c)
  BY <1>5 DEF CallWakes, Woken
<1>6. CASE CallTimesOut(c)
  BY <1>6 DEF CallTimesOut
<1>7. CASE CallCharges(c)
  BY <1>7 DEF CallCharges
<1>8. CASE CallReturns(c)
  BY <1>8 DEF CallReturns
<1>9. CASE PushArrives(c)
  BY <1>0, <1>9 DEF PushArrives, CallOK, Unsent
<1>10. CASE ProviderTakes(c)
  BY <1>0, <1>10 DEF ProviderTakes, CallOK, Unsent
<1>11. CASE ProviderTimesOut(c)
  BY <1>0, <1>11 DEF ProviderTimesOut, CallOK, Unsent
<1>12. CASE ProviderEnds(c)
  BY <1>0, <1>12 DEF ProviderEnds, CallOK, Unsent
<1> QED BY <1>1, <1>2, <1>3, <1>4, <1>5, <1>6, <1>7, <1>8, <1>9, <1>10, <1>11, <1>12
    DEF CallStep

LEMMA StepCallOK ==
  ASSUME CallInv, NEW c \in Calls, CallStep(c)
  PROVE  CallOK(c)'
<1>0. CallShape /\ CallOK(c)
  BY DEF CallInv
<1> USE DEF CallShape, CallOK, Unsent, Open
<1>1. CASE CallAsks(c)
  BY <1>0, <1>1 DEF CallAsks
<1>2. CASE CallHasResult(c)
  BY <1>0, <1>2 DEF CallHasResult, RowOf
<1>3. CASE CallHasStatus(c)
  BY <1>0, <1>3 DEF CallHasStatus
<1>4. CASE CallWaits(c)
  BY <1>0, <1>4 DEF CallWaits
<1>5. CASE CallWakes(c)
  BY <1>0, <1>5 DEF CallWakes, Woken
<1>6. CASE CallTimesOut(c)
  BY <1>0, <1>6 DEF CallTimesOut
<1>7. CASE CallCharges(c)
  BY <1>0, <1>7 DEF CallCharges
<1>8. CASE CallReturns(c)
  BY <1>0, <1>8 DEF CallReturns
<1>9. CASE PushArrives(c)
  BY <1>0, <1>9 DEF PushArrives
<1>10. CASE ProviderTakes(c)
  BY <1>0, <1>10 DEF ProviderTakes
<1>11. CASE ProviderTimesOut(c)
  BY <1>0, <1>11 DEF ProviderTimesOut
<1>12. CASE ProviderEnds(c)
  BY <1>0, <1>12 DEF ProviderEnds
<1> QED BY <1>1, <1>2, <1>3, <1>4, <1>5, <1>6, <1>7, <1>8, <1>9, <1>10, <1>11, <1>12
    DEF CallStep

\* The loop of a command went on after call m of it because the provider
\* refused, or because it was the second one to a provider that had.
Passed(k, m) ==
  \/ code[<<k, m>>] \in {"RETRY_AFTER", "PROVIDER_BUSY"}
  \/ m > 1 /\ code[<<k, m - 1>>] = "RETRY_AFTER"

LoopOK(k) ==
  /\ \A m \in 1..MaxAttempts : m < tries[k] => at[<<k, m>>] = "done" /\ Passed(k, m)
  /\ cli[k] = "idle" => tries[k] = 0
  /\ cli[k] \in {"again", "next"} => tries[k] > 0 /\ at[<<k, tries[k]>>] = "done"
  /\ cli[k] = "again" => code[<<k, tries[k]>>] = "RETRY_AFTER"
  /\ cli[k] = "next" => Passed(k, tries[k])
  /\ cli[k] = "repeat" => tries[k] > 1 /\ code[<<k, tries[k] - 1>>] = "RETRY_AFTER"

CommandInv == CallInv /\ \A k \in Commands : LoopOK(k)

\* What a call returned stays, so the loop of its command stands.
LEMMA DoneStays ==
  ASSUME CommandInv, CallShape', UNCHANGED <<cli, tries>>,
         \A c \in Calls : at[c] = "done" => at'[c] = "done" /\ code'[c] = code[c]
  PROVE  \A k \in Commands : LoopOK(k)'
<1> SUFFICES ASSUME NEW k \in Commands PROVE LoopOK(k)'
  OBVIOUS
<1>1. LoopOK(k) /\ tries[k] \in 0..MaxAttempts
  BY DEF CommandInv, CallInv, CallShape
<1>2. \A m \in 1..MaxAttempts : <<k, m>> \in Calls
  BY DEF Calls
<1>3. \A m \in 1..MaxAttempts : at[<<k, m>>] = "done" =>
        at'[<<k, m>>] = "done" /\ code'[<<k, m>>] = code[<<k, m>>]
  BY <1>2
<1>4. \A m \in 1..MaxAttempts : m <= tries[k] /\ at[<<k, m>>] = "done" /\ Passed(k, m)
        => Passed(k, m)'
  <2> SUFFICES ASSUME NEW m \in 1..MaxAttempts, m <= tries[k], at[<<k, m>>] = "done",
                      Passed(k, m)
               PROVE  Passed(k, m)'
    OBVIOUS
  <2>1. CASE code[<<k, m>>] \in {"RETRY_AFTER", "PROVIDER_BUSY"}
    BY <1>3, <2>1 DEF Passed
  <2>2. CASE m > 1 /\ code[<<k, m - 1>>] = "RETRY_AFTER"
    <3>1. m - 1 \in 1..MaxAttempts /\ m - 1 < tries[k]
      BY <1>1, <2>2
    <3>2. at[<<k, m - 1>>] = "done"
      BY <1>1, <3>1 DEF LoopOK
    <3> QED BY <1>3, <2>2, <3>1, <3>2 DEF Passed
  <2> QED BY <2>1, <2>2 DEF Passed
<1> QED BY <1>1, <1>3, <1>4 DEF LoopOK

LEMMA StepCommand ==
  ASSUME CommandInv, [CallerNext]_callerVars
  PROVE  CommandInv'
<1> USE DEF CommandInv
<1>1. ASSUME NEW c \in Calls, CallStep(c) PROVE CommandInv'
  <2>1. CallShape' /\ UNCHANGED tries /\ at[c] # "idle"
    BY <1>1, StepCallApart
  <2>2. \A d \in Calls : CallOK(d)'
    BY <1>1, StepCallApart, StepCallOK, CallApartKeeps DEF CallInv
  <2>3. UNCHANGED cli /\ (at[c] = "done" => at'[c] = "done" /\ code'[c] = code[c])
    BY <1>1 DEF CallStep, CallAsks, CallHasResult, CallHasStatus, CallWaits, CallWakes,
       CallTimesOut, CallCharges, CallReturns, PushArrives, ProviderTakes,
       ProviderTimesOut, ProviderEnds
  <2>4. \A d \in Calls : at[d] \in {"idle", "done"} => at'[d] = at[d] /\ code'[d] = code[d]
    BY <1>1, <2>1, <2>3, StepCallApart DEF CallApart
  <2>5. InTurn'
    BY <2>1, <2>4 DEF CallInv, InTurn, Calls
  <2> QED BY <2>1, <2>2, <2>3, <2>4, <2>5, DoneStays DEF CallInv
<1>2. ASSUME NEW k \in Commands, CallStarts(k) PROVE CommandInv'
  <2>0. tries[k] \in Nat /\ tries[k] + 1 \in 1..MaxAttempts
    BY <1>2 DEF CallStarts, CallInv, CallShape
  <2> PICK n \in 1..MaxAttempts : n = tries[k] + 1
    BY <2>0
  <2>1. <<k, n>> \in Calls /\ tries[k] \in Nat /\ n = tries[k] + 1
    BY <2>0 DEF Calls
  <2>2. /\ cli[k] \in {"idle", "again", "next"}
        /\ cli' = [cli EXCEPT ![k] = IF cli[k] = "again" THEN "repeat" ELSE "calling"]
        /\ tries' = [tries EXCEPT ![k] = n] /\ at' = [at EXCEPT ![<<k, n>>] = "inserting"]
        /\ taskRow' = [taskRow EXCEPT ![<<k, n>>] = "submitted"]
        /\ UNCHANGED <<code, paid, arrived, executor, reply, pushes, executed>>
    BY <1>2, <2>1 DEF CallStarts, CallInv, CallShape
  <2>3. CallShape'
    BY <2>1, <2>2 DEF CallInv, CallShape
  <2>4. at[<<k, n>>] = "idle"
    BY <2>1 DEF CallInv, InTurn
  <2>5. \A d \in Calls \ {<<k, n>>} : CallApart(d)
    BY <2>2 DEF CallInv, CallShape, CallApart
  <2>6. CallOK(<<k, n>>)'
    BY <2>1, <2>2, <2>4 DEF CallInv, CallShape, CallOK, Unsent, Open
  <2>7. InTurn'
    BY <2>1, <2>2 DEF CallInv, CallShape, InTurn, Calls
  <2>8. ASSUME NEW j \in Commands PROVE LoopOK(j)'
    <3>1. LoopOK(j) /\ tries[j] \in 0..MaxAttempts
      BY DEF CallInv, CallShape
    <3>2. \A m \in 1..MaxAttempts : at[<<j, m>>] = "done" => at'[<<j, m>>] = "done"
      BY <2>2, <2>4 DEF CallInv, CallShape, Calls
    <3>3. \A m : Passed(j, m)' <=> Passed(j, m)
      BY <2>2 DEF Passed
    <3>4. CASE j # k
      <4>1. tries'[j] = tries[j] /\ cli'[j] = cli[j]
        BY <2>2, <3>4 DEF CallInv, CallShape
      <4> QED BY <2>2, <3>1, <3>2, <3>3, <4>1 DEF LoopOK
    <3>5. CASE j = k
      <4>1. tries'[k] = n /\ cli'[k] = IF cli[k] = "again" THEN "repeat" ELSE "calling"
        BY <2>2 DEF CallInv, CallShape
      <4>2. tries[k] > 0 => at[<<k, tries[k]>>] = "done" /\ Passed(k, tries[k])
        BY <2>2, <3>1, <3>5 DEF LoopOK, Passed
      <4>3. \A m \in 1..MaxAttempts : m < n => m < tries[k] \/ m = tries[k]
        BY <2>1
      <4>4. \A m \in 1..MaxAttempts : m < n => at'[<<k, m>>] = "done" /\ Passed(k, m)'
        BY <2>1, <3>1, <3>2, <3>3, <3>5, <4>2, <4>3 DEF LoopOK
      <4>5. cli[k] = "again" => n > 1 /\ code'[<<k, n - 1>>] = "RETRY_AFTER"
        BY <2>1, <2>2, <3>1, <3>5 DEF LoopOK
      <4> QED BY <3>5, <4>1, <4>4, <4>5 DEF LoopOK
    <3> QED BY <3>4, <3>5
  <2>9. \A d \in Calls : CallOK(d)'
    <3>1. \A d \in Calls \ {<<k, n>>} : CallOK(d)'
      BY <2>5, CallApartKeeps DEF CallInv
    <3> QED BY <2>6, <3>1
  <2> QED BY <2>3, <2>7, <2>8, <2>9 DEF CallInv
<1>3. ASSUME NEW k \in Commands, CliDecides(k) PROVE CommandInv'
  <2> DEFINE c == <<k, tries[k]>>
  <2>1. /\ tries[k] > 0 /\ at[c] = "done" /\ cli[k] \in {"calling", "repeat"}
        /\ \E to \in {"done", "next", "again"} :
             /\ cli' = [cli EXCEPT ![k] = to]
             /\ to = "again" => code[c] = "RETRY_AFTER"
             /\ to = "next" => cli[k] = "repeat" \/ code[c] = "PROVIDER_BUSY"
        /\ UNCHANGED <<tries, at, code, taskRow, paid, arrived, executor, reply, pushes, executed>>
    BY <1>3 DEF CliDecides, Again
  <2>2. CallInv'
    BY <2>1 DEF CallInv, CallShape, InTurn, CallOK
  <2>3. ASSUME NEW j \in Commands PROVE LoopOK(j)'
    <3>1. LoopOK(j) /\ LoopOK(k) /\ \A m : Passed(j, m)' <=> Passed(j, m)
      BY <2>1 DEF Passed
    <3>2. CASE j # k
      BY <2>1, <3>1, <3>2 DEF CallInv, CallShape, LoopOK
    <3>3. CASE j = k
      <4>1. cli'[k] \in {"done", "next", "again"}
        BY <2>1 DEF CallInv, CallShape
      <4>2. cli'[k] = "again" => code[c] = "RETRY_AFTER"
        BY <2>1 DEF CallInv, CallShape
      <4>3. cli'[k] = "next" => Passed(k, tries[k])
        BY <2>1, <3>1 DEF CallInv, CallShape, LoopOK, Passed
      <4> QED BY <2>1, <3>1, <3>3, <4>1, <4>2, <4>3 DEF LoopOK
    <3> QED BY <3>2, <3>3
  <2> QED BY <2>2, <2>3
<1>4. CASE UNCHANGED <<callVars, servedVars>>
  BY <1>4 DEF CallInv, CallShape, InTurn, CallOK, LoopOK, Passed
<1>5. CASE CommandNext
  BY <1>1, <1>2, <1>3, <1>5 DEF CommandNext, CallStep
<1>6. CASE JobNext
  BY <1>4, <1>6 DEF JobNext, Execute, LocalEnds, TakeJob, RunJob, EndJob, Acknowledged,
     AckTimesOut, ResultMail, NoteStored, Debited, FailureMail, JobExpires, JobPurged,
     CallerCrash
<1> QED BY <1>4, <1>5, <1>6 DEF CallerNext

LEMMA CommandInvariance == CallerSpec => []CommandInv
<1>1. CallerInit => CommandInv
  <2> SUFFICES ASSUME CallerInit PROVE CommandInv
    OBVIOUS
  <2>1. CallShape
    BY DEF CallerInit, CallShape
  <2>2. InTurn
    BY DEF CallerInit, InTurn, Calls
  <2>3. ASSUME NEW c \in Calls PROVE CallOK(c)
    <3>1. /\ at[c] = "idle" /\ code[c] = "none" /\ paid[c] = 0 /\ arrived[c] = "none"
          /\ executor[c] = "none" /\ reply[c] = "none" /\ pushes[c] = 0
          /\ executed[c] = "none"
      BY DEF CallerInit
    <3> QED BY <3>1 DEF CallOK, Unsent, Open
  <2>4. \A k \in Commands : LoopOK(k)
    BY DEF CallerInit, LoopOK
  <2> QED BY <2>1, <2>2, <2>3, <2>4 DEF CommandInv, CallInv
<1> QED BY <1>1, StepCommand, PTL DEF CallerSpec

(* However reply, pushed result and timeouts meet, a caller is told that   *)
(* its task completed exactly when it was charged for it, once, and its    *)
(* row says so; for any number of commands, attempts and repeated results. *)
THEOREM ToldIsRecordedTheorem == CallerSpec => []ToldIsRecorded
<1>1. CommandInv => ToldIsRecorded
  BY DEF CommandInv, CallInv, CallOK, ToldIsRecorded
<1> QED BY <1>1, CommandInvariance, PTL

(* A command that goes from provider to provider is executed at most once, *)
(* unless it went on after the second call of one provider; for any number *)
(* of commands and attempts.                                               *)
THEOREM CommandRunsOnceTheorem == CallerSpec => []CommandRunsOnce
<1>1. CommandInv => CommandRunsOnce
  <2> SUFFICES ASSUME CommandInv, NEW k \in Commands, NEW m \in 1..MaxAttempts,
                      NEW n \in 1..MaxAttempts, m < n, Runs(<<k, m>>), Runs(<<k, n>>)
               PROVE  m > 1 /\ code[<<k, m - 1>>] = "RETRY_AFTER"
    BY DEF CommandRunsOnce
  <2>1. <<k, m>> \in Calls /\ <<k, n>> \in Calls /\ tries[k] \in 0..MaxAttempts
    BY DEF Calls, CommandInv, CallInv, CallShape
  <2>2. at[<<k, n>>] # "idle"
    BY <2>1 DEF CommandInv, CallInv, CallOK, Runs, Unsent
  <2>3. m < tries[k]
    BY <2>1, <2>2 DEF CommandInv, CallInv, InTurn
  <2>4. Passed(k, m)
    BY <2>3 DEF CommandInv, LoopOK
  <2>5. code[<<k, m>>] \notin {"RETRY_AFTER", "PROVIDER_BUSY"}
    BY <2>1 DEF CommandInv, CallInv, CallOK, Runs
  <2> QED BY <2>4, <2>5 DEF Passed
<1> QED BY <1>1, CommandInvariance, PTL
=============================================================================
