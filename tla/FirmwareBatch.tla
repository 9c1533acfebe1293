--------------------------- MODULE FirmwareBatch ---------------------------
(***************************************************************************)
(* application/firmware/firmware_batch_supervisor.py with its job registry: *)
(* batches of firmware uploads, the polling of the devices that reboot, the *)
(* retry of the failed jobs.                                                *)
(*                                                                         *)
(* The Qt thread starts batches, upload workers end uploads, and the        *)
(* supervisor thread, the only one that changes a job once it exists, runs  *)
(* passes of four phases.  A phase that makes no request is one step: what  *)
(* an upload that ends during it changes is seen in the next pass as well.  *)
(* Time is counted in units; it passes between two passes and while a probe *)
(* is answered.                                                             *)
(***************************************************************************)
EXTENDS Integers, FiniteSets

CONSTANTS
  Device,        \* IP addresses of connected devices
  MaxJobs,       \* bound: jobs created in all batches
  Parallelism,   \* _upload_parallelism (16)
  Interval,      \* RECONNECT_INTERVAL_SEC (5)
  Timeout,       \* RECONNECT_TIMEOUT_SEC (180)
  MaxAttempts,   \* MAX_RECONNECT_ATTEMPTS (36)
  Faulty,        \* devices whose answer may raise an error that is no AppError
  MayStop        \* whether the operator may close the program

ASSUME FirmwareAssumption ==
  /\ IsFiniteSet(Device)
  /\ MaxJobs \in Nat
  /\ Parallelism \in Nat \ {0}
  /\ Interval \in Nat \ {0}
  /\ MaxAttempts \in Nat
  /\ Timeout \in Nat /\ Timeout < (MaxAttempts + 1) * Interval
  /\ Faulty \subseteq Device
  /\ MayStop \in BOOLEAN

JobId == 1..MaxJobs

VARIABLES
  \* registry
  state,     \* job -> FirmwareJobState
  target,    \* job -> device
  issued,    \* number of jobs created
  current,   \* jobs of the current batch
  attempts,  \* reconnect_attempts_done
  age,       \* time since the upload was collected: the deadline is at Timeout
  since,     \* time since the last probe or the collection: due at Interval
  \* runtime
  upload,    \* the job's future: none, running, accepted, dropped or error
  away,      \* jobs with disconnect_observed
  \* supervisor thread
  pc,        \* phase of the pass
  expired,   \* jobs this pass found past their deadline, not yet treated
  due,       \* jobs this pass found due for a probe, not yet treated
  rested,    \* time has passed since the last step of the thread
  \* shutdown
  stopping, executorUp

Flow == INSTANCE FirmwareJobFlow

JobState == Flow!JobState
Window == Flow!Window
Verdict == Flow!Verdict

jobVars   == <<state, target, issued, current>>
timeVars  == <<attempts, age, since>>
passVars  == <<expired, due>>
stopVars  == <<stopping, executorUp>>
vars == <<jobVars, timeVars, upload, away, pc, passVars, rested, stopVars>>

NoTarget == "none"

Init ==
  /\ state = [j \in JobId |-> "unused"]
  /\ target = [j \in JobId |-> NoTarget]
  /\ issued = 0 /\ current = {}
  /\ attempts = [j \in JobId |-> 0]
  /\ age = [j \in JobId |-> 0]
  /\ since = [j \in JobId |-> 0]
  /\ upload = [j \in JobId |-> "none"]
  /\ away = {}
  /\ pc = "promote" /\ expired = {} /\ due = {} /\ rested = FALSE
  /\ stopping = FALSE /\ executorUp = TRUE

InState(s) == {j \in current : state[j] = s}

Change(js, s) == state' = [j \in JobId |-> IF j \in js THEN s ELSE state[j]]

MarkFailed(js) == Change(js, "failed")

----------------------------------------------------------------------------
(* The Qt thread.                                                          *)

\* Mutant: devices that reboot after their upload are not waited for.
CanStartWhileReconnecting ==
  \A j \in current : state[j] \in Verdict \cup Window

CanStartBatch == \A j \in current : state[j] \in Verdict

\* New jobs, numbered on, for the devices of assignment.
Create(assignment) ==
  /\ ~stopping
  /\ issued' = issued + Cardinality(DOMAIN assignment)
  /\ current' = DOMAIN assignment
  /\ target' = [j \in JobId |-> IF j \in current' THEN assignment[j] ELSE target[j]]
  /\ Change(current', "queued")
  /\ UNCHANGED <<timeVars, upload, away, pc, passVars, rested, stopVars>>

Fresh(n) == {j \in JobId : issued < j /\ j <= issued + n}

\* The window asks for connected devices whose credentials are known, each of
\* them once and at least one; which ones these are is not known here.
BuildTargets == (SUBSET Device) \ {{}}

StartBatch(ips) ==
  /\ CanStartBatch
  /\ issued + Cardinality(ips) <= MaxJobs
  /\ \E assignment \in [Fresh(Cardinality(ips)) -> ips] :
       /\ \A i, j \in DOMAIN assignment : assignment[i] = assignment[j] => i = j
       /\ Create(assignment)

\* One new job for each failed one of the current batch.
RetryFailedOnly ==
  /\ CanStartBatch /\ InState("failed") # {}
  /\ issued + Cardinality(InState("failed")) <= MaxJobs
  /\ \E retryOf \in [Fresh(Cardinality(InState("failed"))) -> InState("failed")] :
       /\ \A i, j \in DOMAIN retryOf : i < j => retryOf[i] < retryOf[j]
       /\ Create([j \in DOMAIN retryOf |-> target[retryOf[j]]])

Stop ==
  /\ MayStop /\ ~stopping
  /\ stopping' = TRUE
  /\ UNCHANGED <<jobVars, timeVars, upload, away, pc, passVars, rested, executorUp>>

\* After the join, which waits two seconds at most.
Shutdown ==
  /\ stopping /\ executorUp
  /\ executorUp' = FALSE
  /\ UNCHANGED <<jobVars, timeVars, upload, away, pc, passVars, rested, stopping>>

----------------------------------------------------------------------------
(* The supervisor thread.                                                  *)

Promote ==
  /\ pc = "promote" /\ ~stopping
  /\ Change(InState("queued"), "upload_pending")
  /\ pc' = "submit" /\ rested' = FALSE
  /\ UNCHANGED <<target, issued, current, timeVars, upload, away, passVars, stopVars>>

Running == {j \in JobId : upload[j] = "running"}

FreeSlots == Parallelism - Cardinality(Running)

\* The first pending jobs, as many as there are free slots.
ToSubmit ==
  {j \in InState("upload_pending") :
     Cardinality({i \in InState("upload_pending") : i < j}) < FreeSlots}

Uploads(js) ==
  /\ upload' = [j \in JobId |-> IF j \in js THEN "running" ELSE upload[j]]
  /\ Change(js, "uploading")
  /\ rested' = FALSE
  /\ UNCHANGED <<target, issued, current, timeVars, away, passVars, stopVars>>

Submit ==
  /\ pc = "submit"
  /\ executorUp \/ ToSubmit = {}
  /\ Uploads(ToSubmit)
  /\ pc' = "collect"

\* submit raises after the shutdown, which may come between two jobs: the
\* pass is abandoned.
SubmitRaises ==
  /\ pc = "submit" /\ ~executorUp
  /\ \E js \in SUBSET ToSubmit :
       /\ js # ToSubmit
       /\ \A j \in js, i \in ToSubmit \ js : j < i
       /\ Uploads(js)
  /\ pc' = "promote"

Finished(result) == {j \in JobId : upload[j] = result}

\* Every finished future of every batch is looked at.  The future of a failed
\* upload is kept, so that its job is marked failed again in each pass.
Collect ==
  LET accepted == Finished("accepted") \cup Finished("dropped")
  IN /\ pc = "collect"
     /\ state' = [j \in JobId |-> IF j \in accepted THEN "rebooting"
                                  ELSE IF j \in Finished("error") THEN "failed"
                                  ELSE state[j]]
     /\ upload' = [j \in JobId |-> IF j \in accepted THEN "none" ELSE upload[j]]
     /\ away' = (away \ accepted) \cup Finished("dropped")
     /\ attempts' = [j \in JobId |-> IF j \in accepted THEN 0 ELSE attempts[j]]
     /\ age' = [j \in JobId |-> IF j \in accepted THEN 0 ELSE age[j]]
     /\ since' = [j \in JobId |-> IF j \in accepted THEN 0 ELSE since[j]]
     /\ pc' = "plan" /\ rested' = FALSE
     /\ UNCHANGED <<target, issued, current, passVars, stopVars>>

InWindow == {j \in current : state[j] \in Window}

\* Mutant: the deadline is computed with the interval.
PlanWithInterval ==
  /\ pc = "plan"
  /\ expired' = {j \in InWindow : age[j] >= Interval}
  /\ due' = {j \in InWindow : age[j] < Interval /\ since[j] >= Interval}
  /\ pc' = "reconnect" /\ rested' = FALSE
  /\ UNCHANGED <<jobVars, timeVars, upload, away, stopVars>>

\* Mutant: nothing ends the polling of a job.
PlanWithoutDeadline ==
  /\ pc = "plan"
  /\ expired' = {}
  /\ due' = {j \in InWindow : since[j] >= Interval}
  /\ pc' = "reconnect" /\ rested' = FALSE
  /\ UNCHANGED <<jobVars, timeVars, upload, away, stopVars>>

\* The clock and the jobs are read once, before the first probe.
PlanReconnect ==
  /\ pc = "plan"
  /\ expired' = {j \in InWindow : age[j] > Timeout}
  /\ due' = {j \in InWindow : age[j] <= Timeout /\ since[j] >= Interval}
  /\ pc' = "reconnect" /\ rested' = FALSE
  /\ UNCHANGED <<jobVars, timeVars, upload, away, stopVars>>

IsNext(j) ==
  /\ pc = "reconnect"
  /\ j \in expired \cup due
  /\ \A i \in expired \cup due : j <= i

TimedOut(j) ==
  /\ IsNext(j) /\ j \in expired
  /\ MarkFailed({j})
  /\ expired' = expired \ {j}
  /\ rested' = FALSE
  /\ UNCHANGED <<target, issued, current, timeVars, upload, away, pc, due, stopVars>>

Probed(j) ==
  /\ IsNext(j) /\ j \in due
  /\ due' = due \ {j}
  /\ rested' = FALSE
  /\ UNCHANGED <<target, issued, current, age, upload, pc, expired, stopVars>>

\* Mutant: the attempts count down.
KeepPollingDown(j) ==
  /\ Change({j}, "reconnecting")
  /\ attempts' = [attempts EXCEPT ![j] = @ - 1]
  /\ since' = [since EXCEPT ![j] = 0]

\* Mutant: the time of the next probe is not set.
KeepPollingAtOnce(j) ==
  /\ Change({j}, "reconnecting")
  /\ attempts' = [attempts EXCEPT ![j] = @ + 1]
  /\ UNCHANGED since

KeepPolling(j) ==
  /\ Change({j}, "reconnecting")
  /\ attempts' = [attempts EXCEPT ![j] = @ + 1]
  /\ since' = [since EXCEPT ![j] = 0]

\* Mutant: an answer is a success even if the device never left.
ProbeAnsweredIsSuccess(j) ==
  /\ Probed(j)
  /\ Change({j}, "success")
  /\ UNCHANGED <<attempts, since, away>>

ProbeAnswered(j) ==
  /\ Probed(j)
  /\ IF j \in away
     THEN Change({j}, "success") /\ UNCHANGED <<attempts, since>>
     ELSE KeepPolling(j)
  /\ UNCHANGED away

ProbeFails(j) ==
  /\ Probed(j)
  /\ KeepPolling(j)
  /\ away' = away \cup {j}

\* try_probe_reconnect lets through what is no AppError, for instance the
\* ValueError of parse_www_authenticate_digest: the pass is abandoned.
ProbeRaises(j) ==
  /\ IsNext(j) /\ j \in due
  /\ target[j] \in Faulty
  /\ expired' = {} /\ due' = {}
  /\ pc' = "promote" /\ rested' = FALSE
  /\ UNCHANGED <<jobVars, timeVars, upload, away, stopVars>>

EndPass ==
  /\ pc = "reconnect"
  /\ expired \cup due = {}
  /\ pc' = "promote" /\ rested' = FALSE
  /\ UNCHANGED <<jobVars, timeVars, upload, away, passVars, stopVars>>

Exit ==
  /\ pc = "promote" /\ stopping
  /\ pc' = "exited"
  /\ UNCHANGED <<jobVars, timeVars, upload, away, passVars, rested, stopVars>>

SupervisorThread ==
  \/ Promote \/ Submit \/ SubmitRaises \/ Collect \/ PlanReconnect \/ EndPass \/ Exit
  \/ \E j \in JobId : TimedOut(j) \/ ProbeAnswered(j) \/ ProbeFails(j) \/ ProbeRaises(j)

----------------------------------------------------------------------------
(* Upload workers and time.                                                *)

UploadEnds(j, result) ==
  /\ upload[j] = "running"
  /\ upload' = [upload EXCEPT ![j] = result]
  /\ UNCHANGED <<jobVars, timeVars, away, pc, passVars, rested, stopVars>>

Worker(j) == \E result \in {"accepted", "dropped", "error"} : UploadEnds(j, result)

Later(clock, limit) ==
  [j \in JobId |-> IF state[j] \in Window /\ clock[j] < limit THEN clock[j] + 1
                   ELSE clock[j]]

\* The pause between passes and a probe take one unit at most.
Tick ==
  /\ pc = "promote" \/ (pc = "reconnect" /\ due # {})
  /\ ~rested /\ rested' = TRUE
  /\ age' = Later(age, Timeout + 1)
  /\ since' = Later(since, Interval)
  /\ UNCHANGED <<jobVars, attempts, upload, away, pc, passVars, stopVars>>

----------------------------------------------------------------------------
Next ==
  \/ \E ips \in BuildTargets : StartBatch(ips)
  \/ RetryFailedOnly \/ Stop \/ Shutdown
  \/ SupervisorThread
  \/ \E j \in JobId : Worker(j)
  \/ Tick

Spec == Init /\ [][Next]_vars

\* The thread loops, uploads have a timeout, and however short a pause or a
\* probe is, time passes in the long run.
FairSpec ==
  /\ Spec
  /\ WF_vars(SupervisorThread)
  /\ WF_vars(\E j \in JobId : Worker(j))
  /\ SF_vars(Tick)

----------------------------------------------------------------------------
(* Properties.                                                             *)

\* Every variable holds values of its type.
TypeOK ==
  /\ state \in [JobId -> JobState \cup {"unused"}]
  /\ target \in [JobId -> Device \cup {NoTarget}]
  /\ issued \in 0..MaxJobs
  /\ current \in SUBSET JobId
  /\ attempts \in [JobId -> Nat]
  /\ age \in [JobId -> 0..(Timeout + 1)]
  /\ since \in [JobId -> 0..Interval]
  /\ upload \in [JobId -> {"none", "running", "accepted", "dropped", "error"}]
  /\ away \in SUBSET JobId
  /\ pc \in {"promote", "submit", "collect", "plan", "reconnect", "exited"}
  /\ expired \in SUBSET JobId /\ due \in SUBSET JobId
  /\ rested \in BOOLEAN
  /\ stopping \in BOOLEAN /\ executorUp \in BOOLEAN

\* The counter shown to the operator, "(n/36)", never passes its maximum,
\* though nothing in the supervisor compares the two: the deadline does it.
AttemptsWithinMaximum == \A j \in JobId : attempts[j] <= MaxAttempts

Unsettled(j) == upload[j] = "running" \/ state[j] \notin Verdict \cup {"unused"}

\* No two jobs of a device are under way, in one batch, in two, or in a retry
\* started while an upload worker still runs: no two uploads reach a device.
OneJobPerDevice ==
  \A i, j \in JobId :
    Unsettled(i) /\ Unsettled(j) /\ target[i] = target[j] => i = j

\* Threads, batches and retries keep each job to the flow of its states:
\* verdicts are final and a success is a return after a departure.
FollowsFlow == Flow!Spec

\* One failing device does not stop the batch (README.md: the failure of one
\* job must not stop the whole batch): no job is given up for its device's
\* silence without the device having been asked, save a job whose own probe
\* raises, which leaves no trace of having been asked.
AskedBeforeGivenUp ==
  [][\A j \in JobId :
       state[j] = "rebooting" /\ state'[j] = "failed" => target[j] \in Faulty]_vars

\* That fails behind a probe that raises and ends every pass, and nowhere
\* else: deadline, late answers, upload workers, retries and shutdown never
\* give a job up unasked unless a job of its batch, listed before it, is of a
\* device whose probe may raise.  It takes a batch whose probes fit into the
\* timeout: the clock is read once for a pass that probes one device after
\* the other.
UnaskedOnlyBehindRaise ==
  [][\A j \in JobId :
       state[j] = "rebooting" /\ state'[j] = "failed" =>
         \E i \in current : i <= j /\ target[i] \in Faulty]_vars

\* Once a batch has begun, each job gets its verdict unless the program is
\* closed, even when probes of other jobs raise and end the pass.
EveryJobGetsVerdict ==
  (\E j \in JobId : state[j] = "queued")
    ~> (stopping \/ \A j \in JobId : state[j] \in Verdict \cup {"unused"})

=============================================================================
