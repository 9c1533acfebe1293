------------------------ MODULE FirmwareBatch_proofs ------------------------
(***************************************************************************)
(* Proofs about FirmwareBatch, for every number of devices, jobs and slots  *)
(* and every interval and timeout: type correctness, one job per device,    *)
(* the bound of the attempt counter, the refinement of FirmwareJobFlow and  *)
(* what it means for a job, and when no job is given up unasked.            *)
(***************************************************************************)
EXTENDS FirmwareBatch, FiniteSetTheorems, TLAPS

AllStates == {"queued", "upload_pending", "uploading", "rebooting",
              "reconnecting", "success", "failed", "unused"}

LEMMA States ==
  /\ JobState \cup {"unused"} = AllStates
  /\ Window = {"rebooting", "reconnecting"}
  /\ Verdict = {"success", "failed"}
BY DEF JobState, Window, Verdict, AllStates, Flow!JobState, Flow!Window,
   Flow!Verdict

\* The jobs made for n targets are the next n numbers.
LEMMA FreshJobs ==
  ASSUME issued \in 0..MaxJobs, NEW n \in Nat, issued + n <= MaxJobs
  PROVE  /\ Fresh(n) = (issued + 1)..(issued + n)
         /\ Cardinality(Fresh(n)) = n
<1>0. MaxJobs \in Nat
  BY FirmwareAssumption
<1>1. Fresh(n) = (issued + 1)..(issued + n)
  BY <1>0 DEF Fresh, JobId
<1>2. Cardinality((issued + 1)..(issued + n)) = n
  BY FS_Interval
<1> QED
  BY <1>1, <1>2

LEMMA SubsetOfJobsFinite ==
  ASSUME NEW S \in SUBSET JobId
  PROVE  IsFiniteSet(S) /\ Cardinality(S) \in Nat
<1>1. IsFiniteSet(JobId)
  BY FirmwareAssumption, FS_Interval DEF JobId
<1> QED
  BY <1>1, FS_Subset, FS_CardinalityType

----------------------------------------------------------------------------
(* The shape of a new batch, for StartBatch and RetryFailedOnly alike.     *)

NewBatch ==
  /\ CanStartBatch
  /\ \E n \in Nat :
       /\ issued + n <= MaxJobs
       /\ issued' = issued + n
       /\ current' = (issued + 1)..(issued + n)
  /\ \E assignment \in [current' -> Device] :
       /\ \A i, j \in current' : assignment[i] = assignment[j] => i = j
       /\ target' = [j \in JobId |-> IF j \in current' THEN assignment[j]
                                     ELSE target[j]]
  /\ Change(current', "queued")
  /\ UNCHANGED <<timeVars, upload, away, pc, passVars, rested, stopVars>>

\* The jobs of the current batch have a device each, and each its own.
DistinctTargets ==
  /\ \A i \in current : target[i] \in Device
  /\ \A i, j \in current : target[i] = target[j] => i = j

LEMMA StartMakesBatch ==
  ASSUME TypeOK, NEW ips \in BuildTargets, StartBatch(ips)
  PROVE  NewBatch
<1>0. ips \in SUBSET Device /\ ips # {}
  BY DEF BuildTargets
<1>1. Cardinality(ips) \in Nat
  BY <1>0, FirmwareAssumption, FS_Subset, FS_CardinalityType
<1> DEFINE n == Cardinality(ips)
<1>2. issued + n <= MaxJobs /\ issued \in 0..MaxJobs
  BY DEF StartBatch, TypeOK
<1>3. /\ Fresh(n) = (issued + 1)..(issued + n)
      /\ Cardinality(Fresh(n)) = n
  BY <1>1, <1>2, FreshJobs
<1>4. PICK assignment \in [Fresh(n) -> ips] :
        /\ \A i, j \in DOMAIN assignment : assignment[i] = assignment[j] => i = j
        /\ Create(assignment)
  BY DEF StartBatch
<1>5. DOMAIN assignment = Fresh(n)
  BY <1>4
<1>6. current' = Fresh(n) /\ issued' = issued + n
  BY <1>3, <1>4, <1>5 DEF Create
<1>7. assignment \in [current' -> Device]
  BY <1>0, <1>4, <1>6
<1> HIDE DEF n
<1> QED
  BY <1>1, <1>2, <1>3, <1>4, <1>5, <1>6, <1>7 DEF NewBatch, Create, StartBatch, n

LEMMA RetryMakesBatch ==
  ASSUME TypeOK, DistinctTargets, RetryFailedOnly
  PROVE  NewBatch
<1> DEFINE F == InState("failed")
           n == Cardinality(F)
<1>1. F \in SUBSET JobId /\ F \subseteq current
  BY DEF InState, TypeOK
<1>2. n \in Nat
  BY <1>1, SubsetOfJobsFinite
<1>3. issued + n <= MaxJobs /\ issued \in 0..MaxJobs
  BY DEF RetryFailedOnly, TypeOK
<1>4. /\ Fresh(n) = (issued + 1)..(issued + n)
      /\ Cardinality(Fresh(n)) = n
  BY <1>2, <1>3, FreshJobs
<1>5. PICK retryOf \in [Fresh(n) -> F] :
        /\ \A i, j \in DOMAIN retryOf : i < j => retryOf[i] < retryOf[j]
        /\ Create([j \in DOMAIN retryOf |-> target[retryOf[j]]])
  BY DEF RetryFailedOnly
<1> DEFINE assignment == [j \in DOMAIN retryOf |-> target[retryOf[j]]]
<1>6. DOMAIN retryOf = Fresh(n) /\ DOMAIN assignment = Fresh(n)
  BY <1>5
<1>7. current' = Fresh(n) /\ issued' = issued + n
  BY <1>4, <1>5, <1>6 DEF Create
<1>8. \A i \in Fresh(n) : retryOf[i] \in F /\ i \in Int
  BY <1>4, <1>5, <1>3, <1>2
<1>9. assignment \in [current' -> Device]
  BY <1>1, <1>6, <1>7, <1>8 DEF DistinctTargets
<1>10. ASSUME NEW i \in Fresh(n), NEW j \in Fresh(n), assignment[i] = assignment[j]
       PROVE  i = j
  <2>1. retryOf[i] = retryOf[j]
    BY <1>1, <1>6, <1>8, <1>10 DEF DistinctTargets
  <2>2. retryOf[i] \in Int /\ i \in Int /\ j \in Int
    BY <1>1, <1>8, FirmwareAssumption DEF JobId
  <2>3. ~(i < j) /\ ~(j < i)
    BY <1>5, <1>6, <2>1, <2>2
  <2> QED
    BY <2>2, <2>3
<1> HIDE DEF n, F
<1>11. /\ target' = [j \in JobId |-> IF j \in current' THEN assignment[j]
                                     ELSE target[j]]
       /\ Change(current', "queued")
       /\ UNCHANGED <<timeVars, upload, away, pc, passVars, rested, stopVars>>
  BY <1>5, <1>6, <1>7 DEF Create
<1>12. \A i, j \in current' : assignment[i] = assignment[j] => i = j
  BY <1>7, <1>10
<1> HIDE DEF assignment
<1>13. CanStartBatch
  BY DEF RetryFailedOnly
<1> QED
  BY <1>2, <1>3, <1>4, <1>7, <1>9, <1>11, <1>12, <1>13 DEF NewBatch

----------------------------------------------------------------------------
(* Type correctness.                                                       *)

LEMMA ChangeType ==
  ASSUME TypeOK, NEW js, NEW s \in JobState, Change(js, s)
  PROVE  state' \in [JobId -> JobState \cup {"unused"}]
BY DEF TypeOK, Change

LEMMA NewBatchType == TypeOK /\ NewBatch => TypeOK'
<1> SUFFICES ASSUME TypeOK, NewBatch PROVE TypeOK'
  OBVIOUS
<1>1. PICK n \in Nat :
        /\ issued + n <= MaxJobs
        /\ issued' = issued + n
        /\ current' = (issued + 1)..(issued + n)
  BY DEF NewBatch
<1>2. issued' \in 0..MaxJobs /\ current' \in SUBSET JobId
  BY <1>1, FirmwareAssumption DEF TypeOK, JobId
<1>3. target' \in [JobId -> Device \cup {NoTarget}]
  BY DEF NewBatch, TypeOK
<1>4. state' \in [JobId -> JobState \cup {"unused"}]
  BY ChangeType, States DEF NewBatch, AllStates, JobState, Flow!JobState
<1>5. UNCHANGED <<timeVars, upload, away, pc, passVars, rested, stopVars>>
  BY DEF NewBatch
<1> QED
  BY <1>2, <1>3, <1>4, <1>5 DEF TypeOK, timeVars, passVars, stopVars

LEMMA PassType ==
  ASSUME TypeOK,
         \/ Promote \/ Submit \/ SubmitRaises \/ Collect \/ PlanReconnect
         \/ EndPass \/ Exit
  PROVE  TypeOK'
<1>0. {"queued", "upload_pending", "uploading", "rebooting", "failed"} \subseteq JobState
  BY DEF JobState, Flow!JobState, Flow!Window, Flow!Verdict
<1>1. CASE Promote
  <2>1. state' \in [JobId -> JobState \cup {"unused"}]
    BY <1>0, <1>1, ChangeType DEF Promote
  <2> QED
    BY <1>1, <2>1 DEF Promote, TypeOK, timeVars, passVars, stopVars
<1>2. CASE Submit \/ SubmitRaises
  <2>1. PICK js : Uploads(js)
    BY <1>2 DEF Submit, SubmitRaises
  <2>2. state' \in [JobId -> JobState \cup {"unused"}]
    BY <1>0, <2>1, ChangeType DEF Uploads
  <2>3. upload' \in [JobId -> {"none", "running", "accepted", "dropped", "error"}]
    BY <2>1 DEF Uploads, TypeOK
  <2>4. pc' \in {"collect", "promote"}
    BY <1>2 DEF Submit, SubmitRaises
  <2> QED
    BY <2>1, <2>2, <2>3, <2>4 DEF Uploads, TypeOK, timeVars, passVars, stopVars
<1>4. CASE Collect
  <2>1. state' \in [JobId -> JobState \cup {"unused"}]
    BY <1>0, <1>4 DEF Collect, TypeOK
  <2>2. upload' \in [JobId -> {"none", "running", "accepted", "dropped", "error"}]
    BY <1>4 DEF Collect, TypeOK
  <2>3. away' \in SUBSET JobId
    BY <1>4 DEF Collect, TypeOK, Finished
  <2>4. attempts' \in [JobId -> Nat]
    BY <1>4 DEF Collect, TypeOK
  <2>5. 0 \in 0..(Timeout + 1) /\ 0 \in 0..Interval
    BY FirmwareAssumption
  <2>6. age' \in [JobId -> 0..(Timeout + 1)] /\ since' \in [JobId -> 0..Interval]
    BY <1>4, <2>5 DEF Collect, TypeOK
  <2>7. /\ pc' = "plan" /\ rested' = FALSE
        /\ UNCHANGED <<target, issued, current, passVars, stopVars>>
    BY <1>4 DEF Collect
  <2> QED
    BY <2>1, <2>2, <2>3, <2>4, <2>6, <2>7 DEF TypeOK, passVars, stopVars
<1>5. CASE PlanReconnect
  BY <1>5 DEF PlanReconnect, TypeOK, InWindow, jobVars, timeVars, stopVars
<1>6. CASE EndPass
  BY <1>6 DEF EndPass, TypeOK, jobVars, timeVars, passVars, stopVars
<1>7. CASE Exit
  BY <1>7 DEF Exit, TypeOK, jobVars, timeVars, passVars, stopVars
<1> QED
  BY <1>1, <1>2, <1>4, <1>5, <1>6, <1>7

LEMMA JobType ==
  ASSUME TypeOK, NEW j \in JobId,
         TimedOut(j) \/ ProbeAnswered(j) \/ ProbeFails(j) \/ ProbeRaises(j)
  PROVE  TypeOK'
<1>0. {"reconnecting", "success", "failed"} \subseteq JobState
  BY DEF JobState, Flow!JobState, Flow!Window, Flow!Verdict
<1>1. CASE TimedOut(j)
  <2>1. state' \in [JobId -> JobState \cup {"unused"}]
    BY <1>0, <1>1, ChangeType DEF TimedOut, MarkFailed
  <2> QED
    BY <1>1, <2>1 DEF TimedOut, MarkFailed, TypeOK, timeVars, stopVars
<1>2. ASSUME KeepPolling(j)
      PROVE  /\ state' \in [JobId -> JobState \cup {"unused"}]
             /\ attempts' \in [JobId -> Nat]
             /\ since' \in [JobId -> 0..Interval]
  <2>1. 0 \in 0..Interval
    BY FirmwareAssumption
  <2> QED
    BY <1>0, <1>2, <2>1, ChangeType DEF KeepPolling, TypeOK
<1>3. ASSUME Probed(j), state' \in [JobId -> JobState \cup {"unused"}],
             attempts' \in [JobId -> Nat], since' \in [JobId -> 0..Interval],
             away' \in SUBSET JobId
      PROVE  TypeOK'
  BY <1>3 DEF Probed, TypeOK, stopVars
<1>4. CASE ProbeAnswered(j)
  <2>1. CASE j \in away
    <3>1. state' \in [JobId -> JobState \cup {"unused"}]
      BY <1>0, <1>4, <2>1, ChangeType DEF ProbeAnswered
    <3> QED
      BY <1>3, <1>4, <2>1, <3>1 DEF ProbeAnswered, TypeOK
  <2>2. CASE j \notin away
    BY <1>2, <1>3, <1>4, <2>2 DEF ProbeAnswered, TypeOK
  <2> QED
    BY <2>1, <2>2
<1>5. CASE ProbeFails(j)
  BY <1>2, <1>3, <1>5 DEF ProbeFails, TypeOK
<1>6. CASE ProbeRaises(j)
  BY <1>6 DEF ProbeRaises, TypeOK, jobVars, timeVars, stopVars
<1> QED
  BY <1>1, <1>4, <1>5, <1>6

LEMMA TickType ==
  ASSUME TypeOK, Tick
  PROVE  TypeOK'
<1>1. Timeout \in Nat /\ Interval \in Nat
  BY FirmwareAssumption
<1>2. age' \in [JobId -> 0..(Timeout + 1)]
  BY <1>1 DEF Tick, Later, TypeOK
<1>3. since' \in [JobId -> 0..Interval]
  BY <1>1 DEF Tick, Later, TypeOK
<1> QED
  BY <1>2, <1>3 DEF Tick, TypeOK, jobVars, passVars, stopVars

\* The steps of the system, with the two that make a batch seen as one.
LEMMA Steps ==
  ASSUME TypeOK, DistinctTargets, [Next]_vars
  PROVE  \/ NewBatch
         \/ Stop \/ Shutdown
         \/ Promote \/ Submit \/ SubmitRaises \/ Collect \/ PlanReconnect
         \/ EndPass \/ Exit
         \/ \E j \in JobId : \/ TimedOut(j) \/ ProbeAnswered(j) \/ ProbeFails(j)
                             \/ ProbeRaises(j)
         \/ \E j \in JobId : Worker(j)
         \/ Tick
         \/ UNCHANGED vars
<1>1. CASE \E ips \in BuildTargets : StartBatch(ips)
  BY <1>1, StartMakesBatch
<1>2. CASE RetryFailedOnly
  BY <1>2, RetryMakesBatch
<1> QED
  BY <1>1, <1>2 DEF Next, SupervisorThread

----------------------------------------------------------------------------
(* The inductive invariant.                                                *)

\* The current batch: its jobs are the last numbers, each of its own device,
\* and only they can be without a verdict.
BatchInv ==
  /\ \A j \in current : j <= issued
  /\ \A j \in JobId : issued < j => state[j] = "unused"
  /\ \A j \in JobId : state[j] \in Verdict \cup {"unused"} \/ j \in current
  /\ DistinctTargets

\* A future that is not settled belongs to a job that is uploading.
FutureInv ==
  \A j \in JobId :
    /\ upload[j] \in {"running", "accepted", "dropped"} => state[j] = "uploading"
    /\ upload[j] = "error" => state[j] \in {"uploading", "failed"}
    /\ j \in away => state[j] \in Window \cup Verdict

\* What a pass still has to treat is still in its reboot window.
PassInv ==
  /\ \A j \in expired \cup due : state[j] \in Window
  /\ expired \cap due = {}

Inv == BatchInv /\ FutureInv /\ PassInv

LEMMA InitInv == Init => TypeOK /\ Inv
<1> SUFFICES ASSUME Init PROVE TypeOK /\ Inv
  OBVIOUS
<1>1. TypeOK
  <2>1. 0 \in 0..MaxJobs /\ 0 \in 0..(Timeout + 1) /\ 0 \in 0..Interval
    BY FirmwareAssumption
  <2>2. /\ issued \in 0..MaxJobs
        /\ age \in [JobId -> 0..(Timeout + 1)] /\ since \in [JobId -> 0..Interval]
    BY <2>1 DEF Init
  <2> QED
    BY <2>2 DEF Init, TypeOK
<1>2. Inv
  BY DEF Init, Inv, BatchInv, FutureInv, PassInv, DistinctTargets
<1> QED
  BY <1>1, <1>2

LEMMA NewBatchInv ==
  ASSUME TypeOK, Inv, NewBatch
  PROVE  Inv'
<1>1. PICK n \in Nat :
        /\ issued + n <= MaxJobs
        /\ issued' = issued + n
        /\ current' = (issued + 1)..(issued + n)
  BY DEF NewBatch
<1>2. /\ issued \in Nat /\ MaxJobs \in Nat
      /\ \A j \in JobId : j \in Nat
  BY FirmwareAssumption DEF TypeOK, JobId
<1>3. \A j \in JobId : state'[j] = IF j \in current' THEN "queued" ELSE state[j]
  BY DEF NewBatch, Change
<1>4. \A j \in JobId : state[j] \in Verdict \cup {"unused"}
  BY DEF NewBatch, CanStartBatch, Inv, BatchInv
<1>5. \A j \in JobId : j \in current' => state[j] = "unused"
  BY <1>1, <1>2 DEF Inv, BatchInv
<1>6. UNCHANGED <<upload, away, expired, due>>
  BY DEF NewBatch, passVars
<1>7. PICK assignment \in [current' -> Device] :
        /\ \A i, j \in current' : assignment[i] = assignment[j] => i = j
        /\ target' = [j \in JobId |-> IF j \in current' THEN assignment[j]
                                      ELSE target[j]]
  BY DEF NewBatch
<1>8. current' \subseteq JobId
  BY <1>1, <1>2 DEF JobId
<1>9. DistinctTargets'
  BY <1>7, <1>8 DEF DistinctTargets
<1>10. BatchInv'
  BY <1>1, <1>2, <1>3, <1>4, <1>5, <1>9 DEF Inv, BatchInv, Verdict
<1>11. FutureInv'
  BY <1>3, <1>4, <1>5, <1>6, States DEF Inv, FutureInv
<1>12. PassInv'
  <2>1. \A j \in expired \cup due : j \in JobId /\ state[j] \in Window
    BY DEF Inv, PassInv, TypeOK
  <2>2. expired \cup due = {}
    BY <1>4, <2>1, States
  <2> QED
    BY <1>6, <2>2 DEF PassInv
<1> QED
  BY <1>10, <1>11, <1>12 DEF Inv

LEMMA BatchKept ==
  ASSUME TypeOK, BatchInv, UNCHANGED <<target, issued, current>>,
         \A j \in JobId : state'[j] = state[j] \/ j \in current
  PROVE  BatchInv'
<1>1. DistinctTargets'
  BY DEF BatchInv, DistinctTargets
<1>2. issued \in Int /\ \A j \in JobId : j \in Int
  BY FirmwareAssumption DEF TypeOK, JobId
<1>3. \A j \in JobId : issued < j => j \notin current
  BY <1>2 DEF BatchInv
<1>4. \A j \in JobId : issued' < j => state'[j] = "unused"
  BY <1>3 DEF BatchInv
<1>5. \A j \in JobId : state'[j] \in Verdict \cup {"unused"} \/ j \in current'
  BY DEF BatchInv
<1>6. \A j \in current' : j <= issued'
  BY DEF BatchInv
<1> QED
  BY <1>1, <1>4, <1>5, <1>6 DEF BatchInv

\* A job without a verdict is one of the current batch.
LEMMA OpenIsCurrent ==
  ASSUME BatchInv, NEW j \in JobId,
         state[j] \in {"queued", "upload_pending", "uploading"} \cup Window
  PROVE  j \in current
BY States DEF BatchInv

LEMMA PassKeepsInv ==
  ASSUME TypeOK, Inv,
         \/ Promote \/ Submit \/ SubmitRaises \/ Collect \/ PlanReconnect
         \/ EndPass \/ Exit
  PROVE  Inv'
<1>1. ASSUME UNCHANGED <<target, issued, current, away, expired, due>>,
             NEW from \in {"queued", "upload_pending"},
             NEW to \in {"upload_pending", "uploading"},
             \A j \in JobId : \/ state'[j] = state[j] /\ upload'[j] = upload[j]
                              \/ /\ j \in current /\ state[j] = from
                                 /\ state'[j] = to
                                 /\ \/ upload'[j] = upload[j]
                                    \/ upload'[j] = "running" /\ to = "uploading"
      PROVE  Inv'
  <2>1. BatchInv'
    BY <1>1, BatchKept DEF Inv
  <2>2. FutureInv'
    BY <1>1, States DEF Inv, FutureInv
  <2>3. PassInv'
    <3>1. \A j \in expired \cup due : j \in JobId
      BY DEF TypeOK
    <3> QED
      BY <1>1, <3>1, States DEF Inv, PassInv
  <2> QED
    BY <2>1, <2>2, <2>3 DEF Inv
<1>2. CASE Promote
  BY <1>1, <1>2 DEF Promote, Change, InState, passVars, TypeOK
<1>3. CASE Submit \/ SubmitRaises
  <2>1. PICK js \in SUBSET ToSubmit : Uploads(js)
    BY <1>3 DEF Submit, SubmitRaises
  <2>2. \A j \in js : j \in current /\ state[j] = "upload_pending"
    BY <2>1 DEF ToSubmit, InState
  <2> QED
    BY <1>1, <2>1, <2>2 DEF Uploads, Change, passVars, TypeOK
<1>4. CASE Collect
  <2>1. \A j \in JobId :
          state'[j] = IF upload[j] \in {"accepted", "dropped"} THEN "rebooting"
                      ELSE IF upload[j] = "error" THEN "failed" ELSE state[j]
    BY <1>4 DEF Collect, Finished
  <2>2. \A j \in JobId : upload'[j] = IF upload[j] \in {"accepted", "dropped"}
                                      THEN "none" ELSE upload[j]
    BY <1>4 DEF Collect, Finished, TypeOK
  <2>3. UNCHANGED <<target, issued, current, expired, due>>
    BY <1>4 DEF Collect, passVars
  <2>4. \A j \in JobId : upload[j] \in {"accepted", "dropped"} => state[j] = "uploading"
    BY DEF Inv, FutureInv
  <2>5. \A j \in JobId : state'[j] = state[j] \/ state[j] = "uploading"
    BY <2>1, <2>4 DEF Inv, FutureInv
  <2>6. BatchInv'
    BY <2>3, <2>5, BatchKept, OpenIsCurrent DEF Inv
  <2>7. \A j \in away' : j \in away \/ upload[j] = "dropped"
    BY <1>4 DEF Collect, Finished
  <2>8. FutureInv'
    BY <2>1, <2>2, <2>7, States DEF Inv, FutureInv
  <2>9. PassInv'
    <3>1. \A j \in expired \cup due : j \in JobId
      BY DEF TypeOK
    <3> QED
      BY <2>3, <2>5, <3>1, States DEF Inv, PassInv
  <2> QED
    BY <2>6, <2>8, <2>9 DEF Inv
<1>5. CASE EndPass \/ Exit
  <2>1. UNCHANGED <<state, target, issued, current, upload, away, expired, due>>
    BY <1>5 DEF EndPass, Exit, jobVars, passVars
  <2> QED
    BY <2>1 DEF Inv, BatchInv, FutureInv, PassInv, DistinctTargets
<1>6. CASE PlanReconnect
  <2>1. UNCHANGED <<state, target, issued, current, upload, away>>
    BY <1>6 DEF PlanReconnect, jobVars
  <2>2. BatchInv' /\ FutureInv'
    BY <2>1 DEF Inv, BatchInv, FutureInv, DistinctTargets
  <2>3. \A j \in InWindow : state[j] \in Window /\ age[j] \in Int
    BY FirmwareAssumption DEF InWindow, TypeOK
  <2>4. PassInv'
    BY <1>6, <2>1, <2>3, FirmwareAssumption DEF PlanReconnect, PassInv
  <2> QED
    BY <2>2, <2>4 DEF Inv
<1> QED
  BY <1>2, <1>3, <1>4, <1>5, <1>6

LEMMA JobKeepsInv ==
  ASSUME TypeOK, Inv, NEW j \in JobId,
         TimedOut(j) \/ ProbeAnswered(j) \/ ProbeFails(j) \/ ProbeRaises(j)
  PROVE  Inv'
<1>1. ASSUME UNCHANGED <<target, issued, current, upload>>,
             NEW to \in {"reconnecting", "success", "failed"},
             Change({j}, to), state[j] \in Window,
             away' \in {away, away \cup {j}},
             expired' \cup due' \subseteq (expired \cup due) \ {j},
             expired' \subseteq expired, due' \subseteq due
      PROVE  Inv'
  <2>1. j \in current
    BY <1>1, OpenIsCurrent DEF Inv
  <2>2. \A i \in JobId : state'[i] = IF i = j THEN to ELSE state[i]
    BY <1>1 DEF Change
  <2>3. BatchInv'
    BY <1>1, <2>1, <2>2, BatchKept DEF Inv
  <2>4. FutureInv'
    BY <1>1, <2>2, States DEF Inv, FutureInv
  <2>5. PassInv'
    <3>1. \A i \in expired \cup due : i \in JobId
      BY DEF TypeOK
    <3> QED
      BY <1>1, <2>2, <3>1 DEF Inv, PassInv
  <2> QED
    BY <2>3, <2>4, <2>5 DEF Inv
<1>2. j \in expired \cup due => state[j] \in Window
  BY DEF Inv, PassInv
<1>3. expired \cap due = {}
  BY DEF Inv, PassInv
<1>4. CASE TimedOut(j)
  BY <1>1, <1>2, <1>3, <1>4 DEF TimedOut, MarkFailed
<1>5. CASE ProbeAnswered(j)
  BY <1>1, <1>2, <1>3, <1>5 DEF ProbeAnswered, Probed, KeepPolling
<1>6. CASE ProbeFails(j)
  BY <1>1, <1>2, <1>3, <1>6 DEF ProbeFails, Probed, KeepPolling
<1>7. CASE ProbeRaises(j)
  <2>1. /\ UNCHANGED <<state, target, issued, current, upload, away>>
        /\ expired' = {} /\ due' = {}
    BY <1>7 DEF ProbeRaises, jobVars
  <2> QED
    BY <2>1 DEF Inv, BatchInv, FutureInv, PassInv, DistinctTargets
<1> QED
  BY <1>4, <1>5, <1>6, <1>7

LEMMA NextKeepsInv == TypeOK /\ Inv /\ [Next]_vars => TypeOK' /\ Inv'
<1> SUFFICES ASSUME TypeOK, Inv, [Next]_vars PROVE TypeOK' /\ Inv'
  OBVIOUS
<1>1. CASE NewBatch
  BY <1>1, NewBatchType, NewBatchInv
<1>2. CASE \/ Promote \/ Submit \/ SubmitRaises \/ Collect \/ PlanReconnect
           \/ EndPass \/ Exit
  BY <1>2, PassType, PassKeepsInv
<1>3. CASE \E j \in JobId : \/ TimedOut(j) \/ ProbeAnswered(j) \/ ProbeFails(j)
                            \/ ProbeRaises(j)
  BY <1>3, JobType, JobKeepsInv
<1>4. ASSUME UNCHANGED <<state, target, issued, current, away, expired, due>>,
             \A i \in JobId : \/ upload'[i] = upload[i]
                              \/ upload[i] = "running"
                                 /\ upload'[i] \in {"accepted", "dropped", "error"}
      PROVE  Inv'
  <2>1. BatchInv' /\ PassInv'
    BY <1>4 DEF Inv, BatchInv, PassInv, DistinctTargets
  <2>2. FutureInv'
    BY <1>4 DEF Inv, FutureInv
  <2> QED
    BY <2>1, <2>2 DEF Inv
<1>5. CASE \E j \in JobId : Worker(j)
  <2>1. TypeOK'
    BY <1>5 DEF Worker, UploadEnds, TypeOK, jobVars, timeVars, passVars, stopVars
  <2>2. Inv'
    BY <1>4, <1>5 DEF Worker, UploadEnds, TypeOK, jobVars, passVars
  <2> QED
    BY <2>1, <2>2
<1>6. CASE Tick
  BY <1>4, <1>6, TickType DEF Tick, jobVars, passVars
<1>7. CASE Stop \/ Shutdown \/ UNCHANGED vars
  <2>1. TypeOK'
    BY <1>7 DEF Stop, Shutdown, vars, TypeOK, jobVars, timeVars, passVars, stopVars
  <2>2. Inv'
    BY <1>4, <1>7 DEF Stop, Shutdown, vars, jobVars, passVars
  <2> QED
    BY <2>1, <2>2
<1> QED
  BY <1>1, <1>2, <1>3, <1>5, <1>6, <1>7, Steps DEF Inv, BatchInv

LEMMA InvHolds == Spec => [](TypeOK /\ Inv)
BY InitInv, NextKeepsInv, PTL DEF Spec

\* Every variable keeps its type.
THEOREM TypeCorrect == Spec => []TypeOK
BY InvHolds, PTL

\* No two uploads, nor an upload and a reboot, of one device at a time.
THEOREM OneJobPerDeviceHolds == Spec => []OneJobPerDevice
<1>1. TypeOK /\ Inv => OneJobPerDevice
  <2> SUFFICES ASSUME TypeOK, Inv, NEW i \in JobId, NEW j \in JobId,
                      Unsettled(i), Unsettled(j), target[i] = target[j]
               PROVE  i = j
    BY DEF OneJobPerDevice
  <2>1. \A k \in JobId : Unsettled(k) => k \in current
    BY States DEF Unsettled, Inv, FutureInv, BatchInv
  <2> QED
    BY <2>1 DEF Inv, BatchInv, DistinctTargets
<1> QED
  BY <1>1, InvHolds, PTL

----------------------------------------------------------------------------
(* The attempt counter.                                                    *)

\* A polling interval has passed for each attempt; a probe this pass decided
\* on is one more that fits before the deadline.
AttemptsInv ==
  \A j \in JobId :
    /\ attempts[j] <= MaxAttempts
    /\ state[j] \in Window /\ age[j] <= Timeout
         => attempts[j] * Interval + since[j] <= age[j]
    /\ j \in due => /\ (attempts[j] + 1) * Interval <= age[j]
                    /\ (attempts[j] + 1) * Interval <= Timeout

LEMMA FitsMaximum ==
  ASSUME NEW n \in Nat, n * Interval <= Timeout
  PROVE  n <= MaxAttempts
<1>1. /\ Interval \in Nat /\ Interval > 0 /\ MaxAttempts \in Nat /\ Timeout \in Nat
      /\ Timeout < (MaxAttempts + 1) * Interval
  BY FirmwareAssumption
<1>2. n * Interval < (MaxAttempts + 1) * Interval
  BY <1>1
<1>3. ASSUME MaxAttempts + 1 <= n PROVE FALSE
  <2>1. PICK k \in Nat : n = (MaxAttempts + 1) + k
    BY <1>1, <1>3
  <2>2. n * Interval = (MaxAttempts + 1) * Interval + k * Interval
    BY <1>1, <2>1
  <2>3. k * Interval >= 0
    BY <1>1
  <2> DEFINE x == n * Interval
             y == (MaxAttempts + 1) * Interval
             z == k * Interval
  <2>4. x \in Int /\ y \in Int /\ z \in Int
    BY <1>1
  <2>5. x < y /\ x = y + z /\ z >= 0
    BY <1>2, <2>2, <2>3
  <2> HIDE DEF x, y, z
  <2> QED
    BY <2>4, <2>5
<1> QED
  BY <1>1, <1>3

LEMMA OneMoreInterval ==
  ASSUME NEW n \in Nat
  PROVE  /\ n * Interval \in Nat
         /\ (n + 1) * Interval = n * Interval + Interval
BY FirmwareAssumption

LEMMA AttemptsKept ==
  ASSUME UNCHANGED timeVars, due' \subseteq due, AttemptsInv,
         \A j \in JobId : state'[j] \in Window => state[j] \in Window
  PROVE  AttemptsInv'
BY DEF AttemptsInv, timeVars

LEMMA NextKeepsAttempts ==
  ASSUME TypeOK, Inv, AttemptsInv, [Next]_vars
  PROVE  AttemptsInv'
<1>0. /\ Interval \in Nat /\ Timeout \in Nat /\ MaxAttempts \in Nat
      /\ \A j \in JobId : /\ attempts[j] \in Nat /\ age[j] \in Nat
                          /\ since[j] \in 0..Interval
                          /\ attempts[j] * Interval \in Nat
                          /\ (attempts[j] + 1) * Interval = attempts[j] * Interval + Interval
  BY FirmwareAssumption, OneMoreInterval DEF TypeOK
<1>1. CASE NewBatch
  <2>1. UNCHANGED timeVars /\ due' = due /\ Change(current', "queued")
    BY <1>1 DEF NewBatch, passVars
  <2> QED
    BY <2>1, AttemptsKept, States DEF Change
<1>2. CASE Promote \/ Submit \/ SubmitRaises
  <2>1. /\ UNCHANGED timeVars /\ due' = due
        /\ \E js : Change(js, "upload_pending") \/ Change(js, "uploading")
    BY <1>2 DEF Promote, Submit, SubmitRaises, Uploads, passVars
  <2> QED
    BY <2>1, AttemptsKept, States DEF Change
<1>3. CASE \/ EndPass \/ Exit \/ Stop \/ Shutdown \/ UNCHANGED vars
           \/ \E j \in JobId : Worker(j)
  <2>1. UNCHANGED <<state, timeVars, due>>
    BY <1>3 DEF EndPass, Exit, Stop, Shutdown, Worker, UploadEnds,
       vars, jobVars, passVars
  <2> QED
    BY <2>1, AttemptsKept
<1>4. CASE Collect
  <2> SUFFICES ASSUME NEW j \in JobId
               PROVE  AttemptsInv!(j)'
    BY DEF AttemptsInv
  <2>1. CASE upload[j] \in {"accepted", "dropped"}
    <3>1. attempts'[j] = 0 /\ age'[j] = 0 /\ since'[j] = 0 /\ due' = due
      BY <1>4, <2>1 DEF Collect, Finished, passVars
    <3>2. state[j] = "uploading"
      BY <2>1 DEF Inv, FutureInv
    <3>3. j \notin due
      BY <3>2, States DEF Inv, PassInv
    <3> QED
      BY <1>0, <3>1, <3>3
  <2>2. CASE upload[j] \notin {"accepted", "dropped"}
    <3>1. /\ attempts'[j] = attempts[j] /\ age'[j] = age[j] /\ since'[j] = since[j]
          /\ due' = due
          /\ state'[j] \in {state[j], "failed"}
      BY <1>4, <2>2 DEF Collect, Finished, passVars, TypeOK
    <3> QED
      BY <3>1, States DEF AttemptsInv
  <2> QED
    BY <2>1, <2>2
<1>5. CASE PlanReconnect
  <2>1. UNCHANGED <<state, attempts, age, since>>
    BY <1>5 DEF PlanReconnect, jobVars, timeVars
  <2>2. \A j \in due' : /\ state[j] \in Window /\ age[j] <= Timeout
                        /\ since[j] >= Interval /\ j \in JobId
    BY <1>5 DEF PlanReconnect, InWindow, TypeOK
  <2>3. \A j \in due' : /\ (attempts[j] + 1) * Interval <= age[j]
                        /\ (attempts[j] + 1) * Interval <= Timeout
    BY <1>0, <2>2 DEF AttemptsInv
  <2> QED
    BY <2>1, <2>3 DEF AttemptsInv
<1>6. ASSUME NEW j \in JobId, TimedOut(j) \/ ProbeRaises(j) PROVE AttemptsInv'
  <2>1. /\ UNCHANGED timeVars /\ due' \subseteq due
        /\ UNCHANGED state \/ Change({j}, "failed")
    BY <1>6 DEF TimedOut, MarkFailed, ProbeRaises, jobVars
  <2> QED
    BY <2>1, AttemptsKept, States DEF Change
<1>7. ASSUME NEW j \in JobId, Probed(j), KeepPolling(j) PROVE AttemptsInv'
  <2>1. /\ j \in due /\ due' = due \ {j} /\ age' = age
        /\ attempts'[j] = attempts[j] + 1 /\ since'[j] = 0
        /\ \A i \in JobId \ {j} : /\ attempts'[i] = attempts[i]
                                  /\ since'[i] = since[i] /\ state'[i] = state[i]
    BY <1>7 DEF Probed, KeepPolling, Change, TypeOK
  <2>2. /\ (attempts[j] + 1) * Interval <= age[j]
        /\ (attempts[j] + 1) * Interval <= Timeout
    BY <2>1 DEF AttemptsInv
  <2>3. attempts[j] + 1 <= MaxAttempts
    BY <1>0, <2>2, FitsMaximum
  <2>4. AttemptsInv!(j)'
    <3>1. attempts'[j] * Interval + since'[j] = (attempts[j] + 1) * Interval
      BY <1>0, <2>1
    <3> QED
      BY <2>1, <2>2, <2>3, <3>1
  <2>5. \A i \in JobId \ {j} : AttemptsInv!(i)'
    BY <2>1 DEF AttemptsInv
  <2> QED
    BY <2>4, <2>5 DEF AttemptsInv
<1>8. ASSUME NEW j \in JobId, ProbeAnswered(j) \/ ProbeFails(j) PROVE AttemptsInv'
  <2>1. CASE Probed(j) /\ KeepPolling(j)
    BY <1>7, <2>1
  <2>2. CASE Probed(j) /\ Change({j}, "success") /\ UNCHANGED <<attempts, since>>
    <3>1. UNCHANGED timeVars /\ due' \subseteq due
      BY <2>2 DEF Probed, timeVars
    <3> QED
      BY <2>2, <3>1, AttemptsKept, States DEF Change
  <2> QED
    BY <1>8, <2>1, <2>2 DEF ProbeAnswered, ProbeFails
<1>9. CASE Tick
  <2> SUFFICES ASSUME NEW j \in JobId
               PROVE  AttemptsInv!(j)'
    BY DEF AttemptsInv
  <2>1. UNCHANGED <<state, attempts, due>>
    BY <1>9 DEF Tick, jobVars, passVars
  <2>2. /\ age'[j] = IF state[j] \in Window /\ age[j] < Timeout + 1
                     THEN age[j] + 1 ELSE age[j]
        /\ since'[j] = IF state[j] \in Window /\ since[j] < Interval
                       THEN since[j] + 1 ELSE since[j]
    BY <1>9 DEF Tick, Later
  <2>3. since'[j] <= since[j] + 1 /\ age[j] <= age'[j] /\ since'[j] \in Nat /\ age'[j] \in Nat
    BY <1>0, <2>2
  <2>4. state[j] \in Window /\ age'[j] <= Timeout
          => age'[j] = age[j] + 1 /\ age[j] <= Timeout
    BY <1>0, <2>2
  <2>5. state'[j] \in Window /\ age'[j] <= Timeout
          => attempts'[j] * Interval + since'[j] <= age'[j]
    BY <1>0, <2>1, <2>3, <2>4 DEF AttemptsInv
  <2>6. j \in due' => /\ (attempts'[j] + 1) * Interval <= age'[j]
                      /\ (attempts'[j] + 1) * Interval <= Timeout
    BY <1>0, <2>1, <2>3 DEF AttemptsInv
  <2> QED
    BY <2>1, <2>5, <2>6 DEF AttemptsInv
<1> QED
  BY <1>1, <1>2, <1>3, <1>4, <1>5, <1>6, <1>8, <1>9, Steps DEF Inv, BatchInv

\* The attempt shown never passes the maximum shown with it.
THEOREM AttemptsBounded == Spec => []AttemptsWithinMaximum
<1>1. Init => AttemptsInv
  BY FirmwareAssumption, States DEF Init, AttemptsInv
<1>2. TypeOK /\ Inv /\ AttemptsInv /\ [Next]_vars => AttemptsInv'
  BY NextKeepsAttempts
<1>3. AttemptsInv => AttemptsWithinMaximum
  BY DEF AttemptsInv, AttemptsWithinMaximum
<1> QED
  BY <1>1, <1>2, <1>3, InvHolds, PTL DEF Spec

----------------------------------------------------------------------------
(* The refinement: each step is a step of the flow of jobs, or none.       *)

LEMMA PassFollowsFlow ==
  ASSUME TypeOK, Inv,
         \/ Promote \/ Submit \/ SubmitRaises \/ Collect \/ PlanReconnect
         \/ EndPass \/ Exit
  PROVE  [Flow!Next]_(Flow!flowVars)
<1>1. CASE Promote
  <2>1. Flow!Prepare(InState("queued")) /\ InState("queued") \in SUBSET JobId
    BY <1>1 DEF Promote, Change, InState, TypeOK, Flow!Prepare, Flow!Move
  <2> QED
    BY <2>1 DEF Flow!Next
<1>2. CASE Submit \/ SubmitRaises
  <2>1. PICK js \in SUBSET ToSubmit : Uploads(js)
    BY <1>2 DEF Submit, SubmitRaises
  <2>2. \A j \in js : j \in JobId /\ state[j] = "upload_pending"
    BY <2>1 DEF ToSubmit, InState, TypeOK
  <2>3. Flow!Begin(js) /\ js \in SUBSET JobId
    BY <2>1, <2>2 DEF Uploads, Change, Flow!Begin, Flow!Move
  <2> QED
    BY <2>3 DEF Flow!Next
<1>3. CASE PlanReconnect \/ EndPass \/ Exit
  <2>1. UNCHANGED <<state, away>>
    BY <1>3 DEF PlanReconnect, EndPass, Exit, jobVars
  <2> QED
    BY <2>1 DEF Flow!flowVars
<1>4. CASE Collect
  <2> DEFINE accepted == Finished("accepted") \cup Finished("dropped")
             refused == {j \in Finished("error") : state[j] = "uploading"}
             dropped == Finished("dropped")
  <2>1. \A j \in JobId : upload[j] \in {"accepted", "dropped"} => state[j] = "uploading"
    BY DEF Inv, FutureInv
  <2>2. \A j \in accepted \cup refused : state[j] = "uploading"
    BY <2>1 DEF Finished
  <2>3. state' = [j \in JobId |-> IF j \in accepted THEN "rebooting"
                                  ELSE IF j \in refused THEN "failed" ELSE state[j]]
    BY <1>4 DEF Collect, Inv, FutureInv, Finished
  <2>4. \A j \in accepted : j \notin away
    BY <2>1, States DEF Inv, FutureInv, Finished
  <2>5. away' = away \cup dropped
    BY <1>4, <2>4 DEF Collect
  <2>6. /\ accepted \in SUBSET Flow!In({"uploading"})
        /\ refused \in SUBSET Flow!In({"uploading"})
        /\ dropped \in SUBSET accepted
    BY <2>2 DEF Finished, Flow!In
  <2>7. Flow!Uploaded(accepted, refused, dropped)
    BY <2>3, <2>5, <2>6 DEF Flow!Uploaded
  <2> HIDE DEF accepted, refused, dropped
  <2> QED
    BY <2>6, <2>7 DEF Flow!Next
<1> QED
  BY <1>1, <1>2, <1>3, <1>4

LEMMA JobFollowsFlow ==
  ASSUME TypeOK, Inv, NEW j \in JobId,
         TimedOut(j) \/ ProbeAnswered(j) \/ ProbeFails(j) \/ ProbeRaises(j)
  PROVE  [Flow!Next]_(Flow!flowVars)
<1>1. j \in expired \cup due => state[j] \in Flow!Window
  BY DEF Inv, PassInv, Window
<1>2. CASE TimedOut(j)
  <2>1. Flow!GiveUp(j)
    BY <1>1, <1>2 DEF TimedOut, MarkFailed, Change, Flow!GiveUp, Flow!Move
  <2> QED
    BY <2>1 DEF Flow!Next
<1>3. CASE ProbeAnswered(j)
  <2>1. Flow!Back(j) \/ Flow!StillThere(j)
    BY <1>1, <1>3
    DEF ProbeAnswered, Probed, KeepPolling, Change, Flow!Back, Flow!StillThere, Flow!Move
  <2> QED
    BY <2>1 DEF Flow!Next
<1>4. CASE ProbeFails(j)
  <2>1. Flow!Unanswered(j)
    BY <1>1, <1>4
    DEF ProbeFails, Probed, KeepPolling, Change, Flow!Unanswered, Flow!Move
  <2> QED
    BY <2>1 DEF Flow!Next
<1>5. CASE ProbeRaises(j)
  BY <1>5 DEF ProbeRaises, jobVars, Flow!flowVars
<1> QED
  BY <1>2, <1>3, <1>4, <1>5

LEMMA NextFollowsFlow ==
  ASSUME TypeOK, Inv, [Next]_vars
  PROVE  [Flow!Next]_(Flow!flowVars)
<1>1. CASE NewBatch
  <2>1. PICK n \in Nat :
          /\ issued + n <= MaxJobs
          /\ issued' = issued + n
          /\ current' = (issued + 1)..(issued + n)
    BY <1>1 DEF NewBatch
  <2>2. /\ issued \in Nat /\ MaxJobs \in Nat
        /\ \A j \in JobId : j \in Nat
    BY FirmwareAssumption DEF TypeOK, JobId
  <2>3. current' \in SUBSET JobId
    BY <2>1, <2>2 DEF JobId
  <2>4. \A j \in current' : state[j] = "unused"
    BY <2>1, <2>2, <2>3 DEF Inv, BatchInv
  <2>5. Flow!Create(current')
    BY <1>1, <2>4 DEF NewBatch, Change, Flow!Create, Flow!Move
  <2> QED
    BY <2>3, <2>5 DEF Flow!Next
<1>2. CASE Stop \/ Shutdown \/ Tick \/ UNCHANGED vars \/ \E j \in JobId : Worker(j)
  <2>1. UNCHANGED <<state, away>>
    BY <1>2 DEF Stop, Shutdown, Tick, vars, Worker, UploadEnds, jobVars
  <2> QED
    BY <2>1 DEF Flow!flowVars
<1> QED
  BY <1>1, <1>2, PassFollowsFlow, JobFollowsFlow, Steps DEF Inv, BatchInv

\* The supervisor implements the flow of jobs it promises.
THEOREM SupervisorFollowsFlow == Spec => FollowsFlow
<1>1. Init => Flow!Init
  BY DEF Init, Flow!Init
<1>2. TypeOK /\ Inv /\ [Next]_vars => [Flow!Next]_(Flow!flowVars)
  BY NextFollowsFlow
<1> QED
  BY <1>1, <1>2, InvHolds, PTL DEF Spec, FollowsFlow, Flow!Spec

----------------------------------------------------------------------------
(* What the flow means for one job: its verdict and what a success tells.  *)

\* A success was seen to leave.
SuccessLeft == \A j \in JobId : state[j] = "success" => j \in away

\* One step of the flow keeps verdicts and departures, and makes a success of
\* a departure only.
LEMMA FlowStep ==
  ASSUME TypeOK, [Flow!Next]_(Flow!flowVars), NEW j \in JobId
  PROVE  /\ state[j] \in Verdict => state'[j] = state[j]
         /\ j \in away => j \in away'
         /\ state'[j] = "success" => state[j] = "success" \/ j \in away
<1> USE States
<1>1. CASE UNCHANGED Flow!flowVars
  BY <1>1 DEF Flow!flowVars
<1>2. ASSUME NEW js \in SUBSET JobId, Flow!Create(js) \/ Flow!Prepare(js) \/ Flow!Begin(js)
      PROVE  /\ state[j] \in Verdict => state'[j] = state[j]
             /\ j \in away => j \in away'
             /\ state'[j] = "success" => state[j] = "success" \/ j \in away
  BY <1>2 DEF Flow!Create, Flow!Prepare, Flow!Begin, Flow!Move
<1>3. ASSUME NEW a \in SUBSET Flow!In({"uploading"}), NEW r \in SUBSET Flow!In({"uploading"}),
             NEW d \in SUBSET a, Flow!Uploaded(a, r, d)
      PROVE  /\ state[j] \in Verdict => state'[j] = state[j]
             /\ j \in away => j \in away'
             /\ state'[j] = "success" => state[j] = "success" \/ j \in away
  BY <1>3 DEF Flow!Uploaded, Flow!In
<1>4. ASSUME NEW i \in JobId,
             Flow!Unanswered(i) \/ Flow!StillThere(i) \/ Flow!Back(i) \/ Flow!GiveUp(i)
      PROVE  /\ state[j] \in Verdict => state'[j] = state[j]
             /\ j \in away => j \in away'
             /\ state'[j] = "success" => state[j] = "success" \/ j \in away
  BY <1>4 DEF Flow!Unanswered, Flow!StillThere, Flow!Back, Flow!GiveUp, Flow!Move,
              Flow!Window, Window
<1> QED
  BY <1>1, <1>2, <1>3, <1>4 DEF Flow!Next

\* A success shown to the operator: the device was seen to leave between its
\* upload and the answer, so it did restart; an answer alone is not enough.
THEOREM SuccessWasSeenToLeave == Spec => []SuccessLeft
<1>1. Init => SuccessLeft
  BY DEF Init, SuccessLeft
<1>2. TypeOK /\ Inv /\ SuccessLeft /\ [Next]_vars => SuccessLeft'
  BY NextFollowsFlow, FlowStep DEF SuccessLeft
<1> QED
  BY <1>1, <1>2, InvHolds, PTL DEF Spec

\* A verdict is final: neither the deadline, a late probe, an upload worker that
\* ends late, a retry nor a new batch changes a job that succeeded or failed.
THEOREM VerdictIsFinal ==
  Spec => [][\A j \in JobId : state[j] \in Verdict => state'[j] = state[j]]_vars
<1> DEFINE Final == \A j \in JobId : state[j] \in Verdict => state'[j] = state[j]
<1>1. TypeOK /\ Inv /\ [Next]_vars => [Final]_vars
  BY NextFollowsFlow, FlowStep
<1> QED
  BY <1>1, InvHolds, PTL DEF Spec

----------------------------------------------------------------------------
(* No job is given up unasked.  The clock and the jobs are read once, at    *)
(* the start of a pass, and each probe of the pass takes time: a device is  *)
(* certain to be asked before its deadline only while the batch is small    *)
(* against the timeout.  The invariant keeps the account: the age of a job  *)
(* not asked yet, with the time the running pass can still take.           *)

Unrested == IF rested THEN 0 ELSE 1

\* No job listed before j can end a pass before j's turn.
Undisturbed(j) == \A i \in current : i <= j => target[i] \notin Faulty

\* The longest a job of the current batch waits for its first probe.
Patience == Interval + Cardinality(current) - 1

\* How old a job that waits for its first probe can be.
InTime(j) ==
  /\ j \notin expired
  /\ since[j] < Interval => age[j] <= since[j]
  /\ pc \in {"submit", "collect", "plan"} => age[j] <= Patience
  /\ pc = "promote" /\ ~stopping => age[j] + Unrested <= Patience
  /\ pc = "reconnect" /\ j \notin due
       => age[j] + Cardinality(expired \cup due) + Unrested <= Patience

\* Time passes within a pass only while a probe is still to be made.
ThreadInv ==
  /\ ~executorUp => stopping
  /\ pc # "reconnect" => expired \cup due = {}
  /\ pc = "reconnect" /\ rested => due # {}

WaitInv ==
  /\ ThreadInv
  /\ \A j \in JobId : state[j] = "rebooting" /\ Undisturbed(j) => InTime(j)

LEMMA PatienceFits ==
  ASSUME TypeOK, DistinctTargets
  PROVE  /\ Cardinality(current) \in Nat
         /\ Cardinality(current) <= Cardinality(Device)
<1>1. IsFiniteSet(current) /\ Cardinality(current) \in Nat
  BY SubsetOfJobsFinite DEF TypeOK
<1>2. IsFiniteSet(Device) /\ Cardinality(Device) \in Nat
  BY FirmwareAssumption, FS_CardinalityType
<1>3. ASSUME Cardinality(Device) < Cardinality(current) PROVE FALSE
  <2> DEFINE f == [j \in current |-> target[j]]
  <2>1. f \in [current -> Device]
    BY DEF DistinctTargets
  <2>2. \A i, j \in current : f[i] = f[j] => i = j
    BY DEF DistinctTargets
  <2> HIDE DEF f
  <2>3. \E x, y \in current : x # y /\ f[x] = f[y]
    BY <1>1, <1>2, <1>3, <2>1, FS_PigeonHole
  <2> QED
    BY <2>2, <2>3
<1> QED
  BY <1>1, <1>2, <1>3

\* The number types the account is kept in.
LEMMA WaitTypes ==
  ASSUME TypeOK, DistinctTargets
  PROVE  /\ Cardinality(current) \in Nat /\ Interval \in Nat /\ Interval > 0
         /\ Cardinality(expired \cup due) \in Nat
         /\ IsFiniteSet(expired \cup due)
         /\ Unrested \in {0, 1}
         /\ \A j \in JobId : age[j] \in Nat /\ since[j] \in Nat /\ j \in Int
<1>1. Cardinality(current) \in Nat
  BY PatienceFits
<1>3. /\ Interval \in Nat /\ Interval > 0 /\ Timeout \in Nat
  BY FirmwareAssumption
<1>4. expired \cup due \in SUBSET JobId
  BY DEF TypeOK
<1>5. /\ Cardinality(expired \cup due) \in Nat
      /\ IsFiniteSet(expired \cup due)
  BY <1>4, SubsetOfJobsFinite
<1>6. Unrested \in {0, 1}
  BY DEF Unrested
<1>7. \A j \in JobId : age[j] \in Nat /\ since[j] \in Nat
  BY <1>3 DEF TypeOK
<1>8. \A j \in JobId : j \in Int
  BY FirmwareAssumption DEF JobId
<1> QED
  BY <1>1, <1>3, <1>5, <1>6, <1>7, <1>8

LEMMA NextKeepsThread == TypeOK /\ ThreadInv /\ [Next]_vars => ThreadInv'
<1> SUFFICES ASSUME TypeOK, ThreadInv, [Next]_vars PROVE ThreadInv'
  OBVIOUS
<1>1. CASE \/ \E ips \in BuildTargets : StartBatch(ips)
           \/ RetryFailedOnly
  BY <1>1 DEF StartBatch, RetryFailedOnly, Create, ThreadInv, passVars, stopVars
<1>2. CASE Stop \/ Shutdown \/ Tick \/ UNCHANGED vars \/ \E j \in JobId : Worker(j)
  BY <1>2 DEF Stop, Shutdown, Tick, Worker, UploadEnds, vars, ThreadInv, passVars,
     stopVars
<1>3. CASE \/ Promote \/ Submit \/ SubmitRaises \/ Collect \/ PlanReconnect
           \/ EndPass \/ Exit
  BY <1>3 DEF Promote, Submit, SubmitRaises, Uploads, Collect, PlanReconnect,
     EndPass, Exit, ThreadInv, passVars, stopVars
<1>4. CASE \E j \in JobId : \/ TimedOut(j) \/ ProbeAnswered(j) \/ ProbeFails(j)
                            \/ ProbeRaises(j)
  BY <1>4 DEF TimedOut, ProbeAnswered, ProbeFails, Probed, ProbeRaises, IsNext,
     ThreadInv, stopVars
<1> QED
  BY <1>1, <1>2, <1>3, <1>4 DEF Next, SupervisorThread

\* Between two passes the account is settled.
LEMMA PassKeepsWait ==
  ASSUME TypeOK, Inv, WaitInv, NEW j \in JobId,
         Promote \/ Submit \/ SubmitRaises \/ Collect \/ EndPass \/ Exit,
         state'[j] = "rebooting", Undisturbed(j)'
  PROVE  InTime(j)'
<1>0. /\ Cardinality(current) \in Nat /\ Interval \in Nat /\ Interval > 0
      /\ Cardinality(expired \cup due) \in Nat /\ Unrested \in {0, 1}
      /\ age[j] \in Nat /\ since[j] \in Nat
  BY WaitTypes DEF Inv, BatchInv
<1>1. /\ UNCHANGED <<target, current, expired, due, stopping>>
      /\ rested' = FALSE \/ pc' = "exited"
  BY DEF Promote, Submit, SubmitRaises, Uploads, Collect, EndPass, Exit, jobVars,
     passVars, stopVars
<1>2. Undisturbed(j)
  BY <1>1 DEF Undisturbed
<1>3. ASSUME state[j] = "rebooting", UNCHANGED <<age, since>>,
             Promote \/ Submit \/ SubmitRaises \/ EndPass \/ Exit
      PROVE  InTime(j)'
  <2>1. InTime(j)
    BY <1>2, <1>3 DEF WaitInv
  <2>2. Patience \in Int /\ Patience' = Patience /\ (rested' = FALSE => Unrested' = 1)
    BY <1>0, <1>1 DEF Patience, Unrested
  <2>3. CASE Promote
    BY <1>0, <1>1, <1>3, <2>1, <2>2, <2>3 DEF Promote, InTime
  <2>4. CASE Submit
    BY <1>0, <1>1, <1>3, <2>1, <2>2, <2>4 DEF Submit, InTime
  <2>5. CASE SubmitRaises
    BY <1>1, <1>3, <2>1, <2>5 DEF SubmitRaises, InTime, WaitInv, ThreadInv
  <2>6. CASE EndPass
    <3>1. Cardinality(expired \cup due) = 0 /\ j \notin due /\ Unrested = 1
      BY <2>6, FS_EmptySet DEF EndPass, WaitInv, ThreadInv, Unrested
    <3>2. pc = "reconnect" /\ pc' = "promote"
      BY <2>6 DEF EndPass
    <3>3. age[j] + 1 <= Patience
      BY <1>0, <2>1, <2>2, <3>1, <3>2 DEF InTime
    <3>4. rested' = FALSE
      BY <2>6 DEF EndPass
    <3> QED
      BY <1>1, <1>3, <2>1, <2>2, <3>2, <3>3, <3>4 DEF InTime
  <2>7. CASE Exit
    BY <1>1, <1>3, <2>1, <2>7 DEF Exit, InTime
  <2> QED
    BY <1>3, <2>3, <2>4, <2>5, <2>6, <2>7
<1>4. CASE Promote \/ Submit \/ SubmitRaises \/ EndPass \/ Exit
  <2>1. /\ UNCHANGED <<age, since>>
        /\ \/ UNCHANGED state
           \/ \E js : Change(js, "upload_pending") \/ Change(js, "uploading")
    BY <1>4 DEF Promote, Submit, SubmitRaises, Uploads, EndPass, Exit, timeVars, jobVars
  <2>2. state[j] = "rebooting"
    BY <2>1 DEF Change
  <2> QED
    BY <1>3, <1>4, <2>1, <2>2
<1>5. CASE Collect
  <2>1. CASE upload[j] \in {"accepted", "dropped"}
    <3>1. age'[j] = 0 /\ since'[j] = 0 /\ pc' = "plan"
      BY <1>5, <2>1 DEF Collect, Finished
    <3>2. state[j] = "uploading"
      BY <2>1 DEF Inv, FutureInv
    <3>3. j \notin expired
      BY <3>2, States DEF Inv, PassInv
    <3>4. 0 <= Patience /\ Patience' = Patience
      BY <1>0, <1>1 DEF Patience
    <3> QED
      BY <1>1, <3>1, <3>3, <3>4 DEF InTime
  <2>2. CASE upload[j] \notin {"accepted", "dropped"}
    <3>1. /\ age'[j] = age[j] /\ since'[j] = since[j] /\ state[j] = "rebooting"
          /\ pc = "collect" /\ pc' = "plan"
      BY <1>5, <2>2 DEF Collect, Finished, TypeOK
    <3>2. InTime(j)
      BY <1>2, <3>1 DEF WaitInv
    <3>3. Patience' = Patience
      BY <1>1 DEF Patience
    <3> QED
      BY <1>1, <3>1, <3>2, <3>3 DEF InTime
  <2> QED
    BY <2>1, <2>2
<1> QED
  BY <1>4, <1>5

\* The plan of a pass finds no waiting job past its deadline, and what it
\* treats before the next plan are other jobs of the batch.
LEMMA PlanKeepsWait ==
  ASSUME TypeOK, Inv, WaitInv, Interval + Cardinality(Device) <= Timeout + 1,
         NEW j \in JobId, PlanReconnect,
         state'[j] = "rebooting", Undisturbed(j)'
  PROVE  InTime(j)'
<1>0. /\ Cardinality(current) \in Nat /\ Interval \in Nat /\ Interval > 0
      /\ age[j] \in Nat /\ since[j] \in Nat
      /\ Cardinality(current) <= Cardinality(Device)
      /\ Timeout \in Nat /\ Cardinality(Device) \in Nat
  BY WaitTypes, PatienceFits, FirmwareAssumption, FS_CardinalityType
  DEF Inv, BatchInv
<1>1. /\ UNCHANGED <<state, target, current, age, since>>
      /\ expired' = {i \in InWindow : age[i] > Timeout}
      /\ due' = {i \in InWindow : age[i] <= Timeout /\ since[i] >= Interval}
      /\ pc = "plan" /\ pc' = "reconnect" /\ rested' = FALSE
  BY DEF PlanReconnect, jobVars, timeVars
<1>2. InTime(j) /\ j \in current
  BY <1>1, OpenIsCurrent, States DEF Undisturbed, WaitInv, Inv
<1>3. age[j] <= Patience /\ Patience <= Timeout /\ Patience \in Int
  BY <1>0, <1>1, <1>2 DEF InTime, Patience
<1>4. j \notin expired' /\ (j \notin due' => since[j] < Interval)
  BY <1>0, <1>1, <1>2, <1>3, States DEF InWindow
<1>5. ASSUME j \notin due'
      PROVE  age[j] + Cardinality(expired' \cup due') + 1 <= Patience
  <2>1. age[j] <= Interval - 1
    BY <1>0, <1>2, <1>4, <1>5 DEF InTime
  <2>2. expired' \cup due' \in SUBSET (current \ {j})
    BY <1>1, <1>4, <1>5 DEF InWindow
  <2>3. IsFiniteSet(current)
    BY SubsetOfJobsFinite DEF TypeOK
  <2>4. /\ IsFiniteSet(current \ {j})
        /\ Cardinality(current \ {j}) = Cardinality(current) - 1
    BY <1>2, <2>3, FS_RemoveElement
  <2>5. /\ Cardinality(expired' \cup due') <= Cardinality(current) - 1
        /\ Cardinality(expired' \cup due') \in Nat
    BY <2>2, <2>4, FS_Subset, FS_CardinalityType
  <2> QED
    BY <1>0, <2>1, <2>5 DEF Patience
<1>6. Patience' = Patience /\ Unrested' = 1
  BY <1>1 DEF Patience, Unrested
<1> QED
  BY <1>1, <1>2, <1>4, <1>5, <1>6 DEF InTime

\* A unit of time is charged once for each step the pass still has to make.
LEMMA TickKeepsWait ==
  ASSUME TypeOK, Inv, WaitInv, NEW j \in JobId, Tick,
         state'[j] = "rebooting", Undisturbed(j)'
  PROVE  InTime(j)'
<1>0. /\ Cardinality(current) \in Nat /\ Interval \in Nat
      /\ age[j] \in Nat /\ since[j] \in Nat
      /\ Cardinality(expired \cup due) \in Nat
  BY WaitTypes DEF Inv, BatchInv
<1>1. /\ UNCHANGED <<state, target, current, expired, due, pc, stopping>>
      /\ rested = FALSE /\ rested' = TRUE
      /\ pc \in {"promote", "reconnect"}
  BY DEF Tick, jobVars, passVars, stopVars
<1>2. InTime(j)
  BY <1>1 DEF Undisturbed, WaitInv
<1>3. /\ age'[j] = IF age[j] < Timeout + 1 THEN age[j] + 1 ELSE age[j]
      /\ since'[j] = IF since[j] < Interval THEN since[j] + 1 ELSE since[j]
  BY <1>1, States DEF Tick, Later
<1>4. age'[j] <= age[j] + 1 /\ age'[j] \in Nat
  BY <1>0, <1>3, FirmwareAssumption
<1>5. Unrested = 1 /\ Unrested' = 0 /\ Patience' = Patience /\ Patience \in Int
  BY <1>0, <1>1 DEF Unrested, Patience
<1>6. since'[j] < Interval => age'[j] <= since'[j]
  BY <1>0, <1>2, <1>3, <1>4 DEF InTime
<1>7. pc = "promote" /\ ~stopping => age'[j] + 0 <= Patience
  BY <1>0, <1>2, <1>4, <1>5 DEF InTime
<1>8. pc = "reconnect" /\ j \notin due
        => age'[j] + Cardinality(expired \cup due) + 0 <= Patience
  BY <1>0, <1>2, <1>4, <1>5 DEF InTime
<1> QED
  BY <1>1, <1>2, <1>5, <1>6, <1>7, <1>8 DEF InTime

\* A step for one job leaves a step less before the pass is over; an error
\* that ends the pass comes from a job behind those that wait.
LEMMA JobKeepsWait ==
  ASSUME TypeOK, Inv, WaitInv, NEW j \in JobId, NEW i \in JobId,
         TimedOut(i) \/ ProbeAnswered(i) \/ ProbeFails(i) \/ ProbeRaises(i),
         state'[j] = "rebooting", Undisturbed(j)'
  PROVE  InTime(j)'
<1>0. /\ Cardinality(current) \in Nat /\ Interval \in Nat
      /\ age[j] \in Nat /\ since[j] \in Nat /\ j \in Int /\ i \in Int
      /\ IsFiniteSet(expired \cup due)
      /\ Cardinality(expired \cup due) \in Nat /\ Unrested \in {0, 1}
  BY WaitTypes DEF Inv, BatchInv
<1>1. /\ UNCHANGED <<target, current, age, stopping>> /\ rested' = FALSE
      /\ IsNext(i)
  BY DEF TimedOut, ProbeAnswered, ProbeFails, Probed, ProbeRaises, jobVars,
     timeVars, stopVars
<1>2. Undisturbed(j) /\ Patience' = Patience /\ Unrested' = 1 /\ Patience \in Int
  BY <1>0, <1>1 DEF Undisturbed, Patience, Unrested
<1>3. pc = "reconnect" /\ i \in expired \cup due /\ \A k \in expired \cup due : i <= k
  BY <1>1 DEF IsNext
<1>4. /\ IsFiniteSet((expired \cup due) \ {i})
      /\ Cardinality((expired \cup due) \ {i}) = Cardinality(expired \cup due) - 1
  BY <1>0, <1>3, FS_RemoveElement
<1>5. ASSUME state[j] = "rebooting", j # i, pc' = "reconnect", since'[j] = since[j],
             expired' \cup due' = (expired \cup due) \ {i},
             expired' \subseteq expired, j \in due => j \in due'
      PROVE  InTime(j)'
  <2>1. InTime(j)
    BY <1>2, <1>5 DEF WaitInv
  <2>2. Cardinality(expired' \cup due') = Cardinality(expired \cup due) - 1
    BY <1>4, <1>5
  <2>3. j \notin due => age[j] + Cardinality(expired \cup due) + Unrested <= Patience
    BY <1>3, <2>1 DEF InTime
  <2>4. j \notin due' => age[j] + Cardinality(expired' \cup due') + 1 <= Patience
    BY <1>0, <1>2, <1>5, <2>2, <2>3
  <2> QED
    BY <1>1, <1>2, <1>3, <1>5, <2>1, <2>4 DEF InTime
<1>6. CASE TimedOut(i)
  <2>1. /\ state[j] = "rebooting" /\ j # i
        /\ pc' = pc /\ since' = since /\ due' = due /\ expired' = expired \ {i}
    BY <1>6 DEF TimedOut, MarkFailed, Change, timeVars
  <2>2. i \notin due
    BY <1>6 DEF TimedOut, Inv, PassInv
  <2> QED
    BY <1>3, <1>5, <2>1, <2>2
<1>7. CASE ProbeAnswered(i) \/ ProbeFails(i)
  <2>1. /\ i \in due /\ pc' = pc /\ expired' = expired /\ due' = due \ {i}
        /\ \/ Change({i}, "success") /\ UNCHANGED since
           \/ Change({i}, "reconnecting") /\ since' = [since EXCEPT ![i] = 0]
    BY <1>7 DEF ProbeAnswered, ProbeFails, Probed, KeepPolling
  <2>2. state[j] = "rebooting" /\ j # i
    BY <2>1 DEF Change
  <2>3. since'[j] = since[j]
    BY <2>1, <2>2 DEF TypeOK
  <2>4. i \notin expired
    BY <2>1 DEF Inv, PassInv
  <2> QED
    BY <1>3, <1>5, <2>1, <2>2, <2>3, <2>4
<1>8. CASE ProbeRaises(i)
  <2>1. /\ state[j] = "rebooting" /\ since' = since /\ pc' = "promote"
        /\ expired' = {} /\ target[i] \in Faulty
    BY <1>8 DEF ProbeRaises, jobVars, timeVars
  <2>2. InTime(j)
    BY <1>2, <2>1 DEF WaitInv
  <2>3. j \notin due
    <3>1. i \in current
      <4>1. state[i] \in Window
        BY <1>3 DEF Inv, PassInv
      <4> QED
        BY <4>1, OpenIsCurrent DEF Inv
    <3>2. ~(i <= j)
      BY <1>2, <2>1, <3>1 DEF Undisturbed
    <3> QED
      BY <1>3, <3>2
  <2>4. Cardinality(expired \cup due) >= 1
    BY <1>0, <1>3, FS_EmptySet
  <2>5. age[j] + 1 <= Patience
    BY <1>0, <1>2, <1>3, <2>2, <2>3, <2>4 DEF InTime
  <2> QED
    BY <1>1, <1>2, <2>1, <2>2, <2>5 DEF InTime
<1> QED
  BY <1>6, <1>7, <1>8

LEMMA NextKeepsWait ==
  ASSUME TypeOK, Inv, WaitInv, Interval + Cardinality(Device) <= Timeout + 1,
         [Next]_vars
  PROVE  WaitInv'
<1>1. ThreadInv'
  BY NextKeepsThread DEF WaitInv
<1> SUFFICES ASSUME NEW j \in JobId, state'[j] = "rebooting", Undisturbed(j)'
             PROVE  InTime(j)'
  BY <1>1 DEF WaitInv
<1>2. CASE NewBatch
  <2>1. state[j] \in Verdict \cup {"unused"}
    BY <1>2 DEF NewBatch, CanStartBatch, Inv, BatchInv
  <2>2. state'[j] \in {state[j], "queued"}
    BY <1>2 DEF NewBatch, Change
  <2> QED
    BY <2>1, <2>2, States
<1>3. CASE \/ Stop \/ Shutdown \/ UNCHANGED vars \/ \E i \in JobId : Worker(i)
  <2>1. /\ UNCHANGED <<state, target, current, age, since, expired, due, pc, rested>>
        /\ stopping => stopping'
    BY <1>3 DEF Stop, Shutdown, vars, Worker, UploadEnds, jobVars, timeVars,
       passVars, stopVars
  <2>2. InTime(j)
    BY <2>1 DEF Undisturbed, WaitInv
  <2> QED
    BY <2>1, <2>2 DEF InTime, Patience, Unrested
<1>4. CASE Promote \/ Submit \/ SubmitRaises \/ Collect \/ EndPass \/ Exit
  BY <1>4, PassKeepsWait
<1>5. CASE PlanReconnect
  BY <1>5, PlanKeepsWait
<1>6. CASE Tick
  BY <1>6, TickKeepsWait
<1>7. CASE \E i \in JobId : \/ TimedOut(i) \/ ProbeAnswered(i) \/ ProbeFails(i)
                            \/ ProbeRaises(i)
  BY <1>7, JobKeepsWait
<1> QED
  BY <1>2, <1>3, <1>4, <1>5, <1>6, <1>7, Steps DEF Inv, BatchInv

\* Only the passing of its deadline fails a job that waits for its first probe.
LEMMA GivenUpByDeadline ==
  ASSUME TypeOK, Inv, [Next]_vars, NEW j \in JobId,
         state[j] = "rebooting", state'[j] = "failed"
  PROVE  TimedOut(j)
<1>1. state'[j] # state[j]
  OBVIOUS
<1>2. CASE NewBatch
  BY <1>2, States DEF NewBatch, CanStartBatch, Inv, BatchInv, Change
<1>3. CASE \/ Stop \/ Shutdown \/ Tick \/ UNCHANGED vars
           \/ \E i \in JobId : Worker(i)
  BY <1>1, <1>3 DEF Stop, Shutdown, Tick, vars, Worker, UploadEnds, jobVars
<1>4. CASE \/ Promote \/ Submit \/ SubmitRaises \/ PlanReconnect \/ EndPass \/ Exit
  BY <1>1, <1>4 DEF Promote, Submit, SubmitRaises, Uploads, PlanReconnect,
     EndPass, Exit, Change, jobVars
<1>5. CASE Collect
  BY <1>1, <1>5 DEF Collect, Finished, Inv, FutureInv
<1>6. ASSUME NEW i \in JobId, ProbeAnswered(i) \/ ProbeFails(i) \/ ProbeRaises(i)
      PROVE  FALSE
  BY <1>1, <1>6 DEF ProbeAnswered, ProbeFails, ProbeRaises, KeepPolling, Change,
     jobVars
<1>7. ASSUME NEW i \in JobId, TimedOut(i) PROVE i = j
  BY <1>1, <1>7 DEF TimedOut, MarkFailed, Change
<1> QED
  BY <1>2, <1>3, <1>4, <1>5, <1>6, <1>7, Steps DEF Inv, BatchInv

\* In a batch whose probes, one after the other, fit between the first interval
\* and the timeout, no job is given up before its device has been asked, but
\* behind a job whose probe raises.  In a larger one it is: see README.md.
THEOREM NoneGivenUpUnasked ==
  ASSUME Interval + Cardinality(Device) <= Timeout + 1
  PROVE  Spec => UnaskedOnlyBehindRaise
<1>1. Init => WaitInv
  BY DEF Init, WaitInv, ThreadInv
<1>2. TypeOK /\ Inv /\ WaitInv /\ [Next]_vars => WaitInv'
  BY NextKeepsWait
<1>3. TypeOK /\ Inv /\ WaitInv /\ [Next]_vars =>
        [\A j \in JobId :
           state[j] = "rebooting" /\ state'[j] = "failed" =>
             \E i \in current : i <= j /\ target[i] \in Faulty]_vars
  BY GivenUpByDeadline DEF TimedOut, WaitInv, InTime, Undisturbed
<1> QED
  BY <1>1, <1>2, <1>3, InvHolds, PTL DEF Spec, UnaskedOnlyBehindRaise

\* Where every error of a probe is an AppError, no job at all is given up
\* unasked: the raising probe is the only cause.
THEOREM WithoutRaiseAllAreAsked ==
  ASSUME Interval + Cardinality(Device) <= Timeout + 1, Faulty = {}
  PROVE  Spec => AskedBeforeGivenUp
<1>1. [\A j \in JobId :
         state[j] = "rebooting" /\ state'[j] = "failed" =>
           \E i \in current : i <= j /\ target[i] \in Faulty]_vars
      => [\A j \in JobId :
            state[j] = "rebooting" /\ state'[j] = "failed" => target[j] \in Faulty]_vars
  OBVIOUS
<1> QED
  BY <1>1, NoneGivenUpUnasked, PTL DEF UnaskedOnlyBehindRaise, AskedBeforeGivenUp

=============================================================================
