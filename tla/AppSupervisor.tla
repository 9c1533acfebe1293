--------------------------- MODULE AppSupervisor ---------------------------
(***************************************************************************)
(* application/core/app_supervisor.py with its scheduler, its executors and *)
(* the Qt thread that calls it.                                            *)
(*                                                                         *)
(* Three kinds of thread run: the Qt thread (Ui* actions), the scheduler    *)
(* thread (drain, dispatch, submit) and the executor workers.  A device is  *)
(* seen through what the scheduler reads of it: whether it has a snapshot   *)
(* and an actor, whether it is connected, has a session, is busy.           *)
(***************************************************************************)
EXTENDS TaskScheduler

CONSTANTS
  ConnectWorkers,  \* max_workers of the connect executor (8)
  DefaultWorkers,  \* max_workers of the default executor (4)
  Removable,       \* devices the operator may delete
  MayStop,         \* whether the operator may close the program
  MaxUiSeq         \* bound: the operator enqueues while sequences are below it

ASSUME SupervisorAssumption ==
  /\ ConnectWorkers \in Nat \ {0}
  /\ DefaultWorkers \in Nat \ {0}
  /\ Removable \subseteq Device
  /\ MayStop \in BOOLEAN
  /\ MaxUiSeq \in Nat

VARIABLES
  nextSeq,      \* itertools.count of the scheduler
  \* registry and actors
  known,        \* devices with a snapshot
  actors,       \* devices with an actor
  connected,    \* devices whose snapshot says connected
  session,      \* devices whose actor answers has_session
  busy,         \* devices whose attached actor is executing
  \* supervisor
  pc,           \* where the scheduler thread is
  batches,      \* connect batches: status, remaining, successes
  autoTodo,     \* devices of a finished batch still to get their auto info
  \* Qt thread
  uiTodo,       \* devices of the batch being enqueued not yet drawn
  uiBatch,      \* that batch
  uiDrawn,      \* item with a sequence number, not yet pushed
  \* shutdown
  stopping,     \* _stop_event
  executorsUp   \* executors accept tasks

deviceVars   == <<known, actors, connected, session, busy>>
uiVars       == <<uiTodo, uiBatch, uiDrawn>>
stopVars     == <<stopping, executorsUp>>
vars == <<schedulerVars, nextSeq, deviceVars, pc, batches, autoTodo,
          uiVars, stopVars>>

UnusedBatch == [status |-> "unused", remaining |-> 0, success |-> {}]

Batch == [status : {"unused", "open", "closed"}, remaining : Nat,
          success : SUBSET Device]

Init ==
  /\ queues = [l \in Lane |-> {}]
  /\ submitted = {} /\ inflight = {} /\ scan = 1
  /\ nextSeq = 1
  /\ known = {} /\ actors = {} /\ connected = {} /\ session = {} /\ busy = {}
  /\ pc = "drain"
  /\ batches = [b \in BatchId |-> UnusedBatch]
  /\ autoTodo = {}
  /\ uiTodo = {} /\ uiBatch = NoBatch /\ uiDrawn = {}
  /\ stopping = FALSE /\ executorsUp = TRUE

----------------------------------------------------------------------------
(* The Qt thread.  It runs one slot at a time to its end.                  *)

UiIdle == uiTodo = {} /\ uiDrawn = {} /\ ~stopping

\* add_device: the new actor has a session at once when a late write left a
\* snapshot of the deleted device, or when the row comes with probe metadata.
\* Neither window hands rows with metadata over ("probe" is None or missing),
\* so that a row listed with its actor is left as it is.
UiAddDevice(ip) ==
  /\ UiIdle
  /\ ip \notin actors
  /\ known' = known \cup {ip}
  /\ actors' = actors \cup {ip}
  /\ session' \in {session, session \cup {ip}}
  /\ UNCHANGED <<schedulerVars, nextSeq, connected, busy, pc, batches,
                 autoTodo, uiVars, stopVars>>

\* Mutant: the registry forgets the snapshot and not the actor.
UiRemoveKeepsActor(ip) ==
  /\ UiIdle
  /\ ip \in known \cap Removable
  /\ known' = known \ {ip}
  /\ connected' = connected \ {ip}
  /\ session' = session \ {ip}
  /\ UNCHANGED <<schedulerVars, nextSeq, actors, busy, pc, batches, autoTodo,
                 uiVars, stopVars>>

\* Mutant: the deletion also clears the device's in-flight mark.
UiRemoveClearsMark(ip) ==
  /\ UiIdle
  /\ ip \in known \cap Removable
  /\ known' = known \ {ip}
  /\ actors' = actors \ {ip}
  /\ connected' = connected \ {ip}
  /\ session' = session \ {ip}
  /\ busy' = busy \ {ip}
  /\ submitted' = submitted \ {ip}
  /\ UNCHANGED <<queues, inflight, scan, nextSeq, pc, batches, autoTodo, uiVars,
                 stopVars>>

UiRemoveDevice(ip) ==
  /\ UiIdle
  /\ ip \in known \cap Removable
  /\ known' = known \ {ip}
  /\ actors' = actors \ {ip}
  /\ connected' = connected \ {ip}
  /\ session' = session \ {ip}
  /\ busy' = busy \ {ip}
  /\ UNCHANGED <<schedulerVars, nextSeq, pc, batches, autoTodo, uiVars, stopVars>>

UiDisconnect(ip) ==
  /\ UiIdle
  /\ ip \in known
  /\ connected' = connected \ {ip}
  /\ session' = session \ {ip}
  /\ UNCHANGED <<schedulerVars, nextSeq, known, actors, busy, pc, batches,
                 autoTodo, uiVars, stopVars>>

\* The sequence number is taken before the scheduler's lock.
Draw(ip, lane, b) ==
  /\ uiDrawn' = {NewItem(nextSeq, ip, lane, b)}
  /\ nextSeq' = nextSeq + 1

UiEnqueue(ip, lane) ==
  /\ UiIdle
  /\ nextSeq <= MaxUiSeq
  /\ Draw(ip, lane, NoBatch)
  /\ UNCHANGED <<schedulerVars, deviceVars, pc, batches, autoTodo, uiTodo,
                 uiBatch, stopVars>>

\* What the slots of the main window ask of a device; one without an actor
\* passes.
Controllable(ip) ==
  /\ ip \in known \cap connected
  /\ ip \in actors => ip \in session

UiLoadInfo(ip) == Controllable(ip) /\ UiEnqueue(ip, "info")

UiPollStatus(ip) == Controllable(ip) /\ UiEnqueue(ip, "poll_hot")

\* Some twenty slots, from a press and its release on.
UiControl(ip) == Controllable(ip) /\ UiEnqueue(ip, "control")

\* A firmware batch that ended asks for an info load of its devices without
\* looking.
FirmwareInfo(ip) == UiEnqueue(ip, "info")

\* A page of the video window polls the devices it shows.
VideoPoll(ip) == ip \in known \cap connected /\ UiEnqueue(ip, "poll_hot")

\* The rows ticked, selected or focused; with none of them the slot returns.
ConnectTargets == (SUBSET known) \ {{}}

UiConnectBatch(ips, b) ==
  /\ UiIdle
  /\ ips \in ConnectTargets
  /\ nextSeq + Cardinality(ips) <= MaxUiSeq + 1
  /\ batches[b] = UnusedBatch
  /\ batches' = [batches EXCEPT ![b] = [status |-> "open",
                     remaining |-> Cardinality(ips), success |-> {}]]
  /\ uiTodo' = ips
  /\ uiBatch' = b
  /\ UNCHANGED <<schedulerVars, nextSeq, deviceVars, pc, autoTodo, uiDrawn,
                 stopVars>>

UiBatchNext ==
  \E ip \in uiTodo :
    /\ uiDrawn = {}
    /\ uiTodo' = uiTodo \ {ip}
    /\ Draw(ip, "connect", uiBatch)
    /\ UNCHANGED <<schedulerVars, deviceVars, pc, batches, autoTodo, uiBatch,
                   stopVars>>

\* The push needs the lock a dispatch call holds from its first lane to its last.
UiPush ==
  /\ uiDrawn # {}
  /\ pc # "dispatch"
  /\ Enqueue(uiDrawn)
  /\ uiDrawn' = {}
  /\ UNCHANGED <<submitted, inflight, scan, nextSeq, deviceVars, pc, batches,
                 autoTodo, uiTodo, uiBatch, stopVars>>

UiStop ==
  /\ UiIdle /\ MayStop
  /\ stopping' = TRUE
  /\ UNCHANGED <<schedulerVars, nextSeq, deviceVars, pc, batches, autoTodo,
                 uiVars, executorsUp>>

\* The join ends with the thread or after two seconds, whatever comes first.
UiShutdown ==
  /\ stopping /\ executorsUp
  /\ executorsUp' = FALSE
  /\ UNCHANGED <<schedulerVars, nextSeq, deviceVars, pc, batches, autoTodo,
                 uiVars, stopping>>

Ui ==
  \/ \E ip \in Device : UiAddDevice(ip) \/ UiRemoveDevice(ip) \/ UiDisconnect(ip)
  \/ \E ip \in Device : \/ UiLoadInfo(ip) \/ UiPollStatus(ip) \/ UiControl(ip)
                         \/ FirmwareInfo(ip) \/ VideoPoll(ip)
  \/ \E ips \in SUBSET Device, b \in BatchId : UiConnectBatch(ips, b)
  \/ UiBatchNext
  \/ UiPush
  \/ UiStop
  \/ UiShutdown

----------------------------------------------------------------------------
(* The scheduler thread.                                                   *)

\* Mutant: a connect that failed is not counted down.
CountOnlySuccess(b, ip, ok) ==
  LET left == IF ok THEN batches[b].remaining - 1 ELSE batches[b].remaining
      won  == IF ok THEN batches[b].success \cup {ip} ELSE batches[b].success
  IN IF left = 0
     THEN /\ batches' = [batches EXCEPT ![b] =
                           [status |-> "closed", remaining |-> 0, success |-> {}]]
          /\ autoTodo' = won
     ELSE /\ batches' = [batches EXCEPT ![b] =
                           [status |-> "open", remaining |-> left, success |-> won]]
          /\ autoTodo' = {}

\* Mutant: the batch is popped while one connect is still missing.
CloseOneShort(b, ip, ok) ==
  LET left == IF batches[b].remaining > 0 THEN batches[b].remaining - 1 ELSE 0
      won  == IF ok THEN batches[b].success \cup {ip} ELSE batches[b].success
  IN IF left <= 1
     THEN /\ batches' = [batches EXCEPT ![b] =
                           [status |-> "closed", remaining |-> 0, success |-> {}]]
          /\ autoTodo' = won
     ELSE /\ batches' = [batches EXCEPT ![b] =
                           [status |-> "open", remaining |-> left, success |-> won]]
          /\ autoTodo' = {}

\* One connect of an open batch is accounted for; the last one pops the batch
\* and leaves its successes to the auto info.
CloseOrCount(b, ip, ok) ==
  LET left == IF batches[b].remaining > 0 THEN batches[b].remaining - 1 ELSE 0
      won  == IF ok THEN batches[b].success \cup {ip} ELSE batches[b].success
  IN IF left = 0
     THEN /\ batches' = [batches EXCEPT ![b] =
                           [status |-> "closed", remaining |-> 0, success |-> {}]]
          /\ autoTodo' = won
     ELSE /\ batches' = [batches EXCEPT ![b] =
                           [status |-> "open", remaining |-> left, success |-> won]]
          /\ autoTodo' = {}

DrainNext ==
  \E e \in At("ok") \cup At("failed") :
    /\ pc = "drain" /\ autoTodo = {}
    /\ Retire(e)
    /\ IF e.task.batch # NoBatch /\ batches[e.task.batch].status = "open"
       THEN CloseOrCount(e.task.batch, e.task.ip, e.stage = "ok")
       ELSE UNCHANGED <<batches, autoTodo>>
    /\ UNCHANGED <<queues, scan, nextSeq, deviceVars, pc, uiVars, stopVars>>

AutoInfo ==
  \E ip \in autoTodo :
    /\ pc = "drain"
    /\ autoTodo' = autoTodo \ {ip}
    /\ IF ip \in known \cap connected /\ (ip \in actors => ip \in session)
       THEN /\ Enqueue({NewItem(nextSeq, ip, "info", NoBatch),
                        NewItem(nextSeq + 1, ip, "poll_hot", NoBatch)})
            /\ nextSeq' = nextSeq + 2
       ELSE UNCHANGED <<queues, nextSeq>>
    /\ UNCHANGED <<submitted, inflight, scan, deviceVars, pc, batches, uiVars,
                   stopVars>>

StartDispatch ==
  /\ pc = "drain" /\ autoTodo = {}
  /\ At("ok") \cup At("failed") = {}
  /\ pc' = "dispatch"
  /\ scan' = 1
  /\ UNCHANGED <<queues, submitted, inflight, nextSeq, deviceVars, batches,
                 autoTodo, uiVars, stopVars>>

Online == connected \cup session

Dispatch ==
  /\ pc = "dispatch"
  /\ \E i \in 1..7 :
       /\ IsNextLane(i)
       /\ \/ DropHead(i, actors)
          \/ PickHead(i, actors, known, Online, busy)
          \/ HoldHead(i, actors, known, Online, busy)
  /\ UNCHANGED <<nextSeq, deviceVars, pc, batches, autoTodo, uiVars, stopVars>>

EndDispatch ==
  /\ pc = "dispatch"
  /\ ScanEnds
  /\ pc' = "submit"
  /\ UNCHANGED <<schedulerVars, nextSeq, deviceVars, batches, autoTodo, uiVars,
                 stopVars>>

Submit ==
  \E e \in At("picked") :
    /\ pc = "submit" /\ executorsUp
    /\ Advance(e, "pool")
    /\ UNCHANGED <<queues, submitted, scan, nextSeq, deviceVars, pc, batches,
                   autoTodo, uiVars, stopVars>>

SubmitFails ==
  \E e \in At("picked") :
    /\ pc = "submit" /\ ~executorsUp
    /\ Retire(e)
    /\ UNCHANGED <<queues, scan, nextSeq, deviceVars, pc, batches, autoTodo,
                   uiVars, stopVars>>

\* The wait between two passes has a 50 ms timeout, so it always ends.
EndPass ==
  /\ pc = "submit"
  /\ At("picked") = {}
  /\ pc' = IF stopping THEN "exited" ELSE "drain"
  /\ UNCHANGED <<schedulerVars, nextSeq, deviceVars, batches, autoTodo, uiVars,
                 stopVars>>

SchedulerThread ==
  \/ DrainNext \/ AutoInfo \/ StartDispatch
  \/ Dispatch \/ EndDispatch
  \/ Submit \/ SubmitFails \/ EndPass

----------------------------------------------------------------------------
(* The executor workers.                                                   *)

HasFreeWorker(lane) ==
  IF lane = "connect"
  THEN Cardinality({e \in At("running") : e.task.lane = "connect"}) < ConnectWorkers
  ELSE Cardinality({e \in At("running") : e.task.lane # "connect"}) < DefaultWorkers

WorkerStart(e) ==
  /\ e \in At("pool")
  /\ HasFreeWorker(e.task.lane)
  /\ e.task.ip \in actors \ busy
  /\ Advance(e, "running")
  /\ busy' = busy \cup {e.task.ip}
  /\ UNCHANGED <<queues, submitted, scan, nextSeq, known, actors, connected,
                 session, pc, batches, autoTodo, uiVars, stopVars>>

\* No actor any more, or an actor that refuses a second task.
WorkerRejected(e) ==
  /\ e \in At("pool")
  /\ HasFreeWorker(e.task.lane)
  /\ e.task.ip \notin actors \ busy
  /\ Advance(e, "failed")
  /\ UNCHANGED <<queues, submitted, scan, nextSeq, deviceVars, pc, batches,
                 autoTodo, uiVars, stopVars>>

WorkerLeaves(e, result) ==
  /\ e \in At("running")
  /\ Advance(e, result)
  /\ busy' = busy \ {e.task.ip}
  /\ UNCHANGED <<queues, submitted, scan, nextSeq, actors, pc, batches,
                 autoTodo, uiVars, stopVars>>

\* A disconnect between the lifting of the hold and the write of the result
\* leaves the device connected with an actor on hold, which has no session.
ConnectSucceeds(e) ==
  /\ e.task.lane = "connect" /\ e.task.ip \in known
  /\ WorkerLeaves(e, "ok")
  /\ connected' = connected \cup {e.task.ip}
  /\ session' \in {session, session \cup {e.task.ip}}
  /\ UNCHANGED known

\* A read marks the device connected; a control, or a task that found the
\* device put on hold by the operator, leaves it as it is.
TaskSucceeds(e) ==
  /\ e.task.lane # "connect" /\ e.task.ip \in known
  /\ WorkerLeaves(e, "ok")
  /\ connected' \in {connected, connected \cup {e.task.ip}}
  /\ UNCHANGED <<known, session>>

\* Network and authentication errors disconnect the device, others do not;
\* a deleted device's snapshot is missing and nothing is written.
TaskFails(e) ==
  /\ WorkerLeaves(e, "failed")
  /\ connected' \in {connected, connected \ {e.task.ip}}
  /\ UNCHANGED <<known, session>>

\* The device was deleted between the worker's read and its write: the write
\* brings the snapshot back, without an actor.
LateWrite(e, result) ==
  /\ e.task.ip \notin known
  /\ WorkerLeaves(e, result)
  /\ known' = known \cup {e.task.ip}
  /\ connected' \in {connected, connected \cup {e.task.ip}}
  /\ UNCHANGED session

WorkerEnd(e) ==
  \/ ConnectSucceeds(e) \/ TaskSucceeds(e) \/ TaskFails(e)
  \/ LateWrite(e, "ok") \/ LateWrite(e, "failed")

Workers ==
  \E e \in inflight : WorkerStart(e) \/ WorkerRejected(e) \/ WorkerEnd(e)

----------------------------------------------------------------------------
Next == Ui \/ SchedulerThread \/ Workers

Spec == Init /\ [][Next]_vars

\* Device work ends (every request has a timeout), executors serve their
\* queues in order, the scheduler thread loops, and the Qt thread finishes a
\* slot it began; it gets the scheduler's lock because the scheduler thread
\* waits outside it.  Nothing makes the operator act.
Fairness ==
  /\ WF_vars(SchedulerThread)
  /\ WF_vars(UiBatchNext)
  /\ SF_vars(UiPush)
  /\ \A ip \in Device :
       /\ WF_vars(\E e \in inflight : e.task.ip = ip
                                      /\ (WorkerStart(e) \/ WorkerRejected(e)))
       /\ WF_vars(\E e \in inflight : e.task.ip = ip /\ WorkerEnd(e))

FairSpec == Spec /\ Fairness

----------------------------------------------------------------------------
(* Properties.                                                             *)

\* Every variable holds values of its type.
TypeOK ==
  /\ queues \in [Lane -> SUBSET Item]
  /\ submitted \in SUBSET Device
  /\ inflight \in SUBSET [task : Item, stage : Stage]
  /\ scan \in 1..8
  /\ nextSeq \in Nat \ {0}
  /\ known \in SUBSET Device /\ actors \in SUBSET known
  /\ connected \in SUBSET known /\ session \in SUBSET known
  /\ busy \in SUBSET actors
  /\ pc \in {"drain", "dispatch", "submit", "exited"}
  /\ batches \in [BatchId -> Batch]
  /\ autoTodo \in SUBSET Device
  /\ uiTodo \in SUBSET Device /\ uiBatch \in BatchId \cup {NoBatch}
  /\ uiDrawn \in SUBSET Item
  /\ stopping \in BOOLEAN /\ executorsUp \in BOOLEAN

\* A device never has two tasks between dispatch and completion, not even
\* across its deletion and re-addition (README_dev: per-device inflight = 1).
OneInFlightPerDevice ==
  \A e, f \in inflight : e.task.ip = f.task.ip => e = f

\* A device is marked submitted exactly while a task of it is in flight: no
\* path loses the completion that clears the mark and freezes the device, and
\* none clears it early.
MarksMatchTasks == submitted = {e.task.ip : e \in inflight}

\* A worker never reaches begin_task of an actor that is already executing,
\* whatever was deleted and added again meanwhile.
NeverRejectedBusy ==
  \A e \in At("pool") : e.task.ip \notin busy

\* Commands of the operator reach a device in the order they were given: none
\* of a control (a PTZ "stop" after its "move") or connect lane is dispatched
\* while an earlier one of that lane still waits.
CommandsInOrder ==
  \A e \in inflight, l \in {"control", "connect"} :
    \A u \in queues[l] :
      e.task.lane = l /\ e.task.ip = u.ip => e.task.seq < u.seq

\* Connects of batch b that are not accounted for yet.
Outstanding(b) ==
  {t \in queues["connect"] : t.batch = b}
    \cup {t \in uiDrawn : t.batch = b}
    \cup {e.task : e \in {f \in inflight : f.task.batch = b}}

NotYetDrawn(b) == IF uiBatch = b THEN Cardinality(uiTodo) ELSE 0

\* A connect batch is reported finished, and its auto info starts, only when
\* no connect of it is queued, in flight or still to be enqueued.
BatchNeverClosesEarly ==
  \A b \in BatchId :
    Cardinality(Outstanding(b)) + NotYetDrawn(b) <= batches[b].remaining

\* A sequence number is in use while its item waits or is in flight.
InUse(n) ==
  \/ \E l \in Lane : \E t \in queues[l] : t.seq = n
  \/ \E t \in uiDrawn : t.seq = n
  \/ \E e \in inflight : e.task.seq = n

\* Every task the operator or the auto info enqueues is executed or discarded
\* unless the program stops first: neither the connect prerequisite nor a
\* device at the head of a lane blocks the queues for ever.
EveryTaskLeaves ==
  \A n \in 1..MaxUiSeq : InUse(n) ~> (~InUse(n) \/ stopping)

\* Every connect batch is reported finished unless the program stops first.
EveryBatchCloses ==
  \A b \in BatchId :
    batches[b].status = "open" ~> (batches[b].status = "closed" \/ stopping)

\* A connect batch opened while every device has an actor is reported finished
\* unless a device is deleted before, or the program stops: connects that fail, are
\* refused, or whose device was disconnected are counted down like the others.
UndisturbedBatchCloses ==
  \A b \in BatchId :
    uiTodo # {} /\ uiBatch = b /\ actors = Device
      ~> (batches[b].status = "closed" \/ stopping \/ actors # Device)

=============================================================================
