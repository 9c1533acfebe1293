------------------------ MODULE AppSupervisor_proofs ------------------------
(***************************************************************************)
(* Proofs about AppSupervisor, for every set of devices, every number of    *)
(* workers and every limit: type correctness, one task per device between   *)
(* dispatch and completion, no task refused by a busy actor, commands of    *)
(* the operator dispatched in their order, batches closed only when their   *)
(* connects are over, and lanes that never wait for each other in a circle. *)
(***************************************************************************)
EXTENDS AppSupervisor, LeastNumber, FiniteSetTheorems, TLAPS

LEMMA LaneNames ==
  Lane = {"control", "connect", "info", "poll_hot", "poll_warm",
          "firmware", "udp_admin"}
<1>1. 1..7 = {1, 2, 3, 4, 5, 6, 7}
  BY SMT
<1>2. Lane = {LaneOrder[1], LaneOrder[2], LaneOrder[3], LaneOrder[4],
              LaneOrder[5], LaneOrder[6], LaneOrder[7]}
  BY <1>1, SMT DEF Lane
<1> QED
  BY <1>2, SMT DEF LaneOrder

LEMMA LaneOfIndex == ASSUME NEW i \in 1..7 PROVE LaneOrder[i] \in Lane
BY DEF Lane

\* An item the threads build is an Item.
LEMMA NewItemType ==
  ASSUME NEW n \in Nat, NEW ip \in Device, NEW lane \in Lane,
         NEW b \in BatchId \cup {NoBatch}
  PROVE  NewItem(n, ip, lane, b) \in Item
BY DEF NewItem, Item

----------------------------------------------------------------------------
(* Type correctness: one step per action.                                  *)

LEMMA InitType == Init => TypeOK
<1> SUFFICES ASSUME Init PROVE TypeOK
  OBVIOUS
<1>1. queues \in [Lane -> SUBSET Item]
  BY DEF Init
<1>2. UnusedBatch \in Batch
  BY DEF UnusedBatch, Batch
<1>3. batches \in [BatchId -> Batch]
  BY <1>2 DEF Init
<1>4. /\ scan \in 1..8 /\ nextSeq \in Nat \ {0}
      /\ pc \in {"drain", "dispatch", "submit", "exited"}
  BY DEF Init
<1>5. /\ submitted = {} /\ inflight = {} /\ known = {} /\ actors = {}
      /\ connected = {} /\ session = {} /\ busy = {} /\ autoTodo = {}
      /\ uiTodo = {} /\ uiDrawn = {} /\ uiBatch = NoBatch
      /\ stopping = FALSE /\ executorsUp = TRUE
  BY DEF Init
<1> QED
  BY <1>1, <1>3, <1>4, <1>5, Zenon DEF TypeOK

LEMMA EnqueueType ==
  ASSUME queues \in [Lane -> SUBSET Item], NEW S \in SUBSET Item, Enqueue(S)
  PROVE  queues' \in [Lane -> SUBSET Item]
BY DEF Enqueue

LEMMA AdvanceType ==
  ASSUME inflight \in SUBSET [task : Item, stage : Stage],
         NEW e \in inflight, NEW stage \in Stage, Advance(e, stage)
  PROVE  inflight' \in SUBSET [task : Item, stage : Stage]
BY DEF Advance

LEMMA RetireType ==
  ASSUME inflight \in SUBSET [task : Item, stage : Stage],
         submitted \in SUBSET Device,
         NEW e \in inflight, Retire(e)
  PROVE  /\ inflight' \in SUBSET [task : Item, stage : Stage]
         /\ submitted' \in SUBSET Device
BY DEF Retire

\* The slots of the windows that enqueue one task.
Slot(ip) ==
  \/ UiLoadInfo(ip) \/ UiPollStatus(ip) \/ UiControl(ip)
  \/ FirmwareInfo(ip) \/ VideoPoll(ip)

LEMMA SlotsEnqueue ==
  ASSUME NEW ip \in Device, Slot(ip)
  PROVE  \E lane \in Lane : UiEnqueue(ip, lane)
BY LaneNames DEF Slot, UiLoadInfo, UiPollStatus, UiControl, FirmwareInfo, VideoPoll

LEMMA UiType == TypeOK /\ Ui => TypeOK'
<1> SUFFICES ASSUME TypeOK, Ui PROVE TypeOK'
  OBVIOUS
<1>1. ASSUME NEW ip \in Device, UiAddDevice(ip) PROVE TypeOK'
  BY <1>1 DEF UiAddDevice, TypeOK, schedulerVars, uiVars, stopVars
<1>2. ASSUME NEW ip \in Device, UiRemoveDevice(ip) PROVE TypeOK'
  BY <1>2 DEF UiRemoveDevice, TypeOK, schedulerVars, uiVars, stopVars
<1>3. ASSUME NEW ip \in Device, UiDisconnect(ip) PROVE TypeOK'
  BY <1>3 DEF UiDisconnect, TypeOK, schedulerVars, uiVars, stopVars
<1>4. ASSUME NEW ip \in Device, Slot(ip) PROVE TypeOK'
  <2>1. PICK lane \in Lane : UiEnqueue(ip, lane)
    BY <1>4, SlotsEnqueue
  <2>2. uiDrawn' \in SUBSET Item /\ nextSeq' \in Nat \ {0}
    BY <2>1, NewItemType DEF UiEnqueue, Draw, TypeOK
  <2> QED
    BY <2>1, <2>2
    DEF UiEnqueue, TypeOK, schedulerVars, deviceVars, stopVars
<1>5. ASSUME NEW ips \in SUBSET Device, NEW b \in BatchId,
             UiConnectBatch(ips, b)
      PROVE TypeOK'
  <2>1. Cardinality(ips) \in Nat
    BY SchedulerAssumption, FS_Subset, FS_CardinalityType
  <2> QED
    BY <1>5, <2>1
    DEF UiConnectBatch, ConnectTargets, TypeOK, Batch, schedulerVars, deviceVars, stopVars
<1>6. ASSUME UiBatchNext PROVE TypeOK'
  <2>1. PICK ip \in uiTodo : /\ uiTodo' = uiTodo \ {ip}
                             /\ Draw(ip, "connect", uiBatch)
    BY <1>6 DEF UiBatchNext
  <2>2. "connect" \in Lane
    BY LaneNames
  <2>3. uiDrawn' \in SUBSET Item /\ nextSeq' \in Nat \ {0}
    BY <2>1, <2>2, NewItemType DEF Draw, TypeOK
  <2> QED
    BY <1>6, <2>1, <2>3
    DEF UiBatchNext, TypeOK, schedulerVars, deviceVars, stopVars
<1>7. ASSUME UiPush PROVE TypeOK'
  BY <1>7, EnqueueType DEF UiPush, TypeOK, deviceVars, stopVars
<1>8. ASSUME UiStop PROVE TypeOK'
  BY <1>8 DEF UiStop, TypeOK, schedulerVars, deviceVars, uiVars
<1>9. ASSUME UiShutdown PROVE TypeOK'
  BY <1>9 DEF UiShutdown, TypeOK, schedulerVars, deviceVars, uiVars
<1> QED
  BY <1>1, <1>2, <1>3, <1>4, <1>5, <1>6, <1>7, <1>8, <1>9 DEF Ui, Slot

LEMMA SchedulerType == TypeOK /\ SchedulerThread => TypeOK'
<1> SUFFICES ASSUME TypeOK, SchedulerThread PROVE TypeOK'
  OBVIOUS
<1>1. ASSUME DrainNext PROVE TypeOK'
  <2>1. PICK e \in inflight :
          /\ Retire(e)
          /\ IF e.task.batch # NoBatch /\ batches[e.task.batch].status = "open"
             THEN CloseOrCount(e.task.batch, e.task.ip, e.stage = "ok")
             ELSE UNCHANGED <<batches, autoTodo>>
    BY <1>1 DEF DrainNext, At
  <2>2. /\ inflight' \in SUBSET [task : Item, stage : Stage]
        /\ submitted' \in SUBSET Device
    BY <2>1, RetireType DEF TypeOK
  <2>3. e.task \in Item
    BY DEF TypeOK
  <2>4. batches' \in [BatchId -> Batch] /\ autoTodo' \in SUBSET Device
    <3>1. CASE UNCHANGED <<batches, autoTodo>>
      BY <3>1 DEF TypeOK
    <3>2. CASE /\ e.task.batch # NoBatch
               /\ CloseOrCount(e.task.batch, e.task.ip, e.stage = "ok")
      <4>1. e.task.batch \in BatchId /\ e.task.ip \in Device
        BY <2>3, <3>2 DEF Item
      <4>2. batches[e.task.batch] \in Batch
        BY <4>1 DEF TypeOK
      <4>3. ASSUME NEW w \in SUBSET Device, NEW n \in Nat
            PROVE  [status |-> "open", remaining |-> n, success |-> w] \in Batch
        BY DEF Batch
      <4> DEFINE left == IF batches[e.task.batch].remaining > 0
                         THEN batches[e.task.batch].remaining - 1 ELSE 0
                 won  == IF e.stage = "ok"
                         THEN batches[e.task.batch].success \cup {e.task.ip}
                         ELSE batches[e.task.batch].success
      <4>4. left \in Nat /\ won \in SUBSET Device /\ {} \in SUBSET Device
        BY <4>1, <4>2 DEF Batch
      <4>5. \/ /\ batches' = [batches EXCEPT ![e.task.batch] =
                     [status |-> "closed", remaining |-> 0, success |-> {}]]
               /\ autoTodo' = won
            \/ /\ batches' = [batches EXCEPT ![e.task.batch] =
                     [status |-> "open", remaining |-> left, success |-> won]]
               /\ autoTodo' = {}
        BY <3>2 DEF CloseOrCount
      <4>6. [status |-> "closed", remaining |-> 0, success |-> {}] \in Batch
        BY DEF Batch
      <4> HIDE DEF left, won
      <4>7. [status |-> "open", remaining |-> left, success |-> won] \in Batch
        BY <4>3, <4>4
      <4> QED
        BY <4>1, <4>4, <4>5, <4>6, <4>7 DEF TypeOK
    <3> QED
      BY <2>1, <3>1, <3>2
  <2> QED
    BY <1>1, <2>2, <2>4 DEF DrainNext, TypeOK, deviceVars, uiVars, stopVars
<1>2. ASSUME AutoInfo PROVE TypeOK'
  <2>1. PICK ip \in autoTodo :
          /\ autoTodo' = autoTodo \ {ip}
          /\ \/ /\ Enqueue({NewItem(nextSeq, ip, "info", NoBatch),
                            NewItem(nextSeq + 1, ip, "poll_hot", NoBatch)})
                /\ nextSeq' = nextSeq + 2
             \/ UNCHANGED <<queues, nextSeq>>
    BY <1>2 DEF AutoInfo
  <2>2. {NewItem(nextSeq, ip, "info", NoBatch),
         NewItem(nextSeq + 1, ip, "poll_hot", NoBatch)} \in SUBSET Item
    BY NewItemType, LaneNames DEF TypeOK
  <2>3. queues' \in [Lane -> SUBSET Item] /\ nextSeq' \in Nat \ {0}
    BY <2>1, <2>2, EnqueueType DEF TypeOK
  <2> QED
    BY <1>2, <2>1, <2>3 DEF AutoInfo, TypeOK, deviceVars, uiVars, stopVars
<1>3. ASSUME StartDispatch PROVE TypeOK'
  BY <1>3 DEF StartDispatch, TypeOK, deviceVars, uiVars, stopVars
<1>4. ASSUME Dispatch PROVE TypeOK'
  <2>1. PICK i \in 1..7 : \/ DropHead(i, actors)
                          \/ PickHead(i, actors, known, Online, busy)
                          \/ HoldHead(i, actors, known, Online, busy)
    BY <1>4 DEF Dispatch
  <2>2. LaneOrder[i] \in Lane
    BY LaneOfIndex
  <2>3. UNCHANGED <<nextSeq, deviceVars, pc, batches, autoTodo, uiVars, stopVars>>
    BY <1>4 DEF Dispatch
  <2>4. /\ queues' \in [Lane -> SUBSET Item]
        /\ submitted' \in SUBSET Device
        /\ inflight' \in SUBSET [task : Item, stage : Stage]
        /\ scan' \in 1..8
    <3>1. CASE DropHead(i, actors)
      BY <2>2, <3>1 DEF DropHead, TypeOK
    <3>2. CASE PickHead(i, actors, known, Online, busy)
      <4>1. PICK t \in queues[LaneOrder[i]] :
              /\ queues' = [queues EXCEPT ![LaneOrder[i]] = @ \ {t}]
              /\ submitted' = submitted \cup {t.ip}
              /\ inflight' = inflight \cup {[task |-> t, stage |-> "picked"]}
              /\ scan' = 1
        BY <3>2 DEF PickHead
      <4>2. t \in Item /\ t.ip \in Device
        BY <2>2 DEF TypeOK, Item
      <4>3. [task |-> t, stage |-> "picked"] \in [task : Item, stage : Stage]
        BY <4>2 DEF Stage
      <4> QED
        BY <2>2, <4>1, <4>2, <4>3 DEF TypeOK
    <3>3. CASE HoldHead(i, actors, known, Online, busy)
      BY <3>3 DEF HoldHead, TypeOK
    <3> QED
      BY <2>1, <3>1, <3>2, <3>3
  <2> QED
    BY <2>3, <2>4 DEF TypeOK, deviceVars, uiVars, stopVars
<1>5. ASSUME EndDispatch PROVE TypeOK'
  BY <1>5 DEF EndDispatch, TypeOK, schedulerVars, deviceVars, uiVars, stopVars
<1>6. ASSUME Submit PROVE TypeOK'
  <2>1. PICK e \in inflight : Advance(e, "pool")
    BY <1>6 DEF Submit, At
  <2>2. inflight' \in SUBSET [task : Item, stage : Stage]
    BY <2>1, AdvanceType DEF TypeOK, Stage
  <2> QED
    BY <1>6, <2>2 DEF Submit, TypeOK, deviceVars, uiVars, stopVars
<1>7. ASSUME SubmitFails PROVE TypeOK'
  <2>1. PICK e \in inflight : Retire(e)
    BY <1>7 DEF SubmitFails, At
  <2>2. /\ inflight' \in SUBSET [task : Item, stage : Stage]
        /\ submitted' \in SUBSET Device
    BY <2>1, RetireType DEF TypeOK
  <2> QED
    BY <1>7, <2>2 DEF SubmitFails, TypeOK, deviceVars, uiVars, stopVars
<1>8. ASSUME EndPass PROVE TypeOK'
  BY <1>8 DEF EndPass, TypeOK, schedulerVars, deviceVars, uiVars, stopVars
<1> QED
  BY <1>1, <1>2, <1>3, <1>4, <1>5, <1>6, <1>7, <1>8 DEF SchedulerThread

LEMMA WorkerType == TypeOK /\ Workers => TypeOK'
<1> SUFFICES ASSUME TypeOK, NEW e \in inflight,
                    WorkerStart(e) \/ WorkerRejected(e) \/ WorkerEnd(e)
             PROVE  TypeOK'
  BY DEF Workers
<1>1. e.task \in Item /\ e.task.ip \in Device
  BY DEF TypeOK, Item
<1>2. CASE WorkerStart(e)
  <2>1. inflight' \in SUBSET [task : Item, stage : Stage]
    BY <1>2, AdvanceType DEF WorkerStart, TypeOK, Stage
  <2> QED
    BY <1>1, <1>2, <2>1 DEF WorkerStart, TypeOK, uiVars, stopVars
<1>3. CASE WorkerRejected(e)
  <2>1. inflight' \in SUBSET [task : Item, stage : Stage]
    BY <1>3, AdvanceType DEF WorkerRejected, TypeOK, Stage
  <2> QED
    BY <1>3, <2>1 DEF WorkerRejected, TypeOK, deviceVars, uiVars, stopVars
<1>4. ASSUME NEW result \in {"ok", "failed"}, WorkerLeaves(e, result),
             known' \in SUBSET Device, actors \subseteq known',
             connected' \in SUBSET known', session' \in SUBSET known'
      PROVE  TypeOK'
  <2>1. inflight' \in SUBSET [task : Item, stage : Stage]
    BY <1>4, AdvanceType DEF WorkerLeaves, TypeOK, Stage
  <2> QED
    BY <1>4, <2>1 DEF WorkerLeaves, TypeOK, uiVars, stopVars
<1>5. CASE ConnectSucceeds(e)
  BY <1>1, <1>4, <1>5 DEF ConnectSucceeds, TypeOK
<1>6. CASE TaskSucceeds(e)
  BY <1>1, <1>4, <1>6 DEF TaskSucceeds, TypeOK
<1>7. CASE TaskFails(e)
  BY <1>1, <1>4, <1>7 DEF TaskFails, TypeOK
<1>8. ASSUME NEW result \in {"ok", "failed"}, LateWrite(e, result)
      PROVE  TypeOK'
  BY <1>1, <1>4, <1>8 DEF LateWrite, TypeOK
<1> QED
  BY <1>2, <1>3, <1>5, <1>6, <1>7, <1>8 DEF WorkerEnd

\* Type correctness of the supervisor.
THEOREM TypeCorrect == Spec => []TypeOK
<1>1. TypeOK /\ [Next]_vars => TypeOK'
  <2>1. TypeOK /\ UNCHANGED vars => TypeOK'
    BY DEF TypeOK, vars, schedulerVars, deviceVars, uiVars, stopVars
  <2> QED
    BY <2>1, UiType, SchedulerType, WorkerType DEF Next
<1> QED
  BY InitType, <1>1, PTL DEF Spec

----------------------------------------------------------------------------
(* One task per device.  The two halves need each other: a task is picked   *)
(* only for an unmarked device, which has none in flight because the marks  *)
(* match the tasks; and a mark is cleared only with the one task it is for. *)

InFlightInv == OneInFlightPerDevice /\ MarksMatchTasks

LEMMA SameKeepsInFlight ==
  ASSUME InFlightInv, UNCHANGED <<inflight, submitted>>
  PROVE  InFlightInv'
BY DEF InFlightInv, OneInFlightPerDevice, MarksMatchTasks

LEMMA AdvanceKeepsInFlight ==
  ASSUME InFlightInv, NEW e \in inflight, NEW stage, Advance(e, stage),
         submitted' = submitted
  PROVE  InFlightInv'
<1> DEFINE moved == [task |-> e.task, stage |-> stage]
<1>1. inflight' = (inflight \ {e}) \cup {moved} /\ moved.task = e.task
  BY DEF Advance
<1> HIDE DEF moved
<1>2. OneInFlightPerDevice'
  BY <1>1 DEF InFlightInv, OneInFlightPerDevice
<1>3. {f.task.ip : f \in inflight'} = {f.task.ip : f \in inflight}
  BY <1>1
<1> QED
  BY <1>2, <1>3 DEF InFlightInv, MarksMatchTasks

LEMMA RetireKeepsInFlight ==
  ASSUME InFlightInv, NEW e \in inflight, Retire(e)
  PROVE  InFlightInv'
BY DEF Retire, InFlightInv, OneInFlightPerDevice, MarksMatchTasks

LEMMA PickKeepsInFlight ==
  ASSUME InFlightInv, NEW i, PickHead(i, actors, known, Online, busy)
  PROVE  InFlightInv'
<1>1. PICK t \in queues[LaneOrder[i]] :
        /\ t.ip \notin submitted
        /\ submitted' = submitted \cup {t.ip}
        /\ inflight' = inflight \cup {[task |-> t, stage |-> "picked"]}
  BY DEF PickHead, Ready
<1> DEFINE new == [task |-> t, stage |-> "picked"]
<1>2. inflight' = inflight \cup {new} /\ new.task = t
  BY <1>1
<1> HIDE DEF new
<1>3. \A e \in inflight : e.task.ip # t.ip
  BY <1>1 DEF InFlightInv, MarksMatchTasks
<1>4. OneInFlightPerDevice'
  BY <1>2, <1>3 DEF InFlightInv, OneInFlightPerDevice
<1>5. MarksMatchTasks'
  BY <1>1, <1>2 DEF InFlightInv, MarksMatchTasks
<1> QED
  BY <1>4, <1>5 DEF InFlightInv

\* What a step of each thread does to the tasks in flight.
InFlightStep ==
  \/ UNCHANGED <<inflight, submitted>>
  \/ \E e \in inflight, stage \in Stage :
        Advance(e, stage) /\ submitted' = submitted
  \/ \E e \in inflight : Retire(e)
  \/ \E i \in 1..7 : PickHead(i, actors, known, Online, busy)

LEMMA NextInFlight == [Next]_vars => InFlightStep
<1>1. CASE Ui
  BY <1>1 DEF Ui, UiAddDevice, UiRemoveDevice, UiDisconnect, UiEnqueue,
     UiLoadInfo, UiPollStatus, UiControl, FirmwareInfo, VideoPoll,
     UiConnectBatch, ConnectTargets, UiBatchNext, UiPush, UiStop, UiShutdown, schedulerVars,
     InFlightStep
<1>2. CASE SchedulerThread
  <2>1. CASE DrainNext
    BY <2>1 DEF DrainNext, InFlightStep, At
  <2>2. CASE AutoInfo \/ StartDispatch \/ EndDispatch \/ EndPass
    BY <2>2 DEF AutoInfo, StartDispatch, EndDispatch, EndPass, schedulerVars,
       InFlightStep
  <2>3. CASE Dispatch
    BY <2>3 DEF Dispatch, DropHead, HoldHead, InFlightStep
  <2>4. CASE Submit
    <3>1. PICK e \in inflight : Advance(e, "pool") /\ submitted' = submitted
      BY <2>4 DEF Submit, At
    <3> QED
      BY <3>1 DEF InFlightStep, Stage
  <2>5. CASE SubmitFails
    BY <2>5 DEF SubmitFails, InFlightStep, At
  <2> QED
    BY <1>2, <2>1, <2>2, <2>3, <2>4, <2>5 DEF SchedulerThread
<1>3. CASE Workers
  <2>1. PICK e \in inflight :
          WorkerStart(e) \/ WorkerRejected(e) \/ WorkerEnd(e)
    BY <1>3 DEF Workers
  <2>2. submitted' = submitted /\ \E stage \in Stage : Advance(e, stage)
    BY <2>1 DEF WorkerStart, WorkerRejected, WorkerEnd, ConnectSucceeds,
       TaskSucceeds, TaskFails, LateWrite, WorkerLeaves, Stage
  <2> QED
    BY <2>2 DEF InFlightStep
<1>4. CASE UNCHANGED vars
  BY <1>4 DEF vars, schedulerVars, InFlightStep
<1> QED
  BY <1>1, <1>2, <1>3, <1>4 DEF Next

LEMMA InFlightCorrect == Spec => []InFlightInv
<1>1. Init => InFlightInv
  BY DEF Init, InFlightInv, OneInFlightPerDevice, MarksMatchTasks
<1>2. InFlightInv /\ [Next]_vars => InFlightInv'
  <2> SUFFICES ASSUME InFlightInv, InFlightStep PROVE InFlightInv'
    BY NextInFlight
  <2> QED
    BY SameKeepsInFlight, AdvanceKeepsInFlight, RetireKeepsInFlight,
       PickKeepsInFlight DEF InFlightStep
<1> QED
  BY <1>1, <1>2, PTL DEF Spec

\* A device never has two tasks between their dispatch and their completion.
THEOREM OneTaskPerDevice == Spec => []OneInFlightPerDevice
BY InFlightCorrect, PTL DEF InFlightInv

\* A device is marked submitted exactly while a task of it is in flight.
THEOREM MarksCorrect == Spec => []MarksMatchTasks
BY InFlightCorrect, PTL DEF InFlightInv

----------------------------------------------------------------------------
(* Busy actors.                                                            *)

\* The attached actor of a device executes only while a worker runs its task.
BusyRuns == \A ip \in busy : \E e \in At("running") : e.task.ip = ip

LEMMA BusyFromOthers ==
  ASSUME BusyRuns, busy' \subseteq busy,
         \A e \in At("running") : e \in inflight'
  PROVE  BusyRuns'
BY DEF BusyRuns, At

LEMMA UiBusy == BusyRuns /\ Ui => BusyRuns'
<1> SUFFICES ASSUME BusyRuns, Ui PROVE BusyRuns'
  OBVIOUS
<1>1. inflight' = inflight /\ busy' \subseteq busy
  BY DEF Ui, UiAddDevice, UiRemoveDevice, UiDisconnect, UiEnqueue,
     UiLoadInfo, UiPollStatus, UiControl, FirmwareInfo, VideoPoll,
     UiConnectBatch, ConnectTargets, UiBatchNext, UiPush, UiStop, UiShutdown, schedulerVars,
     deviceVars
<1> QED
  BY <1>1, BusyFromOthers DEF At

LEMMA SchedulerBusy == BusyRuns /\ SchedulerThread => BusyRuns'
<1> SUFFICES ASSUME BusyRuns, SchedulerThread PROVE BusyRuns'
  OBVIOUS
<1>1. busy' = busy
  BY DEF SchedulerThread, DrainNext, AutoInfo, StartDispatch, Dispatch,
     EndDispatch, Submit, SubmitFails, EndPass, deviceVars
<1>2. \A e \in At("running") : e \in inflight'
  <2>1. CASE DrainNext
    <3>1. PICK e \in inflight : e.stage # "running" /\ inflight' = inflight \ {e}
      BY <2>1 DEF DrainNext, Retire, At
    <3> QED
      BY <3>1 DEF At
  <2>2. CASE Submit
    BY <2>2 DEF Submit, Advance, At
  <2>3. CASE SubmitFails
    BY <2>3 DEF SubmitFails, Retire, At
  <2>4. CASE Dispatch
    BY <2>4 DEF Dispatch, DropHead, PickHead, HoldHead, At
  <2>5. CASE AutoInfo \/ StartDispatch \/ EndDispatch \/ EndPass
    BY <2>5 DEF AutoInfo, StartDispatch, EndDispatch, EndPass, schedulerVars, At
  <2> QED
    BY <2>1, <2>2, <2>3, <2>4, <2>5 DEF SchedulerThread
<1> QED
  BY <1>1, <1>2, BusyFromOthers

LEMMA WorkerBusy == BusyRuns /\ Workers => BusyRuns'
<1> SUFFICES ASSUME BusyRuns, NEW e \in inflight,
                    WorkerStart(e) \/ WorkerRejected(e) \/ WorkerEnd(e)
             PROVE  BusyRuns'
  BY DEF Workers
<1>1. CASE WorkerStart(e)
  <2>1. /\ e.stage = "pool" /\ busy' = busy \cup {e.task.ip}
        /\ inflight' = (inflight \ {e})
                         \cup {[task |-> e.task, stage |-> "running"]}
    BY <1>1 DEF WorkerStart, Advance, At
  <2> DEFINE new == [task |-> e.task, stage |-> "running"]
  <2>2. /\ new \in inflight' /\ new.stage = "running" /\ new.task = e.task
        /\ inflight \ {e} \subseteq inflight'
    BY <2>1
  <2> HIDE DEF new
  <2>3. ASSUME NEW ip \in busy'
        PROVE  \E f \in inflight' : f.stage = "running" /\ f.task.ip = ip
    <3>1. CASE ip = e.task.ip
      BY <2>2, <3>1
    <3>2. CASE ip \in busy
      <4>1. PICK f \in inflight : f.stage = "running" /\ f.task.ip = ip
        BY <3>2 DEF BusyRuns, At
      <4> QED
        BY <2>1, <2>2, <4>1
    <3> QED
      BY <2>1, <2>3, <3>1, <3>2
  <2> QED
    BY <2>3 DEF BusyRuns, At
<1>2. CASE WorkerRejected(e)
  BY <1>2, BusyFromOthers DEF WorkerRejected, Advance, At, deviceVars
<1>3. ASSUME NEW result, WorkerLeaves(e, result) PROVE BusyRuns'
  <2>1. busy' = busy \ {e.task.ip} /\ inflight \ {e} \subseteq inflight'
    BY <1>3 DEF WorkerLeaves, Advance
  <2>2. ASSUME NEW ip \in busy'
        PROVE  \E f \in inflight' : f.stage = "running" /\ f.task.ip = ip
    <3>1. PICK f \in inflight : f.stage = "running" /\ f.task.ip = ip
      BY <2>1, <2>2 DEF BusyRuns, At
    <3> QED
      BY <2>1, <2>2, <3>1
  <2> QED
    BY <2>2 DEF BusyRuns, At
<1> QED
  BY <1>1, <1>2, <1>3 DEF WorkerEnd, ConnectSucceeds, TaskSucceeds, TaskFails,
     LateWrite

LEMMA BusyCorrect == Spec => []BusyRuns
<1>1. Init => BusyRuns
  BY DEF Init, BusyRuns
<1>2. BusyRuns /\ [Next]_vars => BusyRuns'
  <2>1. BusyRuns /\ UNCHANGED vars => BusyRuns'
    BY DEF BusyRuns, At, vars, schedulerVars, deviceVars
  <2> QED
    BY <2>1, UiBusy, SchedulerBusy, WorkerBusy DEF Next
<1> QED
  BY <1>1, <1>2, PTL DEF Spec

\* A worker never hands a task to an actor that is already executing one: the
\* "device actor already busy" error of begin_task cannot be raised.
THEOREM NoBusyError == Spec => []NeverRejectedBusy
<1>1. BusyRuns /\ InFlightInv => NeverRejectedBusy
  BY DEF BusyRuns, InFlightInv, OneInFlightPerDevice, NeverRejectedBusy, At
<1> QED
  BY <1>1, BusyCorrect, InFlightCorrect, PTL

----------------------------------------------------------------------------
(* Order of the operator's commands.                                       *)

CommandLane == {"control", "connect"}

\* Only the Qt thread draws numbers for these two lanes, one item at a time,
\* so its unpushed item is the youngest of its lane.
OrderInv ==
  /\ \A l \in Lane : \A t \in queues[l] : t.lane = l /\ t.seq < nextSeq
  /\ \A e \in inflight : e.task.seq < nextSeq
  /\ \A d \in uiDrawn : d.seq < nextSeq
  /\ \A d, c \in uiDrawn : d = c
  /\ \A l \in CommandLane : \A t, u \in queues[l] : t.seq = u.seq => t = u
  /\ \A d \in uiDrawn : d.lane \in CommandLane =>
       /\ \A t \in queues[d.lane] : t.seq < d.seq
       /\ \A e \in inflight : e.task.lane = d.lane => e.task.seq < d.seq
  /\ CommandsInOrder

LEMMA LessKeepsOrder ==
  ASSUME OrderInv, TypeOK,
         \A l \in Lane : queues'[l] \subseteq queues[l],
         \A f \in inflight' : \E e \in inflight : f.task = e.task,
         UNCHANGED <<uiDrawn, nextSeq>>
  PROVE  OrderInv'
<1>1. "control" \in Lane /\ "connect" \in Lane
  BY LaneNames
<1>2. \A d \in uiDrawn : d.lane \in Lane
  BY DEF TypeOK, Item
<1> QED
  BY <1>1, <1>2 DEF OrderInv, CommandLane, CommandsInOrder

LEMMA DrawKeepsOrder ==
  ASSUME OrderInv, TypeOK, uiDrawn = {},
         NEW ip \in Device, NEW lane \in Lane, NEW b, Draw(ip, lane, b),
         UNCHANGED <<queues, inflight>>
  PROVE  OrderInv'
<1>1. /\ nextSeq' = nextSeq + 1 /\ nextSeq \in Nat
      /\ uiDrawn' = {NewItem(nextSeq, ip, lane, b)}
  BY DEF Draw, TypeOK
<1>2. /\ NewItem(nextSeq, ip, lane, b).seq = nextSeq
      /\ NewItem(nextSeq, ip, lane, b).lane = lane
  BY DEF NewItem
<1>3. \A l \in Lane : \A t \in queues[l] : t.seq \in Nat
  BY DEF TypeOK, Item
<1>4. \A e \in inflight : e.task.seq \in Nat
  BY DEF TypeOK, Item
<1> QED
  BY <1>1, <1>2, <1>3, <1>4 DEF OrderInv, CommandLane, CommandsInOrder

LEMMA PushKeepsOrder ==
  ASSUME OrderInv, TypeOK, Enqueue(uiDrawn), uiDrawn' = {},
         UNCHANGED <<inflight, nextSeq>>
  PROVE  OrderInv'
<1>1. \A l \in Lane : queues'[l] = queues[l] \cup {t \in uiDrawn : t.lane = l}
  BY DEF Enqueue
<1>2. "control" \in Lane /\ "connect" \in Lane
  BY LaneNames
<1>3. \A l \in Lane : \A t \in queues[l] : t.seq \in Nat
  BY DEF TypeOK, Item
<1>4. \A d \in uiDrawn : d.seq \in Nat
  BY DEF TypeOK, Item
<1>5. ASSUME NEW l \in CommandLane, NEW t \in queues'[l], NEW u \in queues'[l],
             t.seq = u.seq
      PROVE  t = u
  BY <1>1, <1>2, <1>3, <1>4, <1>5 DEF OrderInv, CommandLane
<1>6. CommandsInOrder'
  BY <1>1, <1>2, <1>3, <1>4 DEF OrderInv, CommandLane, CommandsInOrder
<1> QED
  BY <1>1, <1>5, <1>6 DEF OrderInv

LEMMA PickKeepsOrder ==
  ASSUME OrderInv, TypeOK, NEW i \in 1..7,
         PickHead(i, actors, known, Online, busy),
         UNCHANGED <<uiDrawn, nextSeq>>
  PROVE  OrderInv'
<1> DEFINE lane == LaneOrder[i]
<1>1. lane \in Lane
  BY LaneOfIndex
<1>2. "control" \in Lane /\ "connect" \in Lane
  BY LaneNames
<1> HIDE DEF lane
<1>3. PICK t \in queues[lane] :
        /\ \A u \in queues[lane] : t.seq <= u.seq
        /\ queues' = [queues EXCEPT ![lane] = @ \ {t}]
        /\ inflight' = inflight \cup {[task |-> t, stage |-> "picked"]}
  BY DEF PickHead, IsHead, lane
<1> DEFINE new == [task |-> t, stage |-> "picked"]
<1>4. inflight' = inflight \cup {new} /\ new.task = t
  BY <1>3
<1> HIDE DEF new
<1>5. /\ queues'[lane] = queues[lane] \ {t}
      /\ \A l \in Lane \ {lane} : queues'[l] = queues[l]
  BY <1>1, <1>3 DEF TypeOK
<1>6. \A l \in Lane : \A u \in queues[l] : u.seq \in Nat
  BY DEF TypeOK, Item
<1>7. t.lane = lane /\ t.seq < nextSeq
  BY <1>1 DEF OrderInv
<1>8. lane \in CommandLane => \A u \in queues'[lane] : t.seq < u.seq
  BY <1>1, <1>3, <1>5, <1>6 DEF OrderInv
<1>9. CommandsInOrder'
  BY <1>2, <1>4, <1>5, <1>7, <1>8 DEF OrderInv, CommandsInOrder, CommandLane
<1>10. \A d \in uiDrawn : d.lane \in CommandLane =>
         /\ \A u \in queues'[d.lane] : u.seq < d.seq
         /\ \A e \in inflight' : e.task.lane = d.lane => e.task.seq < d.seq
  BY <1>1, <1>2, <1>4, <1>5, <1>7 DEF OrderInv, CommandLane
<1> QED
  BY <1>1, <1>2, <1>4, <1>5, <1>7, <1>9, <1>10 DEF OrderInv, CommandLane

LEMMA AutoKeepsOrder == OrderInv /\ TypeOK /\ AutoInfo => OrderInv'
<1> SUFFICES ASSUME OrderInv, TypeOK, AutoInfo PROVE OrderInv'
  OBVIOUS
<1>1. PICK ip \in Device :
        \/ /\ Enqueue({NewItem(nextSeq, ip, "info", NoBatch),
                       NewItem(nextSeq + 1, ip, "poll_hot", NoBatch)})
           /\ nextSeq' = nextSeq + 2
        \/ UNCHANGED <<queues, nextSeq>>
  BY DEF AutoInfo, TypeOK
<1>2. UNCHANGED <<inflight, uiDrawn>>
  BY DEF AutoInfo, uiVars
<1>3. CASE UNCHANGED <<queues, nextSeq>>
  BY <1>2, <1>3, LessKeepsOrder
<1>4. CASE /\ Enqueue({NewItem(nextSeq, ip, "info", NoBatch),
                       NewItem(nextSeq + 1, ip, "poll_hot", NoBatch)})
           /\ nextSeq' = nextSeq + 2
  <2> DEFINE a == NewItem(nextSeq, ip, "info", NoBatch)
             b == NewItem(nextSeq + 1, ip, "poll_hot", NoBatch)
  <2>1. /\ a.lane = "info" /\ a.seq = nextSeq
        /\ b.lane = "poll_hot" /\ b.seq = nextSeq + 1
    BY DEF NewItem
  <2> HIDE DEF a, b
  <2>2. \A l \in Lane : queues'[l] = queues[l] \cup {t \in {a, b} : t.lane = l}
    BY <1>4 DEF Enqueue, a, b
  <2>3. "control" \in Lane /\ "connect" \in Lane
    BY LaneNames
  <2>4. queues'["control"] = queues["control"]
        /\ queues'["connect"] = queues["connect"]
    BY <2>1, <2>2, <2>3
  <2>5. /\ nextSeq \in Nat /\ \A d \in uiDrawn : d.seq \in Nat
        /\ \A e \in inflight : e.task.seq \in Nat
        /\ \A l \in Lane : \A t \in queues[l] : t.seq \in Nat
    BY DEF TypeOK, Item
  <2>6. \A l \in Lane : \A t \in queues'[l] : t.lane = l /\ t.seq < nextSeq'
    BY <1>4, <2>1, <2>2, <2>5 DEF OrderInv
  <2> QED
    BY <1>2, <1>4, <2>4, <2>5, <2>6 DEF OrderInv, CommandLane, CommandsInOrder
<1> QED
  BY <1>1, <1>3, <1>4

LEMMA NextKeepsOrder == OrderInv /\ TypeOK /\ [Next]_vars => OrderInv'
<1> SUFFICES ASSUME OrderInv, TypeOK, [Next]_vars PROVE OrderInv'
  OBVIOUS
<1>1. CASE UiBatchNext
  <2>1. PICK ip \in uiTodo : uiDrawn = {} /\ Draw(ip, "connect", uiBatch)
    BY <1>1 DEF UiBatchNext
  <2>2. ip \in Device /\ "connect" \in Lane
    BY LaneNames DEF TypeOK
  <2> QED
    BY <1>1, <2>1, <2>2, DrawKeepsOrder DEF UiBatchNext, schedulerVars
<1>2. ASSUME NEW ip \in Device, Slot(ip) PROVE OrderInv'
  <2>1. PICK lane \in Lane : UiEnqueue(ip, lane)
    BY <1>2, SlotsEnqueue
  <2> QED
    BY <2>1, DrawKeepsOrder DEF UiEnqueue, UiIdle, schedulerVars
<1>3. CASE UiPush
  BY <1>3, PushKeepsOrder DEF UiPush
<1>4. CASE AutoInfo
  BY <1>4, AutoKeepsOrder
<1>5. CASE Dispatch
  <2>1. PICK i \in 1..7 : \/ DropHead(i, actors)
                          \/ PickHead(i, actors, known, Online, busy)
                          \/ HoldHead(i, actors, known, Online, busy)
    BY <1>5 DEF Dispatch
  <2>2. UNCHANGED <<uiDrawn, nextSeq>>
    BY <1>5 DEF Dispatch, uiVars
  <2>3. CASE DropHead(i, actors)
    <3>1. \A l \in Lane : queues'[l] \subseteq queues[l]
      BY <2>3, LaneOfIndex DEF DropHead, TypeOK
    <3> QED
      BY <2>2, <2>3, <3>1, LessKeepsOrder DEF DropHead
  <2>4. CASE HoldHead(i, actors, known, Online, busy)
    BY <2>2, <2>4, LessKeepsOrder DEF HoldHead
  <2> QED
    BY <2>1, <2>2, <2>3, <2>4, PickKeepsOrder
<1>6. ASSUME UNCHANGED <<queues, uiDrawn, nextSeq>>,
             \/ UNCHANGED inflight
             \/ \E e \in inflight, stage \in Stage : Advance(e, stage)
             \/ \E e \in inflight : Retire(e)
      PROVE OrderInv'
  <2>1. \A f \in inflight' : \E e \in inflight : f.task = e.task
    BY <1>6 DEF Advance, Retire
  <2> QED
    BY <1>6, <2>1, LessKeepsOrder
<1>7. CASE \/ \E ip \in Device : \/ UiAddDevice(ip) \/ UiRemoveDevice(ip)
                                 \/ UiDisconnect(ip)
           \/ \E ips \in SUBSET Device, b \in BatchId : UiConnectBatch(ips, b)
           \/ UiStop \/ UiShutdown
  BY <1>6, <1>7 DEF UiAddDevice, UiRemoveDevice, UiDisconnect, UiConnectBatch, ConnectTargets,
     UiStop, UiShutdown, schedulerVars, uiVars
<1>8. CASE StartDispatch \/ EndDispatch \/ EndPass
  BY <1>6, <1>8 DEF StartDispatch, EndDispatch, EndPass, schedulerVars, uiVars
<1>9. CASE DrainNext
  <2>1. /\ UNCHANGED <<queues, uiDrawn, nextSeq>>
        /\ \E e \in inflight : Retire(e)
    BY <1>9 DEF DrainNext, At, uiVars
  <2> QED
    BY <1>6, <2>1
<1>10. CASE Submit
  <2>1. /\ UNCHANGED <<queues, uiDrawn, nextSeq>>
        /\ \E e \in inflight : Advance(e, "pool")
    BY <1>10 DEF Submit, At, uiVars
  <2> QED
    BY <1>6, <2>1 DEF Stage
<1>11. CASE SubmitFails
  <2>1. /\ UNCHANGED <<queues, uiDrawn, nextSeq>>
        /\ \E e \in inflight : Retire(e)
    BY <1>11 DEF SubmitFails, At, uiVars
  <2> QED
    BY <1>6, <2>1
<1>12. CASE Workers
  <2>1. PICK e \in inflight :
          WorkerStart(e) \/ WorkerRejected(e) \/ WorkerEnd(e)
    BY <1>12 DEF Workers
  <2>2. /\ UNCHANGED <<queues, uiDrawn, nextSeq>>
        /\ \E stage \in Stage : Advance(e, stage)
    BY <2>1 DEF WorkerStart, WorkerRejected, WorkerEnd, ConnectSucceeds,
       TaskSucceeds, TaskFails, LateWrite, WorkerLeaves, Stage, uiVars
  <2> QED
    BY <1>6, <2>2
<1>13. CASE UNCHANGED vars
  BY <1>6, <1>13 DEF vars, schedulerVars, uiVars
<1> QED
  BY <1>1, <1>2, <1>3, <1>4, <1>5, <1>7, <1>8, <1>9, <1>10, <1>11, <1>12, <1>13
  DEF Next, Ui, Slot, SchedulerThread

LEMMA OrderCorrect == Spec => []OrderInv
<1>1. Init => OrderInv
  BY LaneNames DEF Init, OrderInv, CommandLane, CommandsInOrder
<1>2. OrderInv /\ TypeOK /\ [Next]_vars => OrderInv'
  BY NextKeepsOrder
<1> QED
  BY <1>1, <1>2, TypeCorrect, PTL DEF Spec

\* Controls and connects of a device are dispatched in the order the operator
\* gave them.
THEOREM CommandsDispatchedInOrder == Spec => []CommandsInOrder
BY OrderCorrect, PTL DEF OrderInv

----------------------------------------------------------------------------
(* Connect batches.  The count of a batch bounds its outstanding connects;  *)
(* a completion takes exactly one off both, because the order of commands   *)
(* and the one task per device leave no second place for a task.           *)

\* Only connects belong to a batch.
OnlyConnectsBatched ==
  /\ \A l \in Lane : \A t \in queues[l] : t.batch # NoBatch => t.lane = "connect"
  /\ \A d \in uiDrawn : d.batch # NoBatch => d.lane = "connect"
  /\ \A e \in inflight : e.task.batch # NoBatch => e.task.lane = "connect"

\* The connects of batch b that are drawn, queued or in flight are finitely
\* many; with those not drawn yet they are at most the batch's count.
Covered(b) ==
  /\ IsFiniteSet(Outstanding(b))
  /\ Cardinality(Outstanding(b)) + NotYetDrawn(b) <= batches[b].remaining

BatchInv == OnlyConnectsBatched /\ \A b \in BatchId : Covered(b)

LEMMA RealBatch == ASSUME NEW b \in BatchId PROVE b # NoBatch
BY SchedulerAssumption DEF NoBatch

LEMMA NotYetDrawnType ==
  ASSUME TypeOK, NEW b
  PROVE  NotYetDrawn(b) \in Nat /\ IsFiniteSet(uiTodo)
<1>1. IsFiniteSet(uiTodo)
  BY SchedulerAssumption, FS_Subset DEF TypeOK
<1> QED
  BY <1>1, FS_CardinalityType DEF NotYetDrawn

\* A batch none of whose three places gains a connect stays covered.
LEMMA LessKeepsCovered ==
  ASSUME NEW b \in BatchId, TypeOK, Covered(b),
         Outstanding(b)' \subseteq Outstanding(b),
         NotYetDrawn(b)' <= NotYetDrawn(b), NotYetDrawn(b)' \in Nat,
         batches[b]'.remaining = batches[b].remaining
  PROVE  Covered(b)'
<1>1. /\ IsFiniteSet(Outstanding(b)')
      /\ Cardinality(Outstanding(b)') <= Cardinality(Outstanding(b))
  BY FS_Subset DEF Covered
<1>2. /\ Cardinality(Outstanding(b)') \in Nat /\ Cardinality(Outstanding(b)) \in Nat
      /\ NotYetDrawn(b) \in Nat /\ batches[b].remaining \in Nat
  BY <1>1, FS_CardinalityType, NotYetDrawnType DEF Covered, TypeOK, Batch
<1>3. /\ Cardinality(Outstanding(b)) + NotYetDrawn(b) <= batches[b].remaining
  BY DEF Covered
<1>4. Cardinality(Outstanding(b)') + NotYetDrawn(b)' <= batches[b]'.remaining
  BY <1>1, <1>2, <1>3
<1> QED
  BY <1>1, <1>4 DEF Covered

LEMMA LessKeepsBatch ==
  ASSUME BatchInv, TypeOK, UNCHANGED <<batches, uiTodo, uiBatch>>,
         OnlyConnectsBatched',
         \A b \in BatchId : Outstanding(b)' \subseteq Outstanding(b)
  PROVE  BatchInv'
<1>1. ASSUME NEW b \in BatchId PROVE Covered(b)'
  <2>1. NotYetDrawn(b)' = NotYetDrawn(b) /\ NotYetDrawn(b) \in Nat
    BY NotYetDrawnType DEF NotYetDrawn
  <2> QED
    BY <2>1, LessKeepsCovered DEF BatchInv
<1> QED
  BY <1>1 DEF BatchInv

\* Tasks leave the queues or the executors and none comes.
LEMMA RemovalKeepsBatch ==
  ASSUME BatchInv, TypeOK, UNCHANGED <<batches, uiTodo, uiBatch, uiDrawn>>,
         \A l \in Lane : queues'[l] \subseteq queues[l],
         \A f \in inflight' : \E e \in inflight : f.task = e.task
  PROVE  BatchInv'
<1>1. "connect" \in Lane
  BY LaneNames
<1>2. OnlyConnectsBatched'
  BY DEF BatchInv, OnlyConnectsBatched
<1>3. ASSUME NEW b \in BatchId PROVE Outstanding(b)' \subseteq Outstanding(b)
  BY <1>1 DEF Outstanding
<1> QED
  BY <1>2, <1>3, LessKeepsBatch

LEMMA PickKeepsBatch ==
  ASSUME BatchInv, TypeOK, OrderInv, NEW i \in 1..7,
         PickHead(i, actors, known, Online, busy),
         UNCHANGED <<batches, uiTodo, uiBatch, uiDrawn>>
  PROVE  BatchInv'
<1> DEFINE lane == LaneOrder[i]
<1>1. lane \in Lane /\ "connect" \in Lane
  BY LaneOfIndex, LaneNames
<1> HIDE DEF lane
<1>2. PICK t \in queues[lane] :
        /\ queues' = [queues EXCEPT ![lane] = @ \ {t}]
        /\ inflight' = inflight \cup {[task |-> t, stage |-> "picked"]}
  BY DEF PickHead, lane
<1> DEFINE new == [task |-> t, stage |-> "picked"]
<1>3. inflight' = inflight \cup {new} /\ new.task = t
  BY <1>2
<1> HIDE DEF new
<1>4. \A l \in Lane : queues'[l] \subseteq queues[l]
  BY <1>1, <1>2 DEF TypeOK
<1>5. t.batch # NoBatch => t \in queues["connect"] /\ t.lane = "connect"
  BY <1>1, <1>2 DEF BatchInv, OnlyConnectsBatched, OrderInv
<1>6. OnlyConnectsBatched'
  BY <1>3, <1>4, <1>5 DEF BatchInv, OnlyConnectsBatched
<1>7. ASSUME NEW b \in BatchId PROVE Outstanding(b)' \subseteq Outstanding(b)
  BY <1>1, <1>3, <1>4, <1>5, RealBatch DEF Outstanding
<1> QED
  BY <1>6, <1>7, LessKeepsBatch

LEMMA PushKeepsBatch ==
  ASSUME BatchInv, TypeOK, Enqueue(uiDrawn), uiDrawn' = {},
         UNCHANGED <<batches, uiTodo, uiBatch, inflight>>
  PROVE  BatchInv'
<1>1. "connect" \in Lane
  BY LaneNames
<1>2. \A l \in Lane : queues'[l] = queues[l] \cup {t \in uiDrawn : t.lane = l}
  BY DEF Enqueue
<1>3. OnlyConnectsBatched'
  BY <1>2 DEF BatchInv, OnlyConnectsBatched
<1>4. ASSUME NEW b \in BatchId PROVE Outstanding(b)' \subseteq Outstanding(b)
  BY <1>1, <1>2 DEF Outstanding
<1> QED
  BY <1>3, <1>4, LessKeepsBatch

\* Tasks outside any batch are drawn or enqueued.
LEMMA UnbatchedKeepsBatch ==
  ASSUME BatchInv, TypeOK, NEW S, \A t \in S : t.batch = NoBatch,
         \A l \in Lane : queues'[l] \subseteq queues[l] \cup S,
         uiDrawn' \subseteq uiDrawn \cup S,
         UNCHANGED <<batches, uiTodo, uiBatch, inflight>>
  PROVE  BatchInv'
<1>1. "connect" \in Lane
  BY LaneNames
<1>2. OnlyConnectsBatched'
  BY DEF BatchInv, OnlyConnectsBatched
<1>3. ASSUME NEW b \in BatchId PROVE Outstanding(b)' \subseteq Outstanding(b)
  BY <1>1, RealBatch DEF Outstanding
<1> QED
  BY <1>2, <1>3, LessKeepsBatch

\* The batch starts with nothing outstanding: its count was 0 until now.
LEMMA ConnectBatchKeepsBatch ==
  ASSUME BatchInv, TypeOK, NEW ips \in SUBSET Device, NEW c \in BatchId,
         UiConnectBatch(ips, c)
  PROVE  BatchInv'
<1>1. /\ batches[c] = UnusedBatch /\ uiTodo = {}
      /\ batches' = [batches EXCEPT ![c] = [status |-> "open",
                         remaining |-> Cardinality(ips), success |-> {}]]
      /\ uiTodo' = ips /\ uiBatch' = c
      /\ UNCHANGED <<queues, uiDrawn, inflight>>
  BY DEF UiConnectBatch, UiIdle, schedulerVars
<1>2. OnlyConnectsBatched'
  BY <1>1 DEF BatchInv, OnlyConnectsBatched
<1>3. ASSUME NEW b \in BatchId PROVE Outstanding(b)' = Outstanding(b)
  BY <1>1 DEF Outstanding
<1>4. /\ IsFiniteSet(ips) /\ Cardinality(ips) \in Nat
  BY SchedulerAssumption, FS_Subset, FS_CardinalityType
<1>5. Covered(c)'
  <2>1. batches[c].remaining = 0
    BY <1>1 DEF UnusedBatch
  <2>2. IsFiniteSet(Outstanding(c)) /\ Cardinality(Outstanding(c)) = 0
    <3>1. /\ IsFiniteSet(Outstanding(c))
          /\ Cardinality(Outstanding(c)) + NotYetDrawn(c) <= 0
      BY <2>1 DEF BatchInv, Covered
    <3> QED
      BY <3>1, NotYetDrawnType, FS_CardinalityType
  <2>3. NotYetDrawn(c)' = Cardinality(ips)
    BY <1>1 DEF NotYetDrawn
  <2>4. batches'[c].remaining = Cardinality(ips)
    BY <1>1 DEF TypeOK
  <2> QED
    BY <1>3, <1>4, <2>2, <2>3, <2>4 DEF Covered
<1>6. ASSUME NEW b \in BatchId, b # c PROVE Covered(b)'
  <2>1. NotYetDrawn(b)' = 0 /\ NotYetDrawn(b) \in Nat
    BY <1>1, <1>6, NotYetDrawnType DEF NotYetDrawn
  <2>2. batches'[b].remaining = batches[b].remaining
    BY <1>1, <1>6 DEF TypeOK
  <2> QED
    BY <1>3, <2>1, <2>2, LessKeepsCovered DEF BatchInv
<1> QED
  BY <1>2, <1>5, <1>6 DEF BatchInv

\* A connect that is drawn is one not drawn less.
LEMMA BatchNextKeepsBatch == BatchInv /\ TypeOK /\ UiBatchNext => BatchInv'
<1> SUFFICES ASSUME BatchInv, TypeOK, UiBatchNext PROVE BatchInv'
  OBVIOUS
<1>1. PICK ip \in uiTodo :
        /\ uiDrawn = {} /\ uiTodo' = uiTodo \ {ip}
        /\ uiDrawn' = {NewItem(nextSeq, ip, "connect", uiBatch)}
        /\ UNCHANGED <<queues, inflight, batches, uiBatch>>
  BY DEF UiBatchNext, Draw, schedulerVars
<1> DEFINE new == NewItem(nextSeq, ip, "connect", uiBatch)
<1>2. new.lane = "connect" /\ new.batch = uiBatch /\ uiDrawn' = {new}
  BY <1>1 DEF NewItem
<1> HIDE DEF new
<1>3. OnlyConnectsBatched'
  BY <1>1, <1>2 DEF BatchInv, OnlyConnectsBatched
<1>4. ASSUME NEW b \in BatchId PROVE Covered(b)'
  <2>1. CASE b = uiBatch
    <3>1. Outstanding(b)' = Outstanding(b) \cup {new}
      BY <1>1, <1>2, <2>1 DEF Outstanding
    <3>2. IsFiniteSet(Outstanding(b))
      BY DEF BatchInv, Covered
    <3>3. /\ IsFiniteSet(Outstanding(b)')
          /\ Cardinality(Outstanding(b)') <= Cardinality(Outstanding(b)) + 1
          /\ Cardinality(Outstanding(b)') \in Nat
          /\ Cardinality(Outstanding(b)) \in Nat
      <4>1. Cardinality(Outstanding(b)) \in Nat
        BY <3>2, FS_CardinalityType
      <4>2. /\ IsFiniteSet(Outstanding(b) \cup {new})
            /\ Cardinality(Outstanding(b) \cup {new})
                 = IF new \in Outstanding(b) THEN Cardinality(Outstanding(b))
                                             ELSE Cardinality(Outstanding(b)) + 1
        BY <3>2, FS_AddElement, Zenon
      <4> QED
        BY <3>1, <4>1, <4>2
    <3>4. /\ IsFiniteSet(uiTodo) /\ Cardinality(uiTodo) \in Nat
          /\ Cardinality(uiTodo \ {ip}) = Cardinality(uiTodo) - 1
      BY NotYetDrawnType, FS_RemoveElement, FS_CardinalityType
    <3>5. NotYetDrawn(b) = Cardinality(uiTodo)
          /\ NotYetDrawn(b)' = Cardinality(uiTodo) - 1
      BY <1>1, <2>1, <3>4 DEF NotYetDrawn
    <3>6. /\ batches'[b].remaining = batches[b].remaining
          /\ batches[b].remaining \in Nat
          /\ Cardinality(Outstanding(b)) + NotYetDrawn(b) <= batches[b].remaining
      BY <1>1 DEF BatchInv, Covered, TypeOK, Batch
    <3> QED
      BY <3>3, <3>4, <3>5, <3>6 DEF Covered
  <2>2. CASE b # uiBatch
    <3>1. Outstanding(b)' \subseteq Outstanding(b)
      BY <1>1, <1>2, <2>2 DEF Outstanding
    <3>2. NotYetDrawn(b) = 0 /\ NotYetDrawn(b)' = 0
      BY <1>1, <2>2 DEF NotYetDrawn
    <3> QED
      BY <1>1, <3>1, <3>2, LessKeepsCovered DEF BatchInv
  <2> QED
    BY <2>1, <2>2
<1> QED
  BY <1>3, <1>4 DEF BatchInv

\* The completed task has no second place: the queue and the Qt thread hold
\* only younger connects of its device, the executors one task per device.
LEMMA CompletedIsGone ==
  ASSUME TypeOK, OrderInv, InFlightInv, OnlyConnectsBatched,
         NEW e \in inflight, inflight' = inflight \ {e},
         UNCHANGED <<queues, uiDrawn>>, NEW b \in BatchId, e.task.batch = b
  PROVE  /\ e.task \in Outstanding(b)
         /\ Outstanding(b)' \subseteq Outstanding(b) \ {e.task}
<1>1. e.task.lane = "connect" /\ e.task.seq \in Nat /\ "connect" \in Lane
  BY RealBatch, LaneNames DEF OnlyConnectsBatched, TypeOK, Item
<1>2. e.task \notin queues["connect"]
  BY <1>1 DEF OrderInv, CommandsInOrder
<1>3. e.task \notin uiDrawn
  BY <1>1 DEF OrderInv, CommandLane
<1>4. \A f \in inflight : f.task = e.task => f = e
  BY DEF InFlightInv, OneInFlightPerDevice
<1> QED
  BY <1>2, <1>3, <1>4 DEF Outstanding

LEMMA DrainKeepsBatch ==
  BatchInv /\ TypeOK /\ OrderInv /\ InFlightInv /\ DrainNext => BatchInv'
<1> SUFFICES ASSUME BatchInv, TypeOK, OrderInv, InFlightInv, DrainNext
             PROVE  BatchInv'
  OBVIOUS
<1>1. PICK e \in inflight :
        /\ inflight' = inflight \ {e}
        /\ IF e.task.batch # NoBatch /\ batches[e.task.batch].status = "open"
           THEN CloseOrCount(e.task.batch, e.task.ip, e.stage = "ok")
           ELSE UNCHANGED <<batches, autoTodo>>
        /\ UNCHANGED <<queues, uiTodo, uiBatch, uiDrawn>>
  BY DEF DrainNext, At, Retire, uiVars
<1>2. CASE UNCHANGED batches
  BY <1>1, <1>2, RemovalKeepsBatch
<1>3. CASE e.task.batch # NoBatch
           /\ CloseOrCount(e.task.batch, e.task.ip, e.stage = "ok")
  <2> DEFINE c    == e.task.batch
             left == IF batches[c].remaining > 0
                     THEN batches[c].remaining - 1 ELSE 0
  <2>1. c \in BatchId
    BY <1>3 DEF TypeOK, Item
  <2>2. OnlyConnectsBatched'
    BY <1>1 DEF BatchInv, OnlyConnectsBatched
  <2>3. PICK B : /\ batches' = [batches EXCEPT ![c] = B]
                 /\ B.remaining = left
    <3> DEFINE won  == IF e.stage = "ok" THEN batches[c].success \cup {e.task.ip}
                                         ELSE batches[c].success
               shut == [status |-> "closed", remaining |-> 0, success |-> {}]
               open == [status |-> "open", remaining |-> left, success |-> won]
    <3>1. \/ left = 0 /\ batches' = [batches EXCEPT ![c] = shut]
          \/ batches' = [batches EXCEPT ![c] = open]
      BY <1>3 DEF CloseOrCount
    <3>2. shut.remaining = 0 /\ open.remaining = left
      OBVIOUS
    <3> HIDE DEF shut, open, left
    <3> QED
      BY <3>1, <3>2
  <2>4. /\ batches'[c].remaining = left
        /\ \A b \in BatchId \ {c} : batches'[b] = batches[b]
    BY <2>1, <2>3 DEF TypeOK
  <2>5. /\ c \in BatchId /\ c = e.task.batch
        /\ batches[c].remaining \in Nat
        /\ (batches[c].remaining > 0 => left = batches[c].remaining - 1)
    BY <2>1 DEF TypeOK, Batch
  <2> HIDE DEF c, left
  <2>6. ASSUME NEW b \in BatchId
        PROVE NotYetDrawn(b)' = NotYetDrawn(b) /\ NotYetDrawn(b) \in Nat
    BY <1>1, NotYetDrawnType DEF NotYetDrawn
  <2>7. Covered(c)'
    <3>1. /\ e.task \in Outstanding(c)
          /\ Outstanding(c)' \subseteq Outstanding(c) \ {e.task}
      BY <1>1, <2>5, CompletedIsGone DEF BatchInv
    <3>2. /\ IsFiniteSet(Outstanding(c))
          /\ Cardinality(Outstanding(c)) + NotYetDrawn(c) <= batches[c].remaining
      BY <2>5 DEF BatchInv, Covered
    <3>3. /\ IsFiniteSet(Outstanding(c) \ {e.task})
          /\ Cardinality(Outstanding(c) \ {e.task}) = Cardinality(Outstanding(c)) - 1
      BY <3>1, <3>2, FS_RemoveElement
    <3>4. /\ IsFiniteSet(Outstanding(c)')
          /\ Cardinality(Outstanding(c)') <= Cardinality(Outstanding(c)) - 1
      BY <3>1, <3>3, FS_Subset
    <3>5. Cardinality(Outstanding(c)') \in Nat /\ Cardinality(Outstanding(c)) \in Nat
      BY <3>2, <3>4, FS_CardinalityType
    <3>6. Cardinality(Outstanding(c)') + NotYetDrawn(c)' <= batches'[c].remaining
      BY <2>4, <2>5, <2>6, <3>2, <3>4, <3>5
    <3> QED
      BY <3>4, <3>6, <2>5 DEF Covered, c
  <2>8. ASSUME NEW b \in BatchId, b # c PROVE Covered(b)'
    <3>1. Outstanding(b)' \subseteq Outstanding(b)
      BY <1>1 DEF Outstanding
    <3> QED
      BY <2>4, <2>6, <2>8, <3>1, LessKeepsCovered DEF BatchInv
  <2> QED
    BY <2>2, <2>7, <2>8 DEF BatchInv
<1> QED
  BY <1>1, <1>2, <1>3

LEMMA UiKeepsBatch == BatchInv /\ TypeOK /\ Ui => BatchInv'
<1> SUFFICES ASSUME BatchInv, TypeOK, Ui PROVE BatchInv'
  OBVIOUS
<1>1. ASSUME UNCHANGED <<queues, inflight, batches, uiTodo, uiBatch, uiDrawn>>
      PROVE  BatchInv'
  BY <1>1, RemovalKeepsBatch
<1>2. CASE \/ \E ip \in Device : \/ UiAddDevice(ip) \/ UiRemoveDevice(ip)
                                 \/ UiDisconnect(ip)
           \/ UiStop \/ UiShutdown
  BY <1>1, <1>2 DEF UiAddDevice, UiRemoveDevice, UiDisconnect, UiStop,
     UiShutdown, schedulerVars, uiVars
<1>3. ASSUME NEW ip \in Device, Slot(ip) PROVE BatchInv'
  <2>1. PICK lane \in Lane : UiEnqueue(ip, lane)
    BY <1>3, SlotsEnqueue
  <2>2. NewItem(nextSeq, ip, lane, NoBatch).batch = NoBatch
    BY DEF NewItem
  <2>3. UNCHANGED <<queues, inflight, batches, uiTodo, uiBatch>>
    BY <2>1 DEF UiEnqueue, schedulerVars
  <2>4. uiDrawn' = {NewItem(nextSeq, ip, lane, NoBatch)}
    BY <2>1 DEF UiEnqueue, Draw
  <2> QED
    BY <2>2, <2>3, <2>4, UnbatchedKeepsBatch
<1>4. CASE UiPush
  BY <1>4, PushKeepsBatch DEF UiPush
<1> QED
  BY <1>2, <1>3, <1>4, ConnectBatchKeepsBatch, BatchNextKeepsBatch DEF Ui, Slot

LEMMA SchedulerKeepsBatch ==
  BatchInv /\ TypeOK /\ OrderInv /\ InFlightInv /\ SchedulerThread => BatchInv'
<1> SUFFICES ASSUME BatchInv, TypeOK, OrderInv, InFlightInv, SchedulerThread
             PROVE  BatchInv'
  OBVIOUS
<1>1. CASE AutoInfo
  <2>1. PICK ip \in autoTodo :
          \/ Enqueue({NewItem(nextSeq, ip, "info", NoBatch),
                      NewItem(nextSeq + 1, ip, "poll_hot", NoBatch)})
          \/ UNCHANGED queues
    BY <1>1 DEF AutoInfo
  <2> DEFINE S == {NewItem(nextSeq, ip, "info", NoBatch),
                   NewItem(nextSeq + 1, ip, "poll_hot", NoBatch)}
  <2>2. \A t \in S : t.batch = NoBatch
    BY DEF NewItem
  <2> HIDE DEF S
  <2>3. \A l \in Lane : queues'[l] \subseteq queues[l] \cup S
    BY <2>1 DEF Enqueue, S
  <2>4. UNCHANGED <<batches, uiTodo, uiBatch, uiDrawn, inflight>>
    BY <1>1 DEF AutoInfo, uiVars
  <2> QED
    BY <2>2, <2>3, <2>4, UnbatchedKeepsBatch
<1>2. CASE Dispatch
  <2>1. PICK i \in 1..7 : \/ DropHead(i, actors)
                          \/ PickHead(i, actors, known, Online, busy)
                          \/ HoldHead(i, actors, known, Online, busy)
    BY <1>2 DEF Dispatch
  <2>2. UNCHANGED <<batches, uiTodo, uiBatch, uiDrawn>>
    BY <1>2 DEF Dispatch, uiVars
  <2>3. CASE DropHead(i, actors)
    <3>1. \A l \in Lane : queues'[l] \subseteq queues[l]
      BY <2>3, LaneOfIndex DEF DropHead, TypeOK
    <3> QED
      BY <2>2, <2>3, <3>1, RemovalKeepsBatch DEF DropHead
  <2>4. CASE HoldHead(i, actors, known, Online, busy)
    BY <2>2, <2>4, RemovalKeepsBatch DEF HoldHead
  <2> QED
    BY <2>1, <2>2, <2>3, <2>4, PickKeepsBatch
<1>3. CASE StartDispatch \/ EndDispatch \/ EndPass
  BY <1>3, RemovalKeepsBatch
  DEF StartDispatch, EndDispatch, EndPass, schedulerVars, uiVars
<1>4. CASE Submit \/ SubmitFails
  <2>1. UNCHANGED <<queues, batches, uiTodo, uiBatch, uiDrawn>>
    BY <1>4 DEF Submit, SubmitFails, uiVars
  <2>2. \A f \in inflight' : \E e \in inflight : f.task = e.task
    BY <1>4 DEF Submit, SubmitFails, Advance, Retire, At
  <2> QED
    BY <2>1, <2>2, RemovalKeepsBatch
<1> QED
  BY <1>1, <1>2, <1>3, <1>4, DrainKeepsBatch DEF SchedulerThread

LEMMA NextKeepsBatch ==
  BatchInv /\ TypeOK /\ OrderInv /\ InFlightInv /\ [Next]_vars => BatchInv'
<1> SUFFICES ASSUME BatchInv, TypeOK, OrderInv, InFlightInv, [Next]_vars
             PROVE  BatchInv'
  OBVIOUS
<1>1. CASE Workers
  <2>1. PICK e \in inflight :
          WorkerStart(e) \/ WorkerRejected(e) \/ WorkerEnd(e)
    BY <1>1 DEF Workers
  <2>2. /\ UNCHANGED <<queues, batches, uiTodo, uiBatch, uiDrawn>>
        /\ \E stage \in Stage : Advance(e, stage)
    BY <2>1 DEF WorkerStart, WorkerRejected, WorkerEnd, ConnectSucceeds,
       TaskSucceeds, TaskFails, LateWrite, WorkerLeaves, Stage, uiVars
  <2>3. \A f \in inflight' : \E g \in inflight : f.task = g.task
    BY <2>2 DEF Advance
  <2> QED
    BY <2>2, <2>3, RemovalKeepsBatch
<1>2. CASE UNCHANGED vars
  BY <1>2, RemovalKeepsBatch DEF vars, schedulerVars, uiVars
<1> QED
  BY <1>1, <1>2, UiKeepsBatch, SchedulerKeepsBatch DEF Next

LEMMA InitBatch == Init => BatchInv
<1> SUFFICES ASSUME Init PROVE BatchInv
  OBVIOUS
<1>1. OnlyConnectsBatched
  BY DEF Init, OnlyConnectsBatched
<1>2. ASSUME NEW b \in BatchId PROVE Covered(b)
  <2>1. Outstanding(b) = {}
    BY LaneNames DEF Init, Outstanding
  <2>2. NotYetDrawn(b) = 0 /\ batches[b].remaining = 0
    BY FS_EmptySet DEF Init, NotYetDrawn, UnusedBatch
  <2> QED
    BY <2>1, <2>2, FS_EmptySet DEF Covered
<1> QED
  BY <1>1, <1>2 DEF BatchInv

\* A connect batch is popped, its end reported and its auto info started, only
\* when none of its connects is queued, in flight or still to be enqueued.
THEOREM BatchClosedOnlyWhenDone == Spec => []BatchNeverClosesEarly
<1>1. BatchInv => BatchNeverClosesEarly
  BY DEF BatchInv, Covered, BatchNeverClosesEarly
<1> QED
  BY InitBatch, NextKeepsBatch, <1>1, TypeCorrect, OrderCorrect,
     InFlightCorrect, PTL DEF Spec

----------------------------------------------------------------------------
(* The lanes never wait for each other in a circle.                        *)

\* A dispatch call that comes to lane i does something with its head.
Moves(i) ==
  /\ Scannable(i)
  /\ \E t \in queues[LaneOrder[i]] :
       /\ IsHead(t, LaneOrder[i])
       /\ t.ip \notin actors \/ Ready(t, known, Online, busy)

\* While something waits and nothing is in flight, some lane moves.
NoGridlock ==
  inflight = {} /\ (\E l \in Lane : queues[l] # {}) => \E i \in 1..7 : Moves(i)

LEMMA HeadExists ==
  ASSUME TypeOK, NEW l \in Lane, queues[l] # {}
  PROVE  \E t \in queues[l] : IsHead(t, l)
<1> DEFINE S == {t.seq : t \in queues[l]}
<1>1. queues[l] \in SUBSET Item
  BY DEF TypeOK
<1>2. S \in SUBSET Nat /\ S # {}
  BY <1>1 DEF Item
<1>3. PICK m \in S : \A k \in S : m <= k
  BY <1>2, LeastNatural
<1>4. PICK t \in queues[l] : t.seq = m
  BY <1>3
<1> QED BY <1>3, <1>4 DEF IsHead

\* In an idle system only a pending connect of its device holds a task back.
LEMMA IdleIsReady ==
  ASSUME TypeOK, InFlightInv, BusyRuns, inflight = {}, NEW t,
         t.lane = "connect" \/ \A l \in Lane : \A u \in queues[l] : u.lane # "connect"
  PROVE  Ready(t, known, Online, busy)
<1>1. submitted = {} /\ busy = {}
  BY DEF InFlightInv, MarksMatchTasks, BusyRuns, At
<1>2. ~BlockedByConnect(t, known, Online)
  BY DEF BlockedByConnect, HasPendingConnect
<1> QED BY <1>1, <1>2 DEF Ready

LEMMA IdleLaneMoves ==
  ASSUME TypeOK, InFlightInv, BusyRuns, inflight = {}, NEW l \in Lane, queues[l] # {},
         l = "connect" \/ \A k \in Lane : \A u \in queues[k] : u.lane # "connect",
         \A t \in queues[l] : t.lane = l
  PROVE  \E i \in 1..7 : Moves(i)
<1>1. PICK i \in 1..7 : LaneOrder[i] = l
  BY DEF Lane
<1>2. PICK t \in queues[l] : IsHead(t, l)
  BY HeadExists
<1>3. Ready(t, known, Online, busy)
  BY IdleIsReady
<1>4. ~LimitReached(l)
  <2>1. /\ {e \in At("picked") : e.task.lane = "connect"} = {}
        /\ {e \in At("picked") : e.task.lane # "connect"} = {}
    BY DEF At
  <2>2. /\ Cardinality({e \in At("picked") : e.task.lane = "connect"}) = 0
        /\ Cardinality({e \in At("picked") : e.task.lane # "connect"}) = 0
    BY <2>1, FS_EmptySet
  <2>3. ~(0 >= ConnectLimit) /\ ~(0 >= OtherLimit)
    BY SchedulerAssumption
  <2>4. CASE l = "connect"
    BY <2>2, <2>3, <2>4 DEF LimitReached
  <2>5. CASE l # "connect"
    BY <2>2, <2>3, <2>5 DEF LimitReached
  <2> QED BY <2>4, <2>5
<1> QED BY <1>1, <1>2, <1>3, <1>4 DEF Moves, Scannable

\* The head of a lane blocks the lane, and a pending connect blocks the other
\* lanes of its device; yet with nothing in flight the next dispatch call has
\* something to do, whatever rows are added, deleted or disconnected.
THEOREM LanesNeverGridlock == Spec => []NoGridlock
<1>1. TypeOK /\ InFlightInv /\ BusyRuns /\ OrderInv => NoGridlock
  <2> SUFFICES ASSUME TypeOK, InFlightInv, BusyRuns, OrderInv, inflight = {},
                      NEW l \in Lane, queues[l] # {}
               PROVE  \E i \in 1..7 : Moves(i)
    BY DEF NoGridlock
  <2>1. \A k \in Lane : \A u \in queues[k] : u.lane = k
    BY DEF OrderInv
  <2>2. "connect" \in Lane
    BY LaneNames
  <2>3. CASE queues["connect"] # {}
    BY <2>1, <2>2, <2>3, IdleLaneMoves
  <2>4. CASE queues["connect"] = {}
    <3>1. \A k \in Lane : \A u \in queues[k] : u.lane # "connect"
      BY <2>1, <2>4
    <3> QED BY <2>1, <3>1, IdleLaneMoves
  <2> QED BY <2>3, <2>4
<1> QED
  BY <1>1, TypeCorrect, InFlightCorrect, BusyCorrect, OrderCorrect, PTL

=============================================================================
