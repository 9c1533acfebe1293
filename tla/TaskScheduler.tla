--------------------------- MODULE TaskScheduler ---------------------------
(***************************************************************************)
(* The lane queues and the per-device in-flight marks of                   *)
(* application/core/task_scheduler.py.                                     *)
(*                                                                         *)
(* Each lane is a heap ordered by (-priority, sequence, due_at).  The      *)
(* command factory gives every task of a lane the same priority and no due *)
(* time, so a lane is a set of items whose head is the smallest sequence.  *)
(***************************************************************************)
EXTENDS Naturals, Sequences, FiniteSets

CONSTANTS
  Device,         \* IP addresses the operator works with
  BatchId,        \* identities of connect batches (uuid4 in the code)
  ConnectLimit,   \* connect tasks one dispatch call may pick (8)
  OtherLimit      \* other tasks one dispatch call may pick (4)

ASSUME SchedulerAssumption ==
  /\ IsFiniteSet(Device)
  /\ BatchId \subseteq Nat \ {0}
  /\ ConnectLimit \in Nat \ {0}
  /\ OtherLimit \in Nat \ {0}

NoBatch == 0

LaneOrder == <<"control", "connect", "info", "poll_hot", "poll_warm",
               "firmware", "udp_admin">>

Lane == {LaneOrder[i] : i \in 1..7}

Item == [seq : Nat, ip : Device, lane : Lane, batch : BatchId \cup {NoBatch}]

\* How far a dispatched task has come: selected by the scheduler, queued in
\* an executor, being executed, or in the completion queue with its result.
Stage == {"picked", "pool", "running", "ok", "failed"}

VARIABLES
  queues,     \* lane -> items waiting in it
  submitted,  \* _submitted_device_ips
  inflight,   \* dispatched tasks with their stage
  scan        \* position of the running dispatch call in LaneOrder

schedulerVars == <<queues, submitted, inflight, scan>>

NewItem(n, ip, lane, b) == [seq |-> n, ip |-> ip, lane |-> lane, batch |-> b]

At(stage) == {e \in inflight : e.stage = stage}

Enqueue(items) ==
  queues' = [l \in Lane |-> queues[l] \cup {t \in items : t.lane = l}]

Advance(e, stage) ==
  inflight' = (inflight \ {e}) \cup {[task |-> e.task, stage |-> stage]}

\* Mutant: the completion is handled without mark_task_finished.
RetireKeepsMark(e) == inflight' = inflight \ {e} /\ UNCHANGED submitted

\* mark_task_finished, for a task that leaves the system.
Retire(e) ==
  /\ inflight' = inflight \ {e}
  /\ submitted' = submitted \ {e.task.ip}

\* Mutant: the newest item of a lane goes first.
IsHeadLifo(t, lane) ==
  /\ t \in queues[lane]
  /\ \A u \in queues[lane] : t.seq >= u.seq

IsHead(t, lane) ==
  /\ t \in queues[lane]
  /\ \A u \in queues[lane] : t.seq <= u.seq

HasPendingConnect(ip) ==
  \E l \in Lane : \E u \in queues[l] : u.ip = ip /\ u.lane = "connect"

\* Mutant: a connect, too, waits for the pending connect of its device.
BlockedByOwnConnect(t, known, online) ==
  /\ t.ip \in known
  /\ t.ip \notin online
  /\ HasPendingConnect(t.ip)

BlockedByConnect(t, known, online) ==
  /\ t.lane # "connect"
  /\ t.ip \in known
  /\ t.ip \notin online
  /\ HasPendingConnect(t.ip)

LimitReached(lane) ==
  IF lane = "connect"
  THEN Cardinality({e \in At("picked") : e.task.lane = "connect"}) >= ConnectLimit
  ELSE Cardinality({e \in At("picked") : e.task.lane # "connect"}) >= OtherLimit

\* A lane the scan stops at.  The queues and the picks of this call change
\* only under the lock the call holds, so the others are passed over at once.
Scannable(i) == queues[LaneOrder[i]] # {} /\ ~LimitReached(LaneOrder[i])

IsNextLane(i) ==
  /\ i \in scan..7
  /\ Scannable(i)
  /\ \A j \in scan..(i - 1) : ~Scannable(j)

ScanEnds == \A i \in scan..7 : ~Scannable(i)

\* The head of lane i belongs to a device without an actor: it is discarded
\* and the lane's next item is looked at.
DropHead(i, actors) ==
  \E t \in queues[LaneOrder[i]] :
    /\ IsHead(t, LaneOrder[i])
    /\ t.ip \notin actors
    /\ queues' = [queues EXCEPT ![LaneOrder[i]] = @ \ {t}]
    /\ scan' = i
    /\ UNCHANGED <<submitted, inflight>>

\* Mutant: the in-flight mark is not looked at, only what the actor does.
ReadyUnlessBusy(t, known, online, busy) ==
  /\ ~BlockedByConnect(t, known, online)
  /\ t.ip \notin busy

Ready(t, known, online, busy) ==
  /\ t.ip \notin submitted
  /\ ~BlockedByConnect(t, known, online)
  /\ t.ip \notin busy

\* The head of lane i is dispatched; the scan restarts at the first lane.
PickHead(i, actors, known, online, busy) ==
  \E t \in queues[LaneOrder[i]] :
    /\ IsHead(t, LaneOrder[i])
    /\ t.ip \in actors
    /\ Ready(t, known, online, busy)
    /\ queues' = [queues EXCEPT ![LaneOrder[i]] = @ \ {t}]
    /\ submitted' = submitted \cup {t.ip}
    /\ inflight' = inflight \cup {[task |-> t, stage |-> "picked"]}
    /\ scan' = 1

\* The head of lane i cannot run yet: the whole lane waits behind it.
HoldHead(i, actors, known, online, busy) ==
  \E t \in queues[LaneOrder[i]] :
    /\ IsHead(t, LaneOrder[i])
    /\ t.ip \in actors
    /\ ~Ready(t, known, online, busy)
    /\ scan' = i + 1
    /\ UNCHANGED <<queues, submitted, inflight>>

=============================================================================
