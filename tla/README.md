# Formal model of the production test tool

This directory is a TLA+ development of the tool in `src/`: a PyQt5 desktop
program that finds network cameras, connects to many of them at once, reads and
controls them, updates their firmware, resets them, gives them addresses and
shows their video. What can go wrong in it is mostly a matter of threads:
a Qt thread, a scheduler thread, executor workers and a firmware supervisor
share state under locks that cover single calls. The modules translate that
control flow; TLC explores it on small instances; TLAPS proves the central
properties for every value of the constants.

All paths below are relative to `src/`. `PROJECT.json` maps every definition to
the lines it stands for.

## 1. The system

### Threads and what they share

| Thread | Created by | Works on |
|---|---|---|
| Qt thread | `app/main.py` | everything in `ui/`; calls `AppSupervisor`, `DeviceRegistry`, `DeviceActor.disconnect`, `FirmwareBatchSupervisor` |
| `TaskSchedulerThread` | `application/core/app_supervisor.py` | scheduler, completion queue, connect batches |
| connect workers (8), default workers (4) | `AppSupervisor` | `DeviceActor.execute_task`, snapshots |
| `FirmwareBatchSupervisor` thread | `application/firmware/firmware_batch_supervisor.py` | firmware jobs |
| upload workers (`min(16, 24)`) | the same | one upload request each; answer through a future |
| discovery worker (`QThread`, one at a time) | `ui/discovery/controller.py` | scan, SetIP or reset; answers through Qt signals |

Messages: `enqueue_task` into the scheduler's heaps, futures and a completion
queue back; `ui_update_bus` marks towards the Qt thread; HTTP requests and UDP
datagrams to the cameras.

### Components

**Task scheduler** (`application/core/task_scheduler.py`). State: a heap per
lane ordered by sequence number, in-flight marks (`submitted`), the connect
limit, the pointer of the round over the lanes. Operations: push, select the
next batch of ready tasks, mark, unmark. Hard: the head of a lane that may not
run blocks its lane; a connect in a queue holds back other tasks of its device;
a task without an actor is thrown away while the lane is scanned. Correct when at
most one task of a device is in flight, marks are exact, nothing starves and
commands keep their order.

**Application supervisor** (`application/core/app_supervisor.py`). State:
scheduler, two executors, completion queue, connect batches with a countdown,
stop event. Operations: add, remove and disconnect a device, enqueue tasks and
batches, scheduler loop (drain, dispatch, submit), shutdown. Hard: sequence
numbers are drawn outside the scheduler's lock; completions arrive while a
batch is still being enqueued; `submit` fails after shutdown; rows are deleted
under running tasks. Correct when every task leaves, every batch is reported
finished exactly when its connects are over, and no task meets a busy actor.

**Device actor and registry** (`application/core/device_actor.py`,
`device_registry.py`). State: snapshots, order, selection, actors; per actor
hold, session, current task. Operations: execute a task (begin, request,
result or error, finish), disconnect, attach, upsert, remove, select, focus.
Hard: a snapshot is read in one lock section and its modified copy is written in
another, by two threads. Correct when lists, snapshots and actors agree, no
actor stays busy, and what the operator did last is what is shown.

**Firmware batch supervisor** (`application/firmware/`). State: jobs and their
states, the current batch, futures, `disconnect_observed`, attempts, deadline.
Operations: start a batch, retry the failed ones, promote queued jobs, collect
uploads, poll reconnects, expire, shut down. Hard: deadlines against late
answers, a retry against the previous batch, an exception that ends a pass. Correct
when each job goes through its flow once and gets a verdict, a success means
that the device left and came back, and no device is uploaded to twice at once.

**Main window controller** (`ui/main/controller.py`): turns signals into calls
of the two supervisors; PT press and release, deletion, disconnection. Its
state is the registry's.

**Connect service, probe, security 3.0** (`application/services/connect_service.py`,
`infra/network/probe.py`, `security3.py`). State of a run: the combination of
address, path and scheme, the candidate password, the errors kept so far, and,
outside the program, the camera's password and account. Operations: probe, test
a password, read the essential keys, change the password by RSA and then by
TENC, verify, fall back over the combinations, bootstrap a Security 3.0 camera. Hard:
every exchange may be lost or answered late, and a change of the password is
repeated and verified over the same network. Correct when a success opens the camera
and a password is changed only where the factory password asks for it.

**Camera HTTP client** (`infra/network/camera_http_client.py`,
`digest_auth.py`): digest challenge, nonce count, one repetition after a 401,
one after a connection that was closed, inside what its callers take for one request.

**Reset service** (`infra/reset/truen_reset_service.py`) and **SetIP**
(`infra/discovery/setip_protocol.py`, `application/services/setip_service.py`):
datagrams to many cameras, repeated until acknowledged. State: hits of the scan,
results, seed offset, current camera. Hard: lost, duplicated, foreign and late
acknowledgements, one of which counts for a camera whoever sent it, and a stop at any
moment. Correct when an acknowledgement settles one camera at most and none that was not
asked, nothing is reset after its report, every camera is answered for, and a stop stops.

**Discovery** (`infra/discovery/`): one receive loop that merges announcements.
**Its window** (`ui/discovery/controller.py`, `window.py`): rows, selection orders by
click or by MAC, address filling, one worker at a time whose slots run in the
worker's thread. Correct when the orders are 1..n and addresses follow them, and
the rows of a running job show it.

**Video** (`ui/video/`, `application/core/video_coordinator.py`): targets, page
plan, a tile's state with its health timer, reconnect timer, libVLC player and
the operator. Correct when a wanted tile plays in the end and nothing plays unseen.

**UI bus and poll coordinator** (`application/core/ui_update_bus.py`,
`poll_coordinator.py`): sets of marks merged between two flushes.

**Device repositories** (`infra/device/`), **firmware repository**
(`infra/firmware/`), **views** (`ui/main/window.py`, `ui/panels/`, ...),
**configuration and start-up**: requests, tables, widgets and constants.

The hazards of each, at their lines and with the properties that catch them, are
listed in `PROJECT.json`.

## 2. Modules

| Module | Models |
|---|---|
| `TaskScheduler` | heaps, in-flight marks, selection of the next tasks |
| `AppSupervisor` | `EXTENDS TaskScheduler`: the Qt thread, the scheduler thread, executors, batches, shutdown |
| `DeviceActor` | one device's snapshot, its successive actors, the Qt thread and a worker |
| `FirmwareJobFlow` | abstract: the states a firmware job goes through, and when it may end |
| `FirmwareBatch` | the firmware supervisor; implements `FirmwareJobFlow` |
| `CameraHttp` | one request of the client to a camera of any kind, over a network that disturbs it |
| `ConnectService` | `EXTENDS CameraHttp`: one `run_phase1`, from the probe to the response |
| `ResetPromise` | abstract: what a batch reset promises its caller |
| `BatchReset` | `reset_batch` with lost requests and acknowledgements of any device; implements `ResetPromise` |
| `SetIp` | `change_ip_batch` with cameras and datagrams |
| `DiscoveryWindow` | the window's table, its two threads and its three jobs |
| `Video` | the video window, its plan, pages, tiles, timers and players |
| `AppSupervisor_proofs`, `DeviceActor_proofs`, `FirmwareBatch_proofs`, `ConnectService_proofs`, `BatchReset_proofs`, `DiscoveryWindow_proofs`, `Video_proofs` | theorems |
| `LeastNumber` | the least-number principle, which proofs of two components rest on |
| `MCAppSupervisor`, `MCDeviceActor`, `MCFirmwareBatch` | small sets and symmetry for TLC; the other modules take numbers as constants and need none |

The modules meet at the sets they abstract from each other. `AppSupervisor` has one
task of a device in flight, which is why `DeviceActor` has one worker and
`ConnectService` runs alone on its camera; a connect of `DeviceActor` succeeds or
fails as `ConnectService` decides; `Video` and `FirmwareBatch` take any set of
connected devices from the registry.

### TaskScheduler and AppSupervisor

A task is a record (sequence number, device, lane, batch). `queues` are the
heaps as sets, whose head is the least sequence number: all tasks of one lane
have the lane's priority, so the number decides. `submitted` are the marks,
`inflight` the tasks between dispatch and the drain of their completion, with
the stage they are in. `pc` is where the scheduler thread stands; the selection is one
step because it runs under the scheduler's lock. On the Qt thread, drawing a
sequence number (`Draw`) and pushing the task (`UiPush`) are two steps, because
the code draws before it takes the lock and the scheduler thread may act in
between; the scheduler thread's own pushes (`AutoInfo`) are one step, as nobody
else takes tasks out. A device is reduced to five sets
the scheduler reads (`known`, `actors`, `connected`, `session`, `busy`).

`UiIdle` guards every slot of the Qt thread: a slot runs to its end before the
next one. `MaxUiSeq` bounds what the operator enqueues and is the only bound of
the module. An add after a deletion attaches a new actor while a worker may
still execute on the old one; `busy` speaks of the attached actor.

### DeviceActor

The registry's lock covers one call. `Reads` and `Writes` are two steps, with
the copy in `w.copy` or `ui.copy` in between. The worker's places follow
`execute_task`: begin, the look for the snapshot, the request with its
failures, the handler's result (after the look at `_disconnect_hold`), finish;
a `KeyError` of `require_snapshot` goes where Python takes it, out of
`execute_task` before the `try`, to the error path inside it. Values read from
the camera are not modelled: only state, connected, selected, the command in flight
and the presence of credentials. There is one worker per device; that this is
so is `OneInFlightPerDevice`, proved for `AppSupervisor`.

### FirmwareBatch

The four phases of a pass are steps of the supervisor thread; a probe is a step
of its own in which time may pass. `age` is the time since the collection of the
upload, `since` that since the last probe. `upload` is the job's future. `Faulty` are
devices whose answer makes the probe raise something else than an `AppError`, which
ends the pass; what the other jobs can lose by it is said by `UnaskedOnlyBehindRaise`.
`FirmwareJobFlow` has two variables, the state of each job and
the set of jobs whose device was seen to leave; `FirmwareBatch` maps to it with
the variables of the same names (`Flow == INSTANCE FirmwareJobFlow`).

### CameraHttp and ConnectService

An exchange is one step: its outcome is one of the classes of errors the callers
tell apart (`Reply`), and it may change the camera. Undisturbed, the answer is
what a camera of that kind gives (`Served`); disturbed, it may be lost before or
after the camera acted on it (`Disturbed`), which covers the repetition that
`_request_raw` hides. The camera's traits and what answers at each place are
chosen once. `pc` names the call that comes next; the three nested loops over
places, schemes and passwords are the counters `at` and `cand`, and `mem` holds
the errors from which the fallback picks the one it reports.
The passwords are those the code names. The one of the Security 3.0 account is among them,
as the operator may type or choose it for other cameras; the empty password, which stands for
all five, comes from other callers than the window. Keys, encryption, digests and URLs are left out.

### ResetPromise, BatchReset and SetIp

The worker's call is a sequence of steps between which datagrams arrive. Whatever device
sends an acknowledgement (`04 15`) to the port while one is awaited counts: the only caller sets
`ack_any_ip` (`ui/discovery/controller.py:642`), so the sender is not compared. An acknowledgement is
therefore possible in every window, as often as the window admits, and the model neither has
senders nor addresses: cameras of the batch, cameras of an earlier call, devices somebody else
reset and repeated datagrams are the same to the code. `Credited` is the camera it counts for.
`asked` records to which cameras a request was sent, `wiped` which of them it reached. A packet's
key is abstracted to the camera it was computed for: a round reaches any subset of the cameras it
is for. The stop flag may be set at any moment and is read where the code reads it; that is
what the service offers its callers, while the window of today enables its stop button for
scans only (`ui/discovery/window.py:384-386`).
`ResetPromise` has the two sets and the report: only cameras without a report are asked, only
those asked are reset or reported as reset, one at a time, and a report is final. It does not
promise that a camera reported as reset was: nothing in the program could know.

`SetIp` has the same shape with one request per camera and any other cameras on the
network, which answer the discovery request that goes out with it.

### DiscoveryWindow

`DiscoveryController` is no `QObject`, so PyQt runs its slots for the worker's signals in the
thread that emits them. Those slots read the rows (`ReadRows`), write them
(`SetRows`) and take the map of selected rows (`SlotSyncs`) in separate steps,
while the operator may act in between. In the Qt thread `rows_changed` is a
direct call, so `gui` is a stack of calls that have not returned:
`_on_rows_changed` renumbers the rows, sets them, is called again by that and only then
takes the map. A camera is its place in the order of MACs. That a slot of a plain
object runs in the emitting thread is PyQt's rule for direct connections and is the only
assumption on the library.

### Video

All slots run in the Qt thread, so each is one step; a player is external and opens,
breaks or never starts. What the registry and the table hold is chosen anew by each
operation (`Resolvable`, `ResolveTargets`), as devices come and go in between. A
tile is a record of the planned item, the wish to show it, its status, its player and its
two timers. `BuildPlan`, `ApplyPlan` and `SetStreamItem` are the code's calls
of the same names.

## 3. What the runs show

| Run | Property | Result | Distinct states |
|---|---|---|---|
| `supervisor_safety` | `TypeOK`, `OneInFlightPerDevice`, `MarksMatchTasks`, `NeverRejectedBusy`, `CommandsInOrder`, `BatchNeverClosesEarly` | hold | 4 747 633 |
| `supervisor_liveness` | `EveryTaskLeaves`, `UndisturbedBatchCloses` | hold | 179 363 |
| `supervisor_batch_removed` | `EveryBatchCloses` | violated | up to the counterexample |
| `firmware_safety` | `TypeOK`, `AttemptsWithinMaximum`, `OneJobPerDevice`, `FollowsFlow`, `UnaskedOnlyBehindRaise`, `EveryJobGetsVerdict`, with a faulty device | hold | 2 320 326 |
| `firmware_probe_raises` | `AskedBeforeGivenUp` | violated | up to the counterexample |
| `actor_safety` | `TypeOK`, `RegistryInSync`, `BusyActorHasWorker`, `ActorHasSnapshot`, `ConnectedIsReady` | hold | 3 255 286 |
| `actor_disconnect` | `DisconnectSticks` | violated | up to the counterexample |
| `connect_safety` | `TypeOK`, `SuccessOpensCamera`, `NoLossWithoutFault`, `FoundAfterMissedProbe`, `OnlyDefaultPasswordChanges`, `Returns` | hold | 515 372 |
| `reset_safety` | `TypeOK`, `EveryCameraAnswered`, `KeepsPromise`, `StopStopsResets`, `Returns` | hold | 27 676 |
| `setip_delivered` | `OkMeansDelivered` | violated | up to the counterexample |
| `discovery_safety` | `TypeOK`, `OrdersComplete`, `JobIsShown`, `FillFollowsOrder` | hold | 4 502 117 |
| `video_safety` | `TypeOK`, `WantedIsWatched`, `IdleIsSilent`, `TilesShowPlan`, `PlaysInTheEnd` | hold | 47 149 |

Each property of a passing run has a mutant: a definition next to the one it
replaces, changed as a slip in the code would change it, under which TLC finds
the property violated.

### Bounds

- Supervisor: two devices, as the properties relate a task to another of the same or of
  another device. Limits and workers of 1, so that both the limit and a full pool
  are met; one connect batch over both devices, whose auto info
  adds tasks of its own after the operator's. `MaxUiSeq` is 3 for safety (a batch of two and one more
  task, or three tasks of any lanes and devices, so that two commands of one device and a
  connect in front of them occur) and 2 for the temporal runs. Safety lets the
  program be closed at any moment (`MayStop`); `supervisor_liveness` does not, as a
  closed program owes nothing.
- Firmware: three jobs for two devices, so that a batch of two and a retry, or two
  batches, occur; one upload slot, so that a job waits; an interval of 1, a
  deadline of 2 and a maximum of 2 attempts keep the relation of 5, 180 and 36
  seconds that the code has (the deadline passes before one attempt more than the
  maximum). One of the two devices is faulty, and the program may be closed at any moment.
  A shutdown between two submissions of one pass needs two slots and is
  covered by the theorems only.
- Actor: two identities. An identity nothing refers to is used again, and at most
  two are referred to at once, so two are enough for any number of deletions.
- Connect: two places (the camera answers at the first, the second, both or
  neither), each with the three schemes of the fallback; two verifications instead of
  eight and two visits of the home page instead of ten, so that a first failure is
  repeated and a last one is final; two disturbed exchanges in one call, enough for
  a change whose answer is lost and whose verification fails as well.
- Reset: three cameras, so that one is credited with the acknowledgement of another, one was
  missed by the scan and one is left over; two seed offsets, so that a round is repeated.
  Acknowledgements are not bounded. Setip: two cameras and one more.
- Discovery window: two cameras and two addresses, so that filling meets the top
  address; one operation of the operator while a slot of the worker runs. More
  operations between the slots are not bounded.
- Video: five devices (two of them multi-channel) on pages of two tiles: three
  pages, the last one not full. In the code both page size and number of tiles are 10.
  Four operations allow opening, paging, devices leaving, closing and opening again; two
  faults let a restarted player break again.

Runs that do not check for deadlock are of programs that really stop: a closed
program, a call that returned, a video window whose operations and faults are used up.

### Fairness

The scheduler thread never waits on anything but its condition with a timeout
(`WF` of its steps). Workers are fair per device: a request ends, because every
request has a timeout. A slot of the Qt thread that enqueues a batch comes to its
end (`WF` of `UiBatchNext`), and gets the scheduler's lock again and again (`SF`
of `UiPush`, as the push waits while the scheduler thread selects). Nothing
makes the operator act. In the firmware module the thread is fair, some worker that runs comes
to its end (`WF` of the workers together; weaker than one for each, and enough), and time passes
between passes (`SF` of `Tick`). A connect and a batch reset take their next
step (`WF` of the call): each of their waits has a deadline. That alone does not make
them return; `Returns` rests on the counters of their nested loops moving on. In the video window the event loop delivers the timeouts of active
timers, and libVLC ends its attempt to open a stream (`WF` of the ticks, restarts and
`PlayerPlays`, per tile); how often players break is bounded by `MaxFaults`, not by fairness.

### Divergences found

Four runs expect a violation; each is a finding in `PROJECT.json`.

1. **A connect batch can stay open** (`supervisor_batch_removed`). A queued connect of a device that is
   deleted is thrown away by the scheduler without a completion
   (`task_scheduler.py:121`); the batch is never counted down and the auto info of
   its other devices never starts. A batch none of whose devices is deleted does close
   (`UndisturbedBatchCloses`).
2. **A disconnect can be undone** (`actor_disconnect`). A read that looked at `_disconnect_hold`
   before the disconnect writes `connected=True` after it (`device_actor.py:271`).
3. **An address change can be reported as delivered that was not** (`setip_delivered`). `is_ack_packet`
   looks at one byte that the announcement of any camera has too (`setip_protocol.py:103`),
   and the request's own broadcast provokes such announcements. In the trace the camera that is
   addressed loses the request and announces itself; as the sender is not compared, the announcement
   of any other would do as well.
4. **One device can keep the jobs behind it from being asked** (`firmware_probe_raises`). A probe that raises something
   else than an `AppError` ends the firmware pass (`firmware_repository.py:291`,
   `firmware_batch_supervisor.py:190`), and every later one, as its next due time is not set; the jobs listed behind it are
   failed at the deadline without their device having been asked. `README.md:104`, `:192`, `:203`, `README_dev.md:423`
   and `:555` promise that one failing device does not stop the others. `UnaskedOnlyBehindRaise` says that this
   is the only way: the run with the faulty device checks it, `NoneGivenUpUnasked` proves it, and
   `WithoutRaiseAllAreAsked` proves that without such an error nothing is given up unasked.

Others were met without a text that promises otherwise, or are exceptions written
into a property:

- A tick of a row can be undone by the worker's write of an older copy (`device_actor.py:135`).
- A firmware job can be given up for its device's silence without the device having been asked, when
  many devices restart at once: the clock is read once per pass
  (`firmware_batch_supervisor.py:290`), the probes of a pass follow each other
  (`:316`), and each takes up to its timeout. Where that is 5 s, the interval of the passes and
  the unit of time of the model, and the deadline 180 s, more than 36 devices of one batch can use up
  the time of the last; `NoneGivenUpUnasked` proves that 36 cannot. A probe that takes longer
  than its timeout, with a request repeated, lowers the number in proportion. The
  firmware runs are within the bound.
- A firmware success may be counted after the deadline (`firmware_batch_supervisor.py:331`): the
  clock is read once per pass.
- As the discovery window sets `ack_any_ip`, a camera may be reported as reset on the acknowledgement of
  another device and be left as it is, and one that was reset may be reported as failed
  (`truen_reset_service.py:1105-1115`, `wait_for_ack_0415`). The option is the code's own, and no text
  promises otherwise: `ResetPromise` leaves it out.
- A change of the password whose answer is lost can end in a failed call with the new
  password set. The next connect of the operator tries that password.

`tests/unit/test_scheduler_basic.py` expects `dispatch_once` to execute tasks,
which the code only counts; nothing in the program calls it, and it is not
modelled.

## 4. What is proved

Assumptions are those named in the modules: limits, workers, parallelism and
interval are positive; removable and faulty devices are devices; the deadline is
below one interval more than the maximum of attempts; `NoActor` is no actor; places,
verifications, cameras of a reset or of the discovery window, addresses, seeds and tiles are
positive numbers.
Devices, batches and actors are arbitrary sets (finite for firmware devices and for
the supervisor's, which a batch counts). Two theorems, `NoneGivenUpUnasked` and
`WithoutRaiseAllAreAsked`, have hypotheses of their own, which are their point.

Every invariant and every action property of the passing runs is a theorem, and so are
both refinements; some theorems state what no run checks.

**Supervisor.** `TypeCorrect` goes action by action. `OneTaskPerDevice` and
`MarksCorrect` are one invariant (`InFlightInv`): neither is inductive alone, as a
mark is what keeps a second task out and a task is what removes the mark. Every
step is classified first (`NextInFlight`): it leaves tasks in flight
alone, advances one, retires one, or picks one of an unmarked device.
`NoBusyError` adds `BusyRuns`: a busy attached actor is executing a task of its
device that is in flight; a second one would be two in flight.
`CommandsDispatchedInOrder` strengthens the order of what is in flight with the order of what
is queued or drawn (`OrderInv`): only the Qt thread draws numbers of the two
command lanes, one item at a time, so the item in its hand is the youngest.
`BatchClosedOnlyWhenDone` is an account (`BatchInv`): the connects of a batch that are
queued, in flight or still to be enqueued are finitely many and no more than its countdown; one that
completes is taken off both, one that is thrown away off the first
only, which is why the countdown may stay above zero but never gets there early.
`LanesNeverGridlock`: with nothing in flight and something queued, the head of some lane
is ready or is thrown away. If a connect is queued, the head of the connect lane waits
for nothing but marks, and there are none; if none is, no head of any lane has a
prerequisite. A least sequence number exists because the numbers are naturals.

**Device actor.** One invariant (`Inv`): a snapshot that exists, and
any copy held between a read and a write, is connected exactly when ready; the
Qt thread that adds or disconnects has a snapshot or an actor; a worker under way has
an actor. With it `RegistryStaysInSync`, `ActorHasItsSnapshot`, `NoStuckActor` and
`ConnectedExactlyWhenReady` follow for any mix of the two threads.

**Firmware.** `OneJobPerDeviceHolds` rests on `BatchInv` (unsettled
jobs belong to the current batch, whose targets are distinct; a new batch needs
a settled one), `FutureInv` and `PassInv` (what a pass still has to treat is still
in its reboot window). `AttemptsBounded`: no code compares the attempts with the
maximum; that `attempts * Interval + since <= age` up to the deadline bounds
them (`AttemptsInv`). `SupervisorFollowsFlow`: initial states map to initial
states and every step to a step or a stutter of `FirmwareJobFlow`. What that means
for a job is drawn from it: `SuccessWasSeenToLeave`, `VerdictIsFinal`.
`NoneGivenUpUnasked` needs `Interval + Cardinality(Device) <= Timeout + 1`. The invariant
(`WaitInv`) keeps the age of a job that waits for its first probe, with the time the
running pass can still take: one unit for each probe of the pass. A job that is
due waits for at most the others of its batch, whose targets are distinct devices
(pigeonhole, `PatienceFits`). The hypothesis cannot be dropped: see the divergences.

**Connect.** `Inv` adds to the types what the success rests on: a change under way
is of a camera that refuses to work with its factory password, or is sent with credentials
the camera refuses (`Changing`), the bootstrap has its account before it has its access
(`Bootstrap`), and a call that is not over has no result. Each exchange is first reduced to what it may
do to the camera; then `SuccessIsReal` is that whatever was read last proves the
password reported, and `PasswordIsSafe` that only an accepted write of `Changing` changes one.
`PasswordStaysKnown` follows over the whole call: old password or target, whatever is lost.
`FailureKeepsPassword` (`Kept`): without a fault a write that was taken is read back before the call
moves on, so until the call succeeds a changed password is about to be verified, with success (`ChangedVerifies`).
`MissedProbeIsMadeGood` (`Found`, `Search`): while a camera that works is reachable, the nested loops have
not passed the combination and the password that open it; each step of the loops
moves on without overtaking them (`SearchGoesOn`, `SearchTriesPasswords`), and the test that
reaches them succeeds (`TestTells`).

**Batch reset.** `Refinement` maps the call to `ResetPromise`, for acknowledgements of any device at
any time. `Inv` says that whoever an acknowledgement can count for was asked (`AskedFirst`: the
cameras of the round while its window is open, the current one in the fallback), and how far the loop over the cameras left over is
(`Progress`), which also gives `AllAnswered`. Every step is one of the promise or none (`Kept`): a round is
an `Ask`, as it never contains a camera that has its result; an acknowledgement settles the first open camera
of the round or nobody (`CreditedOne`). `StopHolds` follows from the places where the stop is read.

**Discovery window.** `Sound` speaks of the stack of calls as well as of the table. A table is
set by the innermost call only, a worker started by the outermost one, and by it only while none
runs (`Queue`); orders that are not complete are always about to be renumbered, by a call or by
what the worker's slot posted (`Settles`); the cameras of a job that runs or is about to are marked
in the rows or in the table about to be set (`Marked`). `CallStep`, `EditStep`, `SetStep` and
`WorkStep` prove it for each kind of step, and the actions are instances. That a renumbering is
complete is `OrderedIsComplete`: the place of a selected row is an injection of the selected rows
into 1 to their number, hence onto. `OrdersStayComplete` and `JobStaysShown` are parts of it; for
`FillsFollowOrder` the places before and after the fill are shown to be the same.

**Video.** `IInv` is the type invariant and `Sound` for every tile: a wanted tile has an
item whose profile its device has (or a start would give up) and the timer its player needs; an
unwanted one is silent; a closed window wants nothing. `NoTileIsLeft` and `NothingPlaysUnseen` are parts of it, for
any number of devices, tiles, operations and broken players.
`PageShownIsThePlan` adds what tiles, plan and header have to do with each other (`ShowInv`): a tile
that wants to play has the item of the plan at its place, the header is the plan's, and
in any plan that `BuildPlan` makes no device is on two tiles and a page of a plan with
devices has a first one (`PlanShows`). The last needs that of n devices there is one
with k before it for every k below n (`NthExists`): shown without induction, from the
least number with more than k devices below it (`LeastNumber`).

Only model-checked: `EveryTaskLeaves`, `UndisturbedBatchCloses`, `EveryJobGetsVerdict`,
`Returns` of both calls and `PlaysInTheEnd`, which are liveness under fairness: `ENABLED` is
beyond the prover. `LanesNeverGridlock` is the part of `EveryTaskLeaves` that is an invariant.
Of `SetIp` nothing is proved: its one property is violated. The theorems of the library about
induction take an operator, which the provers cannot instantiate; where a reader would
expect an induction, the proofs take a least counterexample. No module has a recursive operator.

## 5. Not modelled

- Of the modelled parts: `dispatch_once`, `run_until_idle` and the polls of the
  visible page (nothing in the program calls them), the due time of tasks (none
  has one), the focused flag, messages, timestamps and values of snapshots, and
  marks of the UI bus.
- The URL candidates of a firmware upload: whether an upload counts as accepted is a choice.
- The digest computation, cryptography, keys and packets: a request carries what it is for.
- The fallbacks between profiles when the URL of a video is built: a tile has a profile its device has.
- Probe metadata of added rows: no window hands any over.
- `run_setip_batch` and the wait for the new address, which no service calls.
- Discovery's receive loop (`udp_discovery.py`, `packet_parser.py`): one thread that parses bytes
  into a map by MAC; its result, any set of cameras, is an input of `DiscoveryWindow`.
- UI bus and poll coordinator: sets under one lock, emptied by one flush; no
  hazard spans two of their steps.
- Device repositories: requests and tables of parameters without state.
- Widgets, formatting, parsing of key=value text, tables of profiles, logging,
  settings: no behaviour over time.

## 6. What could be added

In this order; each is written to be proved about (constants with named
assumptions, one action per operation, no recursive operator).

1. `UploadRequest`: candidates and dropped connections of a firmware upload, in
   place of the choice in `FirmwareBatch`.
2. The registry of several devices: focus and selection over stale copies.
3. Pure operators with references over bounded inputs: merge of announcements,
   clamping and mapping of profile values.
