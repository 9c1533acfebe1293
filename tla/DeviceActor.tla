---------------------------- MODULE DeviceActor ----------------------------
(***************************************************************************)
(* One device: its snapshot in application/core/device_registry.py, the     *)
(* actors made for it one after the other (application/core/device_actor.py)*)
(* and the two threads that work on them.                                  *)
(*                                                                         *)
(* The registry's lock covers one call, not the read of a snapshot and the  *)
(* later write of its modified copy, so each such call, and each access to  *)
(* a field of the actor, is a step.  The worker is the executor thread that *)
(* runs the device's task (AppSupervisor: there is one at most); the other  *)
(* thread is the Qt thread.                                                *)
(***************************************************************************)
EXTENDS Naturals

CONSTANTS
  Actor,   \* identities of actors; one that nothing refers to is used again
  NoActor

ASSUME ActorAssumption == NoActor \notin Actor

DeviceState == {"discovered", "ready", "disconnected", "auth_failed"}

\* inflight stands for the snapshot's command, creds for its base_url,
\* root_path and auth_scheme.
Snapshot == [state : DeviceState, connected : BOOLEAN, selected : BOOLEAN,
             inflight : BOOLEAN, creds : BOOLEAN]

NoSnapshot == [absent |-> TRUE]

NewSnapshot == [state |-> "discovered", connected |-> FALSE, selected |-> FALSE,
                inflight |-> FALSE, creds |-> FALSE]

Kind == {"connect", "read", "control"}
ErrorKind == {"none", "auth", "network", "disconnect", "state", "runtime"}

VARIABLES
  \* registry
  snap,      \* snapshots_by_ip[ip]
  ordered,   \* how often ip is in ordered_ips
  selected,  \* ip \in selected_ips
  attached,  \* actors_by_ip[ip]
  \* actors
  hold,      \* actors with _disconnect_hold
  session,   \* actors with a session
  busy,      \* actors with a current_task_id
  \* threads
  w,         \* worker: place, actor, task, copy of the snapshot, error
  ui         \* Qt thread: place, actor, copy of the snapshot, what follows

registryVars == <<snap, ordered, selected, attached>>
actorVars == <<hold, session, busy>>
vars == <<registryVars, actorVars, w, ui>>

IdleWorker == [pc |-> "idle", actor |-> NoActor, kind |-> "read",
               copy |-> NoSnapshot, error |-> "none"]
IdleUi == [pc |-> "idle", actor |-> NoActor, copy |-> NoSnapshot, then |-> "stay"]

Init ==
  /\ snap = NoSnapshot /\ ordered = 0
  /\ selected = FALSE /\ attached = NoActor
  /\ hold = {} /\ session = {} /\ busy = {}
  /\ w = IdleWorker /\ ui = IdleUi

Exists == snap # NoSnapshot

\* upsert_snapshot: brings back a snapshot that was removed meanwhile.
Upsert(s) ==
  /\ snap' = s
  /\ ordered' = IF Exists THEN ordered ELSE ordered + 1
  /\ selected' = s.selected
  /\ UNCHANGED attached

----------------------------------------------------------------------------
(* The Qt thread.                                                          *)

UiGoes(from, to) == ui.pc = from /\ ui' = [ui EXCEPT !.pc = to]

\* ensure_device, then the actor, then the metadata of the discovery probe.
UiAdd ==
  /\ UiGoes("idle", "attach")
  /\ IF Exists THEN UNCHANGED <<snap, ordered>>
               ELSE snap' = NewSnapshot /\ ordered' = ordered + 1
  /\ UNCHANGED <<selected, attached, actorVars, w>>

UiAttach ==
  /\ UiGoes("attach", "metadata")
  /\ IF attached = NoActor
     THEN \E a \in Actor \ {w.actor} :
            /\ attached' = a
            /\ hold' = hold \ {a} /\ session' = session \ {a} /\ busy' = busy \ {a}
     ELSE UNCHANGED <<attached, actorVars>>
  /\ UNCHANGED <<snap, ordered, selected, w>>

UiMetadata ==
  /\ ui.pc = "metadata"
  /\ \E creds \in {snap.creds, TRUE, FALSE} : Upsert([snap EXCEPT !.creds = creds])
  /\ ui' = IdleUi
  /\ UNCHANGED <<actorVars, w>>

\* set_selected holds the lock from its read to its write.
UiSelect(choice) ==
  /\ ui.pc = "idle" /\ Exists
  /\ Upsert([snap EXCEPT !.selected = choice])
  /\ UNCHANGED <<actorVars, w, ui>>

\* set_focused, towards this device or away from it, reads the snapshot in one
\* call and writes its copy back in another; the flag itself is left out.
UiFocusRead ==
  /\ ui.pc = "idle" /\ Exists
  /\ ui' = [ui EXCEPT !.pc = "focus_write", !.copy = snap]
  /\ UNCHANGED <<registryVars, actorVars, w>>

UiFocusWrite ==
  /\ ui.pc = "focus_write"
  /\ Upsert(ui.copy)
  /\ ui' = IdleUi
  /\ UNCHANGED <<actorVars, w>>

\* The disconnect button, or the deletion of the row, on a device with an actor.
UiDisconnect(then) ==
  /\ ui.pc = "idle" /\ attached # NoActor
  /\ hold' = hold \cup {attached}
  /\ ui' = [ui EXCEPT !.pc = "close", !.actor = attached, !.then = then]
  /\ UNCHANGED <<registryVars, session, busy, w>>

UiClose ==
  /\ UiGoes("close", "disconnect_read")
  /\ session' = session \ {ui.actor}
  /\ UNCHANGED <<registryVars, hold, busy, w>>

UiDisconnectRead ==
  /\ ui.pc = "disconnect_read"
  /\ ui' = [ui EXCEPT !.pc = "disconnect_busy",
              !.copy = [snap EXCEPT !.connected = FALSE, !.state = "disconnected"]]
  /\ UNCHANGED <<registryVars, actorVars, w>>

UiDisconnectBusy ==
  /\ ui.pc = "disconnect_busy"
  /\ ui' = [ui EXCEPT !.pc = "disconnect_write",
              !.copy.inflight = @ /\ ui.actor \in busy]
  /\ UNCHANGED <<registryVars, actorVars, w>>

UiDisconnectWrite ==
  /\ ui.pc = "disconnect_write"
  /\ Upsert(ui.copy)
  /\ ui' = IF ui.then = "remove" THEN [IdleUi EXCEPT !.pc = "remove"] ELSE IdleUi
  /\ UNCHANGED <<actorVars, w>>

\* A snapshot without an actor is disconnected in place.
UiDisconnectBare ==
  /\ ui.pc = "idle" /\ Exists /\ attached = NoActor
  /\ Upsert([snap EXCEPT !.connected = FALSE, !.state = "disconnected"])
  /\ UNCHANGED <<actorVars, w, ui>>

\* Mutant: the registry forgets to take the device off selected_ips.
UiRemoveKeepsSelected ==
  /\ ui.pc = "remove" \/ (ui.pc = "idle" /\ Exists /\ attached = NoActor)
  /\ snap' = NoSnapshot /\ ordered' = 0 /\ attached' = NoActor
  /\ ui' = IdleUi
  /\ UNCHANGED <<selected, actorVars, w>>

\* Mutant: the registry keeps the actor of a device it deletes.
UiRemoveKeepsActor ==
  /\ ui.pc = "remove" \/ (ui.pc = "idle" /\ Exists /\ attached = NoActor)
  /\ snap' = NoSnapshot /\ ordered' = 0 /\ selected' = FALSE
  /\ ui' = IdleUi
  /\ UNCHANGED <<attached, actorVars, w>>

UiRemove ==
  /\ ui.pc = "remove" \/ (ui.pc = "idle" /\ Exists /\ attached = NoActor)
  /\ snap' = NoSnapshot /\ ordered' = 0
  /\ selected' = FALSE /\ attached' = NoActor
  /\ ui' = IdleUi
  /\ UNCHANGED <<actorVars, w>>

Ui ==
  \/ UiAdd \/ UiAttach \/ UiMetadata
  \/ \E choice \in BOOLEAN : UiSelect(choice)
  \/ UiFocusRead \/ UiFocusWrite
  \/ \E then \in {"stay", "remove"} : UiDisconnect(then)
  \/ UiClose \/ UiDisconnectRead \/ UiDisconnectBusy \/ UiDisconnectWrite
  \/ UiDisconnectBare \/ UiRemove

----------------------------------------------------------------------------
(* The worker.                                                             *)

WorkerGoes(from, to) == w.pc = from /\ w' = [w EXCEPT !.pc = to]

Held == w.actor \in hold

\* _run_task gets the actor; execute_task returns at once for a device on hold.
WorkerTake(kind) ==
  /\ w.pc = "idle" /\ attached # NoActor /\ attached \notin busy
  /\ w' = [w EXCEPT !.pc = "hold", !.actor = attached, !.kind = kind]
  /\ UNCHANGED <<registryVars, actorVars, ui>>

WorkerHold ==
  /\ w.pc = "hold"
  /\ w' = IF Held /\ w.kind # "connect" THEN IdleWorker ELSE [w EXCEPT !.pc = "begin"]
  /\ UNCHANGED <<registryVars, actorVars, ui>>

\* Mutant: the task begins on the actor registered now, not on its own.
WorkerBeginRegistered ==
  /\ WorkerGoes("begin", "begin_read")
  /\ busy' = busy \cup {attached}
  /\ UNCHANGED <<registryVars, hold, session, ui>>

WorkerBegin ==
  /\ WorkerGoes("begin", "begin_read")
  /\ busy' = busy \cup {w.actor}
  /\ UNCHANGED <<registryVars, hold, session, ui>>

\* A read of the snapshot, with the change the copy gets.  Without a snapshot
\* the error that follows is handled at Otherwise.
Reads(from, to, changed, Otherwise) ==
  /\ w.pc = from
  /\ w' = IF Exists THEN [w EXCEPT !.pc = to, !.copy = changed] ELSE Otherwise
  /\ UNCHANGED <<registryVars, actorVars, ui>>

Writes(from, to) ==
  /\ w.pc = from
  /\ Upsert(w.copy)
  /\ w' = [w EXCEPT !.pc = to, !.copy = NoSnapshot]
  /\ UNCHANGED <<actorVars, ui>>

\* Outside the try: the worker leaves and the actor stays busy.
WorkerBeginRead ==
  Reads("begin_read", "begin_write", [snap EXCEPT !.inflight = TRUE], IdleWorker)

WorkerBeginWrite ==
  Writes("begin_write", IF w.kind = "connect" THEN "request" ELSE "require")

Fails(error) == [w EXCEPT !.pc = "error_read", !.error = error]

\* _require_session: the session, or one made from the snapshot.
WorkerRequire ==
  /\ w.pc = "require"
  /\ \/ /\ Held
        /\ w' = Fails("disconnect") /\ UNCHANGED session
     \/ /\ ~Held /\ w.actor \in session
        /\ w' = [w EXCEPT !.pc = "request"] /\ UNCHANGED session
     \/ /\ ~Held /\ w.actor \notin session
        /\ IF Exists /\ snap.creds
           THEN w' = [w EXCEPT !.pc = "request"] /\ session' = session \cup {w.actor}
           ELSE w' = Fails(IF Exists THEN "state" ELSE "runtime") /\ UNCHANGED session
  /\ UNCHANGED <<registryVars, hold, busy, ui>>

\* Mutant: only AppErrors are caught, another one ends the task at once.
RequestErrorEscapes ==
  /\ w.pc = "request"
  /\ \E error \in {"auth", "network", "runtime"} :
       w' = IF error = "runtime" THEN IdleWorker ELSE Fails(error)
  /\ UNCHANGED <<registryVars, actorVars, ui>>

RequestFails ==
  /\ w.pc = "request"
  /\ \E error \in {"auth", "network", "runtime"} : w' = Fails(error)
  /\ UNCHANGED <<registryVars, actorVars, ui>>

\* A connect lifts the hold; another task is dropped when the hold came.
RequestSucceeds ==
  /\ w.pc = "request"
  /\ IF w.kind = "connect"
     THEN hold' = hold \ {w.actor} /\ w' = [w EXCEPT !.pc = "open"]
     ELSE /\ w' = [w EXCEPT !.pc = IF Held THEN "finish_read" ELSE "result_read"]
          /\ UNCHANGED hold
  /\ UNCHANGED <<registryVars, session, busy, ui>>

WorkerOpen ==
  /\ WorkerGoes("open", "result_read")
  /\ session' = session \cup {w.actor}
  /\ UNCHANGED <<registryVars, hold, busy, ui>>

Result ==
  CASE w.kind = "connect" ->
         [snap EXCEPT !.state = "ready", !.connected = TRUE, !.creds = TRUE]
    [] w.kind = "read" -> [snap EXCEPT !.state = "ready", !.connected = TRUE]
    [] w.kind = "control" -> snap

WorkerResultRead == Reads("result_read", "result_write", Result, Fails("runtime"))

WorkerResultWrite == Writes("result_write", "finish_read")

\* finish_task inside the try when the task succeeded, outside after an error.
WorkerFinishRead ==
  Reads("finish_read", "finish_write", [snap EXCEPT !.inflight = FALSE],
        IF w.error = "none" THEN Fails("runtime") ELSE IdleWorker)

WorkerFinishWrite == Writes("finish_write", "release")

WorkerRelease ==
  /\ w.pc = "release"
  /\ w' = IdleWorker
  /\ busy' = busy \ {w.actor}
  /\ UNCHANGED <<registryVars, hold, session, ui>>

\* _apply_error_state: its own KeyError leaves the actor busy.
ErrorState ==
  IF w.error = "auth" THEN "auth_failed"
  ELSE IF w.error \in {"network", "disconnect"} THEN "disconnected"
  ELSE snap.state

\* Mutant: every error clears connected, whatever the state becomes.
WorkerErrorAlwaysOffline ==
  Reads("error_read", "error_write",
        [snap EXCEPT !.state = ErrorState, !.connected = FALSE], IdleWorker)

WorkerErrorRead ==
  Reads("error_read", "error_write",
        [snap EXCEPT !.state = ErrorState, !.connected = (ErrorState = "ready")],
        IdleWorker)

WorkerErrorWrite == Writes("error_write", "finish_read")

Worker ==
  \/ \E kind \in Kind : WorkerTake(kind)
  \/ WorkerHold \/ WorkerBegin \/ WorkerBeginRead \/ WorkerBeginWrite
  \/ WorkerRequire \/ RequestFails \/ RequestSucceeds \/ WorkerOpen
  \/ WorkerResultRead \/ WorkerResultWrite
  \/ WorkerErrorRead \/ WorkerErrorWrite
  \/ WorkerFinishRead \/ WorkerFinishWrite \/ WorkerRelease

----------------------------------------------------------------------------
Next == Ui \/ Worker

Spec == Init /\ [][Next]_vars

----------------------------------------------------------------------------
(* Properties.                                                             *)

WorkerPlace ==
  {"idle", "hold", "begin", "begin_read", "begin_write", "require", "request",
   "open", "result_read", "result_write", "finish_read", "finish_write",
   "release", "error_read", "error_write"}

UiPlace ==
  {"idle", "attach", "metadata", "focus_write", "close", "disconnect_read",
   "disconnect_busy", "disconnect_write", "remove"}

\* Every variable holds values of its type.
TypeOK ==
  /\ snap \in Snapshot \cup {NoSnapshot}
  /\ ordered \in Nat
  /\ selected \in BOOLEAN
  /\ attached \in Actor \cup {NoActor}
  /\ hold \in SUBSET Actor /\ session \in SUBSET Actor /\ busy \in SUBSET Actor
  /\ w \in [pc : WorkerPlace, actor : Actor \cup {NoActor}, kind : Kind,
            copy : Snapshot \cup {NoSnapshot}, error : ErrorKind]
  /\ ui \in [pc : UiPlace, actor : Actor \cup {NoActor},
             copy : Snapshot \cup {NoSnapshot}, then : {"stay", "remove"}]

\* The registry's lists never drift from its snapshots, whichever stale copy
\* is written after a deletion: the row is listed exactly once while there is
\* a snapshot, and selected_ips agrees with the snapshot's flag.
RegistryInSync ==
  /\ ordered = IF Exists THEN 1 ELSE 0
  /\ selected = (Exists /\ snap.selected)

\* The registered actor is busy only while a worker executes a task on it: a
\* deletion that makes a worker's lookup fail never leaves the scheduler with
\* an actor that is busy for ever.
BusyActorHasWorker ==
  attached \in busy => w.actor = attached /\ w.pc \notin {"idle", "hold", "begin"}

\* A registered actor always finds its device's snapshot.
ActorHasSnapshot == attached # NoActor => Exists

\* The table never shows a device as connected in another state than ready, or
\* ready but not connected, whichever copies are mixed.
ConnectedIsReady == Exists => (snap.connected = (snap.state = "ready"))

\* Once the operator has disconnected a device, and nothing works on it, it is
\* not shown as connected (ui/main/controller.py: "stop the work and disconnect").
DisconnectSticks ==
  ui.pc = "idle" /\ w.pc = "idle" /\ attached \in hold => ~snap.connected

=============================================================================
