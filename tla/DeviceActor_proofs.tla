------------------------- MODULE DeviceActor_proofs -------------------------
(***************************************************************************)
(* Proofs about DeviceActor, for any number of actors: the registry's lists *)
(* agree with its snapshots, a registered actor has its snapshot and is     *)
(* never left busy, a device is shown connected exactly when it is ready.   *)
(***************************************************************************)
EXTENDS DeviceActor, TLAPS

Coherent(s) == s.connected = (s.state = "ready")

WritePlace == {"begin_write", "result_write", "error_write", "finish_write"}
UiWritePlace == {"focus_write", "disconnect_busy", "disconnect_write"}
DisconnectPlace == {"close", "disconnect_read", "disconnect_busy", "disconnect_write"}

\* The copies that wait to be written are snapshots that agree with themselves.
CopiesInv ==
  /\ Exists => Coherent(snap)
  /\ w.pc \in WritePlace => w.copy \in Snapshot /\ Coherent(w.copy)
  /\ ui.pc \in UiWritePlace => ui.copy \in Snapshot /\ Coherent(ui.copy)

\* Where the Qt thread is in the middle of an addition or a disconnection.
UiInv ==
  /\ ui.pc \in {"attach", "metadata"} => Exists
  /\ ui.pc \in DisconnectPlace => attached # NoActor

\* A worker that is under way works on an actor.
WorkerInv == w.pc # "idle" => w.actor # NoActor

Inv == /\ CopiesInv /\ UiInv /\ WorkerInv
       /\ RegistryInSync /\ ActorHasSnapshot /\ BusyActorHasWorker

LEMMA NotASnapshot == NoSnapshot \notin Snapshot
BY DEF NoSnapshot, Snapshot

LEMMA SnapshotWhenExists == TypeOK /\ Exists => snap \in Snapshot
BY DEF TypeOK, Exists

\* What a write of a copy gives, whoever writes.
LEMMA UpsertKeeps ==
  ASSUME TypeOK, RegistryInSync, ActorHasSnapshot,
         NEW s \in Snapshot, Coherent(s), Upsert(s)
  PROVE  /\ snap' = s /\ snap' \in Snapshot /\ Exists' /\ Coherent(snap)'
         /\ ordered' \in Nat /\ selected' \in BOOLEAN /\ attached' = attached
         /\ RegistryInSync' /\ ActorHasSnapshot'
<1>1. /\ snap' = s /\ selected' = s.selected /\ attached' = attached
      /\ ordered' = IF Exists THEN ordered ELSE ordered + 1
  BY DEF Upsert
<1>2. Exists'
  BY <1>1, NotASnapshot DEF Exists
<1>3. s.selected \in BOOLEAN
  BY DEF Snapshot
<1>4. ordered' = 1
  BY <1>1 DEF RegistryInSync
<1>5. RegistryInSync'
  BY <1>1, <1>2, <1>3, <1>4 DEF RegistryInSync
<1> QED
  BY <1>1, <1>2, <1>3, <1>4, <1>5 DEF ActorHasSnapshot, Coherent

LEMMA InitInv == Init => TypeOK /\ Inv
<1> SUFFICES ASSUME Init PROVE TypeOK /\ Inv
  OBVIOUS
<1>1. TypeOK
  BY DEF Init, TypeOK, IdleWorker, IdleUi, WorkerPlace, UiPlace, Kind, ErrorKind
<1>2. Inv
  BY DEF Init, Inv, CopiesInv, UiInv, WorkerInv, RegistryInSync, ActorHasSnapshot,
     BusyActorHasWorker, Exists, IdleWorker, IdleUi, WritePlace, UiWritePlace,
     DisconnectPlace
<1> QED
  BY <1>1, <1>2

----------------------------------------------------------------------------
(* Steps of the Qt thread.                                                 *)

UiRecord == [pc : UiPlace, actor : Actor \cup {NoActor},
             copy : Snapshot \cup {NoSnapshot}, then : {"stay", "remove"}]

LEMMA IdleUiType == IdleUi \in UiRecord
BY DEF IdleUi, UiRecord, UiPlace

\* A step of the Qt thread that leaves registry and actors alone.
LEMMA UiMoves ==
  ASSUME TypeOK, Inv, UNCHANGED <<registryVars, actorVars, w>>,
         ui' \in UiRecord,
         ui'.pc \in UiWritePlace => ui'.copy \in Snapshot /\ Coherent(ui'.copy),
         ui'.pc \notin {"attach", "metadata"},
         ui'.pc \in DisconnectPlace => attached # NoActor
  PROVE  TypeOK' /\ Inv'
<1>1. TypeOK'
  BY DEF TypeOK, UiRecord, registryVars, actorVars
<1>2. Inv'
  BY DEF Inv, CopiesInv, UiInv, WorkerInv, RegistryInSync, ActorHasSnapshot,
     BusyActorHasWorker, Exists, Coherent, registryVars, actorVars
<1> QED
  BY <1>1, <1>2

\* A step of the Qt thread that writes a snapshot.
LEMMA UiWrites ==
  ASSUME TypeOK, Inv, UNCHANGED <<actorVars, w>>,
         NEW s \in Snapshot, Coherent(s), Upsert(s),
         ui' \in UiRecord, ui'.pc \in {"idle", "remove"}
  PROVE  TypeOK' /\ Inv'
<1>1. /\ snap' = s /\ snap' \in Snapshot /\ Exists' /\ Coherent(snap)'
      /\ ordered' \in Nat /\ selected' \in BOOLEAN /\ attached' = attached
      /\ RegistryInSync' /\ ActorHasSnapshot'
  BY UpsertKeeps DEF Inv
<1>2. TypeOK'
  BY <1>1 DEF TypeOK, UiRecord, actorVars
<1>3. CopiesInv' /\ UiInv' /\ WorkerInv'
  BY <1>1 DEF Inv, CopiesInv, UiInv, WorkerInv, Coherent, UiWritePlace, DisconnectPlace
<1>4. BusyActorHasWorker'
  BY <1>1 DEF Inv, BusyActorHasWorker, actorVars
<1> QED
  BY <1>1, <1>2, <1>3, <1>4 DEF Inv

LEMMA UiKeepsInv == TypeOK /\ Inv /\ Ui => TypeOK' /\ Inv'
<1> SUFFICES ASSUME TypeOK, Inv, Ui PROVE TypeOK' /\ Inv'
  OBVIOUS
<1>0. /\ ui \in UiRecord
      /\ Exists => snap \in Snapshot /\ Coherent(snap)
      /\ attached # NoActor => Exists
  BY SnapshotWhenExists DEF TypeOK, UiRecord, Inv, CopiesInv, ActorHasSnapshot
<1>1. CASE UiAdd
  <2>1. ui' = [ui EXCEPT !.pc = "attach"] /\ ui' \in UiRecord
    BY <1>0, <1>1 DEF UiAdd, UiGoes, UiRecord, UiPlace
  <2>2. UNCHANGED <<selected, attached, actorVars, w>>
    BY <1>1 DEF UiAdd
  <2>3. NewSnapshot \in Snapshot /\ Coherent(NewSnapshot) /\ NewSnapshot.selected = FALSE
    BY DEF NewSnapshot, Snapshot, DeviceState, Coherent
  <2>4. CASE Exists
    <3>1. UNCHANGED <<snap, ordered>>
      BY <1>1, <2>4 DEF UiAdd
    <3>2. TypeOK'
      BY <2>1, <2>2, <3>1 DEF TypeOK, UiRecord, actorVars
    <3> QED
      BY <2>1, <2>2, <2>4, <3>1, <3>2, <1>0
      DEF Inv, CopiesInv, UiInv, WorkerInv, RegistryInSync, ActorHasSnapshot,
          BusyActorHasWorker, Exists, Coherent, actorVars, UiRecord,
          UiWritePlace, DisconnectPlace
  <2>5. CASE ~Exists
    <3>0. ordered = 0 /\ selected = FALSE
      BY <2>5, Zenon DEF Inv, RegistryInSync
    <3>1. snap' = NewSnapshot /\ ordered' = 1 /\ selected = FALSE
      BY <1>1, <2>5, <3>0 DEF UiAdd
    <3>2. Exists'
      BY <2>3, <3>1, NotASnapshot DEF Exists
    <3>3. TypeOK'
      BY <2>1, <2>2, <2>3, <3>1 DEF TypeOK, UiRecord, actorVars
    <3> QED
      BY <2>1, <2>2, <2>3, <3>1, <3>2, <3>3, <1>0
      DEF Inv, CopiesInv, UiInv, WorkerInv, RegistryInSync, ActorHasSnapshot,
          BusyActorHasWorker, Coherent, actorVars, UiRecord, UiWritePlace,
          DisconnectPlace
  <2> QED
    BY <2>4, <2>5
<1>2. CASE UiAttach
  <2>1. ui' = [ui EXCEPT !.pc = "metadata"] /\ ui' \in UiRecord /\ ui'.pc = "metadata"
    BY <1>0, <1>2 DEF UiAttach, UiGoes, UiRecord, UiPlace
  <2>2. UNCHANGED <<snap, ordered, selected, w>> /\ Exists
    BY <1>2 DEF UiAttach, UiGoes, Inv, UiInv
  <2>3. \/ UNCHANGED <<attached, actorVars>>
        \/ \E a \in Actor : /\ attached' = a /\ hold' = hold \ {a}
                            /\ session' = session \ {a} /\ busy' = busy \ {a}
    BY <1>2 DEF UiAttach
  <2>4. TypeOK'
    BY <2>1, <2>2, <2>3 DEF TypeOK, UiRecord, actorVars
  <2>5. BusyActorHasWorker'
    BY <2>2, <2>3 DEF Inv, BusyActorHasWorker, actorVars
  <2> QED
    BY <2>1, <2>2, <2>4, <2>5
    DEF Inv, CopiesInv, UiInv, WorkerInv, RegistryInSync, ActorHasSnapshot, Exists,
        Coherent, UiWritePlace, DisconnectPlace
<1>3. CASE UiMetadata
  <2>1. Exists
    BY <1>3 DEF UiMetadata, Inv, UiInv
  <2>2. PICK creds \in {snap.creds, TRUE, FALSE} :
          Upsert([snap EXCEPT !.creds = creds])
    BY <1>3 DEF UiMetadata
  <2>3. [snap EXCEPT !.creds = creds] \in Snapshot
        /\ Coherent([snap EXCEPT !.creds = creds])
    BY <1>0, <2>1, <2>2 DEF Snapshot, Coherent
  <2> QED
    BY <1>3, <2>2, <2>3, UiWrites, IdleUiType DEF UiMetadata, IdleUi
<1>4. ASSUME NEW choice \in BOOLEAN, UiSelect(choice) PROVE TypeOK' /\ Inv'
  <2>1. [snap EXCEPT !.selected = choice] \in Snapshot
        /\ Coherent([snap EXCEPT !.selected = choice])
    BY <1>0, <1>4 DEF UiSelect, Snapshot, Coherent
  <2> QED
    BY <1>0, <1>4, <2>1, UiWrites DEF UiSelect
<1>5. CASE UiFocusRead
  <2>1. ui' = [ui EXCEPT !.pc = "focus_write", !.copy = snap] /\ Exists
    BY <1>5 DEF UiFocusRead
  <2>2. ui' \in UiRecord /\ ui'.pc = "focus_write" /\ ui'.copy = snap
    BY <1>0, <2>1 DEF UiRecord, UiPlace
  <2> QED
    BY <1>0, <1>5, <2>1, <2>2, UiMoves DEF UiFocusRead, DisconnectPlace
<1>6. CASE UiFocusWrite
  <2>1. ui.copy \in Snapshot /\ Coherent(ui.copy)
    BY <1>6 DEF UiFocusWrite, Inv, CopiesInv, UiWritePlace
  <2> QED
    BY <1>6, <2>1, UiWrites, IdleUiType DEF UiFocusWrite, IdleUi
<1>7. ASSUME NEW then \in {"stay", "remove"}, UiDisconnect(then)
      PROVE  TypeOK' /\ Inv'
  <2>1. /\ ui' = [ui EXCEPT !.pc = "close", !.actor = attached, !.then = then]
        /\ hold' = hold \cup {attached} /\ attached # NoActor
        /\ UNCHANGED <<registryVars, session, busy, w>>
    BY <1>7 DEF UiDisconnect
  <2>2. ui' \in UiRecord /\ ui'.pc = "close"
    BY <1>0, <2>1 DEF UiRecord, UiPlace, TypeOK
  <2>3. TypeOK'
    BY <2>1, <2>2 DEF TypeOK, UiRecord, registryVars
  <2> QED
    BY <2>1, <2>2, <2>3
    DEF Inv, CopiesInv, UiInv, WorkerInv, RegistryInSync, ActorHasSnapshot,
        BusyActorHasWorker, Exists, Coherent, registryVars, UiWritePlace
<1>8. CASE UiClose
  <2>1. /\ ui' = [ui EXCEPT !.pc = "disconnect_read"] /\ ui.pc = "close"
        /\ session' = session \ {ui.actor}
        /\ UNCHANGED <<registryVars, hold, busy, w>>
    BY <1>8 DEF UiClose, UiGoes
  <2>2. ui' \in UiRecord /\ ui'.pc = "disconnect_read"
    BY <1>0, <2>1 DEF UiRecord, UiPlace
  <2>3. TypeOK'
    BY <2>1, <2>2 DEF TypeOK, UiRecord, registryVars
  <2> QED
    BY <2>1, <2>2, <2>3
    DEF Inv, CopiesInv, UiInv, WorkerInv, RegistryInSync, ActorHasSnapshot,
        BusyActorHasWorker, Exists, Coherent, registryVars, UiWritePlace,
        DisconnectPlace
<1>9. CASE UiDisconnectRead
  <2> DEFINE s == [snap EXCEPT !.connected = FALSE, !.state = "disconnected"]
  <2>1. attached # NoActor
    BY <1>9 DEF UiDisconnectRead, Inv, UiInv, DisconnectPlace
  <2>2. s \in Snapshot /\ Coherent(s)
    BY <1>0, <2>1 DEF Snapshot, DeviceState, Coherent
  <2>3. ui' = [ui EXCEPT !.pc = "disconnect_busy", !.copy = s]
    BY <1>9 DEF UiDisconnectRead
  <2> HIDE DEF s
  <2>4. ui' \in UiRecord /\ ui'.pc = "disconnect_busy" /\ ui'.copy = s
    BY <1>0, <2>2, <2>3 DEF UiRecord, UiPlace
  <2> QED
    BY <1>9, <2>1, <2>2, <2>4, UiMoves DEF UiDisconnectRead
<1>10. CASE UiDisconnectBusy
  <2>1. attached # NoActor /\ ui.copy \in Snapshot /\ Coherent(ui.copy)
    BY <1>10 DEF UiDisconnectBusy, Inv, UiInv, CopiesInv, DisconnectPlace, UiWritePlace
  <2> DEFINE s == [ui.copy EXCEPT !.inflight = @ /\ ui.actor \in busy]
  <2>2. s \in Snapshot /\ Coherent(s)
    BY <2>1 DEF Snapshot, Coherent
  <2>3. ui' = [ui EXCEPT !.pc = "disconnect_write", !.copy = s]
    BY <1>0, <1>10 DEF UiDisconnectBusy, UiRecord
  <2> HIDE DEF s
  <2>4. ui' \in UiRecord /\ ui'.pc = "disconnect_write" /\ ui'.copy = s
    BY <1>0, <2>2, <2>3 DEF UiRecord, UiPlace
  <2> QED
    BY <1>10, <2>1, <2>2, <2>4, UiMoves DEF UiDisconnectBusy
<1>11. CASE UiDisconnectWrite
  <2>1. ui.copy \in Snapshot /\ Coherent(ui.copy)
    BY <1>11 DEF UiDisconnectWrite, Inv, CopiesInv, UiWritePlace
  <2>2. ui' \in UiRecord /\ ui'.pc \in {"idle", "remove"}
    BY <1>11, IdleUiType DEF UiDisconnectWrite, IdleUi, UiRecord, UiPlace
  <2> QED
    BY <1>11, <2>1, <2>2, UiWrites DEF UiDisconnectWrite
<1>12. CASE UiDisconnectBare
  <2> DEFINE s == [snap EXCEPT !.connected = FALSE, !.state = "disconnected"]
  <2>1. s \in Snapshot /\ Coherent(s)
    BY <1>0, <1>12 DEF UiDisconnectBare, Snapshot, DeviceState, Coherent
  <2> QED
    BY <1>0, <1>12, <2>1, UiWrites DEF UiDisconnectBare
<1>13. CASE UiRemove
  <2>1. /\ snap' = NoSnapshot /\ ordered' = 0 /\ selected' = FALSE
        /\ attached' = NoActor /\ ui' = IdleUi /\ UNCHANGED <<actorVars, w>>
    BY <1>13 DEF UiRemove
  <2>2. TypeOK'
    BY <2>1, IdleUiType DEF TypeOK, UiRecord, actorVars
  <2>3. BusyActorHasWorker'
    BY <2>1, ActorAssumption DEF BusyActorHasWorker, TypeOK, actorVars
  <2> QED
    BY <2>1, <2>2, <2>3
    DEF Inv, CopiesInv, UiInv, WorkerInv, RegistryInSync, ActorHasSnapshot, Exists, IdleUi,
        UiWritePlace, DisconnectPlace
<1> QED
  BY <1>1, <1>2, <1>3, <1>4, <1>5, <1>6, <1>7, <1>8, <1>9, <1>10, <1>11, <1>12,
     <1>13 DEF Ui

----------------------------------------------------------------------------
(* Steps of the worker.                                                    *)

WorkerRecord == [pc : WorkerPlace, actor : Actor \cup {NoActor}, kind : Kind,
                 copy : Snapshot \cup {NoSnapshot}, error : ErrorKind]

BeforeBegin == {"idle", "hold", "begin"}

LEMMA IdleWorkerType == IdleWorker \in WorkerRecord /\ IdleWorker.pc = "idle"
BY DEF IdleWorker, WorkerRecord, WorkerPlace, Kind, ErrorKind

LEMMA FailsType ==
  ASSUME TypeOK, NEW error \in ErrorKind
  PROVE  /\ Fails(error) \in WorkerRecord
         /\ Fails(error).pc = "error_read" /\ Fails(error).actor = w.actor
BY DEF TypeOK, Fails, WorkerRecord, WorkerPlace

\* A step of the worker that leaves the registry alone.
LEMMA WorkerMoves ==
  ASSUME TypeOK, Inv, UNCHANGED <<registryVars, ui>>,
         hold' \in SUBSET Actor, session' \in SUBSET Actor, busy' \in SUBSET Actor,
         w' \in WorkerRecord, WorkerInv', BusyActorHasWorker',
         w'.pc \in WritePlace => w'.copy \in Snapshot /\ Coherent(w'.copy)
  PROVE  TypeOK' /\ Inv'
<1>1. TypeOK'
  BY DEF TypeOK, WorkerRecord, registryVars
<1>2. CopiesInv' /\ UiInv' /\ RegistryInSync' /\ ActorHasSnapshot'
  BY DEF Inv, CopiesInv, UiInv, RegistryInSync, ActorHasSnapshot, Exists,
     Coherent, registryVars
<1> QED
  BY <1>1, <1>2 DEF Inv

\* It also leaves the actors alone and stays at work on the same one.
LEMMA WorkerProceeds ==
  ASSUME TypeOK, Inv, UNCHANGED <<registryVars, ui, busy>>,
         hold' \in SUBSET Actor, session' \in SUBSET Actor,
         w' \in WorkerRecord, w'.actor = w.actor, w.pc # "idle",
         w'.pc \notin BeforeBegin \cup WritePlace
  PROVE  TypeOK' /\ Inv'
<1>1. WorkerInv' /\ BusyActorHasWorker'
  BY DEF Inv, WorkerInv, BusyActorHasWorker, registryVars, BeforeBegin
<1>2. busy' \in SUBSET Actor
  BY DEF TypeOK
<1> QED
  BY <1>1, <1>2, WorkerMoves

\* A read of the snapshot; a worker that finds none may leave its actor busy,
\* for that actor is not the registered one.
LEMMA WorkerReads ==
  ASSUME TypeOK, Inv, NEW from, NEW to, NEW changed, NEW Otherwise,
         Reads(from, to, changed, Otherwise),
         from \notin BeforeBegin, to \in WritePlace,
         Exists => changed \in Snapshot /\ Coherent(changed),
         Otherwise = IdleWorker \/ \E error \in ErrorKind : Otherwise = Fails(error)
  PROVE  TypeOK' /\ Inv'
<1>1. /\ w.pc = from /\ w \in WorkerRecord
      /\ w' = IF Exists THEN [w EXCEPT !.pc = to, !.copy = changed] ELSE Otherwise
      /\ UNCHANGED <<registryVars, actorVars, ui>>
  BY DEF Reads, TypeOK, WorkerRecord
<1>2. /\ hold' \in SUBSET Actor /\ session' \in SUBSET Actor
      /\ busy' = busy /\ busy \in SUBSET Actor /\ attached' = attached
  BY <1>1 DEF TypeOK, actorVars, registryVars
<1>3. w.actor # NoActor
  BY <1>1 DEF Inv, WorkerInv, BeforeBegin
<1>4. CASE Exists
  <2>1. /\ w' \in WorkerRecord /\ w'.pc = to /\ w'.actor = w.actor
        /\ w'.copy = changed
    BY <1>1, <1>4 DEF WorkerRecord, WritePlace, WorkerPlace
  <2>2. WorkerInv' /\ BusyActorHasWorker'
    BY <1>2, <1>3, <2>1, <1>1
    DEF Inv, WorkerInv, BusyActorHasWorker, WritePlace, BeforeBegin
  <2> QED
    BY <1>1, <1>2, <1>4, <2>1, <2>2, WorkerMoves
<1>5. CASE ~Exists
  <2>1. w' = Otherwise /\ attached \notin busy
    BY <1>1, <1>2, <1>5, ActorAssumption DEF Inv, ActorHasSnapshot
  <2>2. /\ w' \in WorkerRecord /\ w'.pc \notin WritePlace
        /\ w'.pc # "idle" => w'.actor = w.actor
    BY <2>1, IdleWorkerType, FailsType DEF WritePlace
  <2>3. WorkerInv' /\ BusyActorHasWorker'
    BY <1>2, <1>3, <2>1, <2>2 DEF WorkerInv, BusyActorHasWorker
  <2> QED
    BY <1>1, <1>2, <2>2, <2>3, WorkerMoves
<1> QED
  BY <1>4, <1>5

\* A write of the worker's copy.
LEMMA WorkerWrites ==
  ASSUME TypeOK, Inv, NEW from, NEW to, Writes(from, to), from \in WritePlace,
         to \in WorkerPlace, to \notin BeforeBegin \cup WritePlace
  PROVE  TypeOK' /\ Inv'
<1>1. /\ w.pc = from /\ w \in WorkerRecord /\ Upsert(w.copy)
      /\ w' = [w EXCEPT !.pc = to, !.copy = NoSnapshot]
      /\ UNCHANGED <<actorVars, ui>>
  BY DEF Writes, TypeOK, WorkerRecord
<1>2. w.copy \in Snapshot /\ Coherent(w.copy)
  BY <1>1 DEF Inv, CopiesInv
<1>3. /\ snap' = w.copy /\ snap' \in Snapshot /\ Exists' /\ Coherent(snap)'
      /\ ordered' \in Nat /\ selected' \in BOOLEAN /\ attached' = attached
      /\ RegistryInSync' /\ ActorHasSnapshot'
  BY <1>1, <1>2, UpsertKeeps DEF Inv
<1>4. w' \in WorkerRecord /\ w'.pc = to /\ w'.actor = w.actor
  BY <1>1 DEF WorkerRecord
<1>5. TypeOK'
  BY <1>1, <1>3, <1>4 DEF TypeOK, WorkerRecord, actorVars
<1>6. CopiesInv' /\ UiInv'
  BY <1>1, <1>3, <1>4 DEF Inv, CopiesInv, UiInv, Coherent
<1>7. WorkerInv' /\ BusyActorHasWorker'
  BY <1>1, <1>3, <1>4
  DEF Inv, WorkerInv, BusyActorHasWorker, actorVars, BeforeBegin, WritePlace
<1> QED
  BY <1>3, <1>5, <1>6, <1>7 DEF Inv

LEMMA WorkerKeepsInv == TypeOK /\ Inv /\ Worker => TypeOK' /\ Inv'
<1> SUFFICES ASSUME TypeOK, Inv, Worker PROVE TypeOK' /\ Inv'
  OBVIOUS
<1>0. /\ w \in WorkerRecord
      /\ hold \in SUBSET Actor /\ session \in SUBSET Actor /\ busy \in SUBSET Actor
      /\ w.pc # "idle" => w.actor \in Actor
      /\ Exists => snap \in Snapshot /\ Coherent(snap)
      /\ attached \in Actor \cup {NoActor}
  BY SnapshotWhenExists DEF TypeOK, WorkerRecord, Inv, CopiesInv, WorkerInv
<1>1. ASSUME NEW kind \in Kind, WorkerTake(kind) PROVE TypeOK' /\ Inv'
  <2>1. /\ w' = [w EXCEPT !.pc = "hold", !.actor = attached, !.kind = kind]
        /\ attached # NoActor /\ attached \notin busy
        /\ UNCHANGED <<registryVars, actorVars, ui>>
    BY <1>1 DEF WorkerTake
  <2>2. w' \in WorkerRecord /\ w'.pc = "hold" /\ w'.actor = attached
    BY <1>0, <2>1 DEF WorkerRecord, WorkerPlace
  <2>3. /\ hold' \in SUBSET Actor /\ session' \in SUBSET Actor /\ busy' = busy
        /\ attached' = attached
    BY <1>0, <2>1 DEF actorVars, registryVars
  <2>4. WorkerInv' /\ BusyActorHasWorker'
    BY <2>1, <2>2, <2>3 DEF WorkerInv, BusyActorHasWorker
  <2> QED
    BY <1>0, <2>1, <2>2, <2>3, <2>4, WorkerMoves DEF WritePlace
<1>2. CASE WorkerHold
  <2>1. /\ w.pc = "hold" /\ UNCHANGED <<registryVars, actorVars, ui>>
        /\ w' = IdleWorker \/ w' = [w EXCEPT !.pc = "begin"]
    BY <1>2 DEF WorkerHold
  <2>2. /\ w' \in WorkerRecord /\ w'.pc \in {"idle", "begin"}
        /\ w'.pc # "idle" => w'.actor = w.actor
    BY <1>0, <2>1, IdleWorkerType DEF WorkerRecord, WorkerPlace
  <2>3. /\ hold' \in SUBSET Actor /\ session' \in SUBSET Actor /\ busy' = busy
        /\ attached' = attached
    BY <1>0, <2>1 DEF actorVars, registryVars
  <2>4. WorkerInv' /\ BusyActorHasWorker'
    BY <2>1, <2>2, <2>3 DEF Inv, WorkerInv, BusyActorHasWorker
  <2> QED
    BY <1>0, <2>1, <2>2, <2>3, <2>4, WorkerMoves DEF WritePlace
<1>3. CASE WorkerBegin
  <2>1. /\ w.pc = "begin" /\ w' = [w EXCEPT !.pc = "begin_read"]
        /\ busy' = busy \cup {w.actor}
        /\ UNCHANGED <<registryVars, hold, session, ui>>
    BY <1>3 DEF WorkerBegin, WorkerGoes
  <2>2. w' \in WorkerRecord /\ w'.pc = "begin_read" /\ w'.actor = w.actor
    BY <1>0, <2>1 DEF WorkerRecord, WorkerPlace
  <2>3. /\ hold' \in SUBSET Actor /\ session' \in SUBSET Actor
        /\ busy' \in SUBSET Actor /\ attached' = attached
    BY <1>0, <2>1 DEF registryVars
  <2>4. WorkerInv' /\ BusyActorHasWorker'
    BY <2>1, <2>2, <2>3 DEF Inv, WorkerInv, BusyActorHasWorker
  <2> QED
    BY <2>1, <2>2, <2>3, <2>4, WorkerMoves DEF WritePlace
<1>4. CASE WorkerBeginRead
  <2>1. Exists => /\ [snap EXCEPT !.inflight = TRUE] \in Snapshot
                  /\ Coherent([snap EXCEPT !.inflight = TRUE])
    BY <1>0 DEF Snapshot, Coherent
  <2> QED
    BY <1>4, <2>1, WorkerReads DEF WorkerBeginRead, BeforeBegin, WritePlace
<1>5. CASE WorkerBeginWrite
  BY <1>5, WorkerWrites
  DEF WorkerBeginWrite, BeforeBegin, WritePlace, WorkerPlace
<1>6. CASE WorkerRequire
  <2>1. /\ w.pc = "require" /\ UNCHANGED <<registryVars, ui, hold, busy>>
        /\ session' \in SUBSET Actor
        /\ \/ w' = [w EXCEPT !.pc = "request"]
           \/ \E error \in ErrorKind : w' = Fails(error)
    BY <1>0, <1>6 DEF WorkerRequire, ErrorKind
  <2>2. /\ w' \in WorkerRecord /\ w'.pc \in {"request", "error_read"}
        /\ w'.actor = w.actor
    BY <1>0, <2>1, FailsType DEF WorkerRecord, WorkerPlace
  <2> QED
    BY <1>0, <2>1, <2>2, WorkerProceeds DEF BeforeBegin, WritePlace
<1>7. CASE RequestFails
  <2>1. /\ w.pc = "request" /\ UNCHANGED <<registryVars, actorVars, ui>>
        /\ \E error \in ErrorKind : w' = Fails(error)
    BY <1>7 DEF RequestFails, ErrorKind
  <2>2. w' \in WorkerRecord /\ w'.pc = "error_read" /\ w'.actor = w.actor
    BY <2>1, FailsType
  <2> QED
    BY <1>0, <2>1, <2>2, WorkerProceeds DEF BeforeBegin, WritePlace, actorVars
<1>8. CASE RequestSucceeds
  <2>1. /\ w.pc = "request" /\ UNCHANGED <<registryVars, ui, session, busy>>
        /\ hold' \in SUBSET Actor
        /\ \E place \in {"open", "finish_read", "result_read"} :
              w' = [w EXCEPT !.pc = place]
    BY <1>0, <1>8 DEF RequestSucceeds
  <2>2. /\ w' \in WorkerRecord /\ w'.pc \in {"open", "finish_read", "result_read"}
        /\ w'.actor = w.actor
    BY <1>0, <2>1 DEF WorkerRecord, WorkerPlace
  <2> QED
    BY <1>0, <2>1, <2>2, WorkerProceeds DEF BeforeBegin, WritePlace
<1>9. CASE WorkerOpen
  <2>1. /\ w.pc = "open" /\ w' = [w EXCEPT !.pc = "result_read"]
        /\ session' = session \cup {w.actor}
        /\ UNCHANGED <<registryVars, ui, hold, busy>>
    BY <1>9 DEF WorkerOpen, WorkerGoes
  <2>2. w' \in WorkerRecord /\ w'.pc = "result_read" /\ w'.actor = w.actor
    BY <1>0, <2>1 DEF WorkerRecord, WorkerPlace
  <2> QED
    BY <1>0, <2>1, <2>2, WorkerProceeds DEF BeforeBegin, WritePlace
<1>10. CASE WorkerResultRead
  <2>1. Exists => Result \in Snapshot /\ Coherent(Result)
    <3> DEFINE connected == [snap EXCEPT !.state = "ready", !.connected = TRUE,
                                         !.creds = TRUE]
               read == [snap EXCEPT !.state = "ready", !.connected = TRUE]
    <3>1. Exists => connected \in Snapshot /\ Coherent(connected)
      BY <1>0 DEF Snapshot, DeviceState, Coherent
    <3>2. Exists => read \in Snapshot /\ Coherent(read)
      BY <1>0 DEF Snapshot, DeviceState, Coherent
    <3>3. Result = connected \/ Result = read \/ Result = snap
      BY <1>0 DEF Result, WorkerRecord, Kind
    <3> QED
      BY <1>0, <3>1, <3>2, <3>3
  <2>2. \E error \in ErrorKind : Fails("runtime") = Fails(error)
    BY DEF ErrorKind
  <2> QED
    BY <1>10, <2>1, <2>2, WorkerReads DEF WorkerResultRead, BeforeBegin, WritePlace
<1>11. CASE WorkerResultWrite
  BY <1>11, WorkerWrites
  DEF WorkerResultWrite, BeforeBegin, WritePlace, WorkerPlace
<1>12. CASE WorkerErrorRead
  <2> DEFINE s == [snap EXCEPT !.state = ErrorState,
                               !.connected = (ErrorState = "ready")]
  <2>1. Exists => s \in Snapshot /\ Coherent(s)
    <3>1. Exists => ErrorState \in DeviceState
      BY <1>0 DEF ErrorState, Snapshot, DeviceState
    <3> QED
      BY <1>0, <3>1 DEF Snapshot, Coherent
  <2> QED
    BY <1>12, <2>1, WorkerReads DEF WorkerErrorRead, BeforeBegin, WritePlace
<1>13. CASE WorkerErrorWrite
  BY <1>13, WorkerWrites
  DEF WorkerErrorWrite, BeforeBegin, WritePlace, WorkerPlace
<1>14. CASE WorkerFinishRead
  <2> DEFINE otherwise == IF w.error = "none" THEN Fails("runtime") ELSE IdleWorker
  <2>1. Exists => /\ [snap EXCEPT !.inflight = FALSE] \in Snapshot
                  /\ Coherent([snap EXCEPT !.inflight = FALSE])
    BY <1>0 DEF Snapshot, Coherent
  <2>2. \/ otherwise = IdleWorker
        \/ \E error \in ErrorKind : otherwise = Fails(error)
    BY DEF ErrorKind
  <2>3. Reads("finish_read", "finish_write", [snap EXCEPT !.inflight = FALSE],
              otherwise)
    BY <1>14 DEF WorkerFinishRead
  <2> HIDE DEF otherwise
  <2> QED
    BY <2>1, <2>2, <2>3, WorkerReads DEF BeforeBegin, WritePlace
<1>15. CASE WorkerFinishWrite
  BY <1>15, WorkerWrites
  DEF WorkerFinishWrite, BeforeBegin, WritePlace, WorkerPlace
<1>16. CASE WorkerRelease
  <2>1. /\ w.pc = "release" /\ w' = IdleWorker /\ busy' = busy \ {w.actor}
        /\ UNCHANGED <<registryVars, hold, session, ui>>
    BY <1>16 DEF WorkerRelease
  <2>2. /\ hold' \in SUBSET Actor /\ session' \in SUBSET Actor
        /\ busy' \in SUBSET Actor /\ attached' = attached
    BY <1>0, <2>1 DEF registryVars
  <2>3. WorkerInv' /\ BusyActorHasWorker'
    BY <2>1, <2>2, IdleWorkerType DEF Inv, WorkerInv, BusyActorHasWorker
  <2> QED
    BY <2>1, <2>2, <2>3, IdleWorkerType, WorkerMoves DEF WritePlace
<1> QED
  BY <1>1, <1>2, <1>3, <1>4, <1>5, <1>6, <1>7, <1>8, <1>9, <1>10, <1>11, <1>12,
     <1>13, <1>14, <1>15, <1>16 DEF Worker

----------------------------------------------------------------------------
(* The theorems.                                                           *)

LEMMA StutterKeepsInv == TypeOK /\ Inv /\ UNCHANGED vars => TypeOK' /\ Inv'
<1> SUFFICES ASSUME TypeOK, Inv, UNCHANGED vars PROVE TypeOK' /\ Inv'
  OBVIOUS
<1>1. TypeOK'
  BY DEF TypeOK, vars, registryVars, actorVars
<1>2. Inv'
  BY DEF Inv, CopiesInv, UiInv, WorkerInv, RegistryInSync, ActorHasSnapshot,
     BusyActorHasWorker, Exists, Coherent, vars, registryVars, actorVars
<1> QED
  BY <1>1, <1>2

LEMMA InvAlways == Spec => [](TypeOK /\ Inv)
<1>1. TypeOK /\ Inv /\ [Next]_vars => TypeOK' /\ Inv'
  BY UiKeepsInv, WorkerKeepsInv, StutterKeepsInv DEF Next
<1> QED
  BY <1>1, InitInv, PTL DEF Spec

\* Type correctness, for any number of actors.
THEOREM TypeCorrect == Spec => []TypeOK
BY InvAlways, PTL

\* ordered_ips and selected_ips never drift from snapshots_by_ip, although
\* snapshots are read, modified and written back in separate lock sections.
THEOREM RegistryStaysInSync == Spec => []RegistryInSync
BY InvAlways, PTL DEF Inv

\* get_actor(ip) of a registered actor always comes with a snapshot.
THEOREM ActorHasItsSnapshot == Spec => []ActorHasSnapshot
BY InvAlways, PTL DEF Inv

\* No deletion, at whatever point of a task, leaves the registered actor busy
\* without a worker.
THEOREM NoStuckActor == Spec => []BusyActorHasWorker
BY InvAlways, PTL DEF Inv

\* Whichever stale copies are written back, connected means ready.
THEOREM ConnectedExactlyWhenReady == Spec => []ConnectedIsReady
<1>1. Inv => ConnectedIsReady
  BY DEF Inv, CopiesInv, Coherent, ConnectedIsReady
<1> QED
  BY <1>1, InvAlways, PTL

=============================================================================
