------------------------------- MODULE Video -------------------------------
(* The video window: which devices it plans to show, its pages, its tiles  *)
(* with their libVLC players, and the two timers that watch each player.   *)
(*                                                                         *)
(* Everything here runs in the Qt thread except the players.  What the     *)
(* device registry and the table hold (connected devices, ticked rows,     *)
(* selected rows, the current row) changes freely between two operations   *)
(* of the operator, so that each plan starts from any combination of them. *)
EXTENDS Naturals, FiniteSets

CONSTANTS
  Devices,        \* number of devices; a device is its place in the registry
  MultiChannel,   \* the devices of a multi-channel TCS model
  Tiles,          \* VideoCoordinator.page_size and the number of tiles
  MaxClicks,      \* bound: operations of the operator
  MaxFaults       \* bound: players that break or do not start

ASSUME VideoAssumption ==
  /\ Devices \in Nat
  /\ MultiChannel \subseteq 1..Devices
  /\ Tiles \in Nat \ {0}
  /\ MaxClicks \in Nat
  /\ MaxFaults \in Nat

Device == 1..Devices
NoDevice == 0       \* no current row
Tile == 1..Tiles
NoTile == 0

Mode == {"checked", "current"}
Profile == {"primary", "secondary1", "ch1_primary", "ch1_secondary1"}
NoItem == [device |-> NoDevice, profile |-> "primary"]
Item == [device : Device, profile : Profile] \cup {NoItem}

VARIABLES
  \* window
  shown,        \* isVisible()
  header,       \* what update_header wrote last
  fullscreen,   \* _fullscreen_tile
  tiles,        \* _tiles
  \* controller
  plan,         \* _current_plan
  page,         \* _current_page
  \* bounds
  clicks, faults

vars == <<shown, header, fullscreen, tiles, plan, page, clicks, faults>>

Status == {"stopped", "starting", "playing", "reconnecting", "error"}
Player == {"none", "opening", "playing", "ended", "failed"}
TileState ==
  [item : Item, wanted : BOOLEAN, status : Status, player : Player,
   health : BOOLEAN,       \* _health_timer is active
   reconnect : BOOLEAN]    \* _reconnect_timer is active
NoPlan == [count |-> 0, page |-> 0, pages |-> 0, items |-> [t \in Tile |-> NoItem]]
Plan ==
  [count : Nat, page : Nat, pages : Nat \ {0}, items : [Tile -> Item]] \cup {NoPlan}
Header == [count : Nat, page : Nat, pages : Nat]

IdleTile ==
  [item |-> NoItem, wanted |-> FALSE, status |-> "stopped", player |-> "none",
   health |-> FALSE, reconnect |-> FALSE]

Init ==
  /\ shown = FALSE
  /\ header = [count |-> 0, page |-> 0, pages |-> 1]
  /\ fullscreen = NoTile
  /\ tiles = [t \in Tile |-> IdleTile]
  /\ plan = NoPlan
  /\ page = 0
  /\ clicks = 0 /\ faults = 0

----------------------------------------------------------------------------
(* VideoCoordinator: who is shown, and on which page.                      *)

\* Ticked devices first, then the first selected one, then the current row;
\* only those that are connected with credentials are shown.
ResolveTargets(ready, checked, selected, focused) ==
  IF checked \cap ready # {}
  THEN {[mode |-> "checked", devices |-> checked \cap ready]}
  ELSE IF selected \cap ready # {}
  THEN {[mode |-> "current", devices |-> {d}] : d \in selected \cap ready}
  ELSE {[mode |-> "current", devices |-> {focused} \cap ready]}

Resolvable ==
  UNION {ResolveTargets(ready, checked, selected, focused) :
           ready \in SUBSET Device, checked \in SUBSET Device,
           selected \in SUBSET Device, focused \in Device \cup {NoDevice}}

BuildProfiles(d) ==
  IF d \in MultiChannel THEN {"ch1_primary", "ch1_secondary1"}
                        ELSE {"primary", "secondary1"}

DefaultProfile(d) == IF d \in MultiChannel THEN "ch1_primary" ELSE "primary"

SelectDefaultProfile(d, mode) ==
  IF mode = "checked"
  THEN IF d \in MultiChannel THEN "ch1_secondary1" ELSE "secondary1"
  ELSE DefaultProfile(d)

StreamItem(d, mode) ==
  [device |-> d,
   profile |-> IF SelectDefaultProfile(d, mode) \in BuildProfiles(d)
               THEN SelectDefaultProfile(d, mode) ELSE DefaultProfile(d)]

\* The targets keep the registry's order; the nth of them, if there is one.
Nth(ds, n) == {d \in ds : Cardinality({e \in ds : e < d}) = n - 1}

ItemAt(target, n) ==
  IF Nth(target.devices, n) = {} THEN NoItem
  ELSE StreamItem(CHOOSE d \in Nth(target.devices, n) : TRUE, target.mode)

PageItems(target, index) == [t \in Tile |-> ItemAt(target, index * Tiles + t)]

\* Mutant: the last page counts only when it is full.
PageCount_Full(n) == n \div Tiles

PageCount(n) == IF n = 0 THEN 1 ELSE (n + Tiles - 1) \div Tiles

\* Mutant: the page is not brought back into the plan.
BuildPlan_NoClamp(target, index) ==
  LET n == Cardinality(target.devices)
  IN [count |-> n, page |-> index, pages |-> PageCount(n),
      items |-> PageItems(target, index)]

\* The devices may be fewer than when the page was last counted.
BuildPlan(target, index) ==
  LET n == Cardinality(target.devices)
      last == PageCount(n) - 1
      current == IF last < 0 THEN 0 ELSE IF index > last THEN last ELSE index
  IN [count |-> n, page |-> current, pages |-> PageCount(n),
      items |-> PageItems(target, current)]

----------------------------------------------------------------------------
(* VideoTileWidget and VlcVideoHost: operations on one tile.  opens says   *)
(* whether VlcVideoHost.start succeeds.                                    *)

\* Mutant: a start that fails is not tried again.
Start_NoRetry(x, opens) ==
  IF x.item = NoItem THEN x
  ELSE IF x.item.profile \notin BuildProfiles(x.item.device)
  THEN [x EXCEPT !.wanted = TRUE, !.status = "error"]
  ELSE IF ~opens
  THEN [x EXCEPT !.wanted = TRUE, !.status = "error", !.player = "none"]
  ELSE [x EXCEPT !.wanted = TRUE, !.status = "starting", !.player = "opening",
                 !.health = TRUE]

\* A profile without URL is not tried again; a start that fails is.
Start(x, opens) ==
  IF x.item = NoItem THEN x
  ELSE IF x.item.profile \notin BuildProfiles(x.item.device)
  THEN [x EXCEPT !.wanted = TRUE, !.status = "error"]
  ELSE IF ~opens
  THEN [x EXCEPT !.wanted = TRUE, !.status = "error", !.player = "none",
                 !.reconnect = TRUE]
  ELSE [x EXCEPT !.wanted = TRUE, !.status = "starting", !.player = "opening",
                 !.health = TRUE]

StopStream(x) ==
  [x EXCEPT !.wanted = FALSE, !.health = FALSE, !.reconnect = FALSE,
            !.player = "none", !.status = "stopped"]

SetStreamItem(x, item, opens) == Start([StopStream(x) EXCEPT !.item = item], opens)

\* Mutant: a stream that ended is not started again.
Tick_EndedStays(x) ==
  IF ~x.wanted THEN [x EXCEPT !.status = "stopped"]
  ELSE IF x.player = "playing" THEN [x EXCEPT !.status = "playing"]
  ELSE IF x.player = "opening" THEN [x EXCEPT !.status = "starting"]
  ELSE IF x.player = "failed" THEN [x EXCEPT !.status = "error", !.reconnect = TRUE]
  ELSE [x EXCEPT !.status = "reconnecting"]

\* The reconnect timer keeps running when it is armed already.
Tick(x) ==
  IF ~x.wanted THEN [x EXCEPT !.status = "stopped"]
  ELSE IF x.player = "playing" THEN [x EXCEPT !.status = "playing"]
  ELSE IF x.player = "opening" THEN [x EXCEPT !.status = "starting"]
  ELSE IF x.player = "failed" THEN [x EXCEPT !.status = "error", !.reconnect = TRUE]
  ELSE [x EXCEPT !.status = "reconnecting", !.reconnect = TRUE]

\* The single-shot timer is off when its slot runs.
Restart(x, opens) ==
  LET fired == [x EXCEPT !.reconnect = FALSE]
  IN IF ~x.wanted \/ x.item = NoItem THEN fired
     ELSE Start([fired EXCEPT !.status = "reconnecting", !.player = "none"], opens)

----------------------------------------------------------------------------
(* VideoWindow and VideoWindowController.                                  *)

Click == clicks < MaxClicks /\ clicks' = clicks + 1

NoStart(lost) == faults' = faults + Cardinality(lost) /\ faults' <= MaxFaults

SetTiles(items) ==
  \E lost \in SUBSET {t \in Tile : items[t] # NoItem} :
    /\ NoStart(lost)
    /\ tiles' = [t \in Tile |-> SetStreamItem(tiles[t], items[t], t \notin lost)]
    /\ fullscreen' = NoTile

ApplyPlan(p) ==
  /\ plan' = p
  /\ page' = p.page
  /\ header' = [count |-> p.count, page |-> p.page, pages |-> p.pages]
  /\ SetTiles(p.items)

\* Without a device to show, a message is the answer; a window that is
\* already open goes on with its page while the controller counts from 0.
OpenWindow ==
  /\ Click
  /\ \E target \in Resolvable :
       IF target.devices = {}
       THEN page' = 0 /\ UNCHANGED <<shown, header, fullscreen, tiles, plan, faults>>
       ELSE ApplyPlan(BuildPlan(target, 0)) /\ shown' = TRUE

\* The header decides which of the two buttons is enabled.
PrevPage ==
  /\ Click
  /\ shown /\ header.page > 0
  /\ plan # NoPlan /\ page > 0
  /\ \E target \in Resolvable : ApplyPlan(BuildPlan(target, page - 1))
  /\ UNCHANGED shown

NextPage ==
  /\ Click
  /\ shown /\ header.page + 1 < header.pages
  /\ plan # NoPlan /\ page + 1 < plan.pages
  /\ \E target \in Resolvable : ApplyPlan(BuildPlan(target, page + 1))
  /\ UNCHANGED shown

StopAllTiles == tiles' = [t \in Tile |-> StopStream(tiles[t])]

Refresh ==
  /\ Click
  /\ shown
  /\ \E target \in Resolvable :
       IF target.devices = {}
       THEN /\ StopAllTiles
            /\ header' = [count |-> 0, page |-> 0, pages |-> 1]
            /\ UNCHANGED <<fullscreen, plan, page, faults>>
       ELSE ApplyPlan(BuildPlan(target, page))
  /\ UNCHANGED shown

\* Mutant: the tiles of a closed window play on.
Close_KeepsPlaying ==
  /\ Click
  /\ shown
  /\ shown' = FALSE
  /\ page' = 0 /\ plan' = NoPlan
  /\ UNCHANGED <<header, fullscreen, tiles, faults>>

\* A tile shown full screen stays so until the next plan is applied.
Close ==
  /\ Click
  /\ shown
  /\ StopAllTiles
  /\ shown' = FALSE
  /\ page' = 0 /\ plan' = NoPlan
  /\ UNCHANGED <<header, fullscreen, faults>>

\* Only the tile shown full screen can be clicked while there is one.
DoubleClick(t) ==
  /\ Click
  /\ shown /\ fullscreen \in {NoTile, t}
  /\ fullscreen' = IF fullscreen = t THEN NoTile ELSE t
  /\ UNCHANGED <<shown, header, tiles, plan, page, faults>>

Escape ==
  /\ Click
  /\ shown /\ fullscreen # NoTile
  /\ fullscreen' = NoTile
  /\ UNCHANGED <<shown, header, tiles, plan, page, faults>>

Operator ==
  \/ OpenWindow \/ PrevPage \/ NextPage \/ Refresh \/ Close \/ Escape
  \/ \E t \in Tile : DoubleClick(t)

----------------------------------------------------------------------------
(* Timers and players.                                                     *)

OnlyTiles == UNCHANGED <<shown, header, fullscreen, plan, page, clicks>>

OnHealthTick(t) ==
  /\ tiles[t].health
  /\ tiles' = [tiles EXCEPT ![t] = Tick(@)]
  /\ UNCHANGED faults /\ OnlyTiles

RestartStream(t) ==
  /\ tiles[t].reconnect
  /\ \E lost \in SUBSET {t} :
       /\ NoStart(lost)
       /\ tiles' = [tiles EXCEPT ![t] = Restart(@, t \notin lost)]
  /\ OnlyTiles

PlayerPlays(t) ==
  /\ tiles[t].player = "opening"
  /\ tiles' = [tiles EXCEPT ![t].player = "playing"]
  /\ UNCHANGED faults /\ OnlyTiles

\* The camera is lost, refuses the stream or ends it.
PlayerBreaks(t) ==
  /\ tiles[t].player \in {"opening", "playing"}
  /\ faults < MaxFaults /\ faults' = faults + 1
  /\ \E p \in {"ended", "failed"} : tiles' = [tiles EXCEPT ![t].player = p]
  /\ OnlyTiles

Next ==
  \/ Operator
  \/ \E t \in Tile :
       OnHealthTick(t) \/ RestartStream(t) \/ PlayerPlays(t) \/ PlayerBreaks(t)

Spec == Init /\ [][Next]_vars

\* The event loop delivers the timeouts of active timers, and libVLC ends its
\* attempts to open a stream.
FairSpec ==
  /\ Spec
  /\ \A t \in Tile : /\ WF_vars(OnHealthTick(t))
                     /\ WF_vars(RestartStream(t))
                     /\ WF_vars(PlayerPlays(t))

----------------------------------------------------------------------------
TypeOK ==
  /\ shown \in BOOLEAN
  /\ header \in Header
  /\ fullscreen \in Tile \cup {NoTile}
  /\ tiles \in [Tile -> TileState]
  /\ plan \in Plan
  /\ page \in Nat
  /\ clicks \in 0..MaxClicks
  /\ faults \in 0..MaxFaults

\* A tile that is wanted is never left alone: with a player the health timer
\* looks after it, and without one the reconnect timer is about to start one.
\* That rests on the profile chosen for the device being one of its own.
WantedIsWatched ==
  \A t \in Tile :
    tiles[t].wanted =>
      /\ tiles[t].item # NoItem
      /\ IF tiles[t].player = "none" THEN tiles[t].reconnect ELSE tiles[t].health

Silent(x) ==
  x.status = "stopped" /\ x.player = "none" /\ ~x.health /\ ~x.reconnect

\* A tile that is not wanted has no player and no timer that could bring one
\* back, and a closed window wants nothing: no stream is drawn unseen.
IdleIsSilent ==
  \A t \in Tile :
    /\ ~tiles[t].wanted => Silent(tiles[t])
    /\ ~shown => ~tiles[t].wanted

\* Only the devices of the page the header names are streamed, each in one
\* tile, also when devices left between two pages; a page with targets is
\* never blank.
TilesShowPlan ==
  /\ \A t \in Tile : tiles[t].wanted => tiles[t].item = plan.items[t]
  /\ \A t, u \in Tile :
       tiles[t].wanted /\ tiles[u].wanted /\ t # u
         => tiles[t].item.device # tiles[u].item.device
  /\ shown /\ header.count > 0 =>
       /\ header = [count |-> plan.count, page |-> plan.page, pages |-> plan.pages]
       /\ header.page < header.pages
       /\ tiles[1].wanted

\* When the operator and the cameras come to rest, every wanted tile plays,
\* and says so, for good.
PlaysInTheEnd ==
  <>[](\A t \in Tile :
         tiles[t].wanted => tiles[t].player = "playing" /\ tiles[t].status = "playing")

=============================================================================
