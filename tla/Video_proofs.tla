---------------------------- MODULE Video_proofs ----------------------------
(* Theorems of Video and their proofs, for any number of devices, tiles,   *)
(* operations and broken players.                                          *)
EXTENDS Video, LeastNumber, FiniteSetTheorems, TLAPS

\* What holds between the item of a tile and its player and timers, and the
\* fact it rests on: the profile of an item is one its device has.
Fits(x) == x = NoItem \/ x.profile \in BuildProfiles(x.device)

Sound(x) ==
  /\ x \in TileState
  /\ Fits(x.item)
  /\ x.wanted => /\ x.item # NoItem
                 /\ IF x.player = "none" THEN x.reconnect ELSE x.health
  /\ ~x.wanted => Silent(x)

IInv ==
  /\ TypeOK
  /\ \A t \in Tile : Sound(tiles[t])
  /\ ~shown => \A t \in Tile : ~tiles[t].wanted

-----------------------------------------------------------------------------
\* Plans

\* Rounding up.
LEMMA PageCountPositive ==
  ASSUME NEW n \in Nat PROVE PageCount(n) \in Nat \ {0}
<1> USE VideoAssumption
<1>1. CASE n = 0 BY <1>1 DEF PageCount
<1>2. CASE n # 0
  <2> DEFINE a == n + Tiles - 1
  <2>1. a \in Nat /\ a >= Tiles BY <1>2
  <2>2. a \div Tiles \in Nat \ {0}
    <3> HIDE DEF a
    <3> QED BY <2>1, SMT
  <2> QED BY <1>2, <2>2 DEF PageCount
<1> QED BY <1>1, <1>2

LEMMA ItemFits ==
  ASSUME NEW d \in Device, NEW mode \in Mode
  PROVE  /\ StreamItem(d, mode) \in Item
         /\ Fits(StreamItem(d, mode))
         /\ StreamItem(d, mode) # NoItem
<1> DEFINE x == StreamItem(d, mode)
<1>1. DefaultProfile(d) \in BuildProfiles(d)
  BY DEF DefaultProfile, BuildProfiles
<1>2. x.device = d /\ x.profile \in BuildProfiles(d)
  BY <1>1 DEF StreamItem
<1>3. x.profile \in Profile
  BY <1>2 DEF BuildProfiles, Profile
<1>4. x = [device |-> d, profile |-> x.profile]
  BY DEF StreamItem
<1>5. d # NoDevice
  BY VideoAssumption DEF Device, NoDevice
<1> HIDE DEF x
<1>6. x \in Item /\ x # NoItem
  BY <1>2, <1>3, <1>4, <1>5 DEF Item, NoItem
<1> QED BY <1>2, <1>6 DEF x, Fits

LEMMA TargetsAreDevices ==
  ASSUME NEW target \in Resolvable
  PROVE  target.devices \subseteq Device /\ target.mode \in Mode
<1>1. PICK ready \in SUBSET Device, checked \in SUBSET Device,
           selected \in SUBSET Device, focused \in Device \cup {NoDevice} :
        target \in ResolveTargets(ready, checked, selected, focused)
  BY DEF Resolvable
<1>2. CASE checked \cap ready # {}
  BY <1>1, <1>2 DEF ResolveTargets, Mode
<1>3. CASE checked \cap ready = {} /\ selected \cap ready # {}
  BY <1>1, <1>3 DEF ResolveTargets, Mode
<1>4. CASE checked \cap ready = {} /\ selected \cap ready = {}
  <2>1. target.devices = {focused} \cap ready /\ target.mode = "current"
    BY <1>1, <1>4 DEF ResolveTargets
  <2> QED BY <1>1, <2>1 DEF Mode
<1> QED BY <1>2, <1>3, <1>4

\* Every plan has at least one page, shows one of them, and what it shows fits.
LEMMA PlanFits ==
  ASSUME NEW target \in Resolvable, NEW index \in Nat
  PROVE  /\ BuildPlan(target, index) \in Plan
         /\ BuildPlan(target, index).count \in Nat
         /\ BuildPlan(target, index).page \in Nat
         /\ BuildPlan(target, index).pages \in Nat \ {0}
         /\ BuildPlan(target, index).items \in [Tile -> Item]
         /\ \A t \in Tile : Fits(BuildPlan(target, index).items[t])
<1> DEFINE n == Cardinality(target.devices)
           p == BuildPlan(target, index)
<1>1. target.devices \subseteq Device /\ target.mode \in Mode
  BY TargetsAreDevices
<1>2. n \in Nat
  <2>1. IsFiniteSet(Device)
    BY FS_Interval, VideoAssumption DEF Device
  <2> QED BY <1>1, <2>1, FS_Subset, FS_CardinalityType
<1>3. PageCount(n) \in Nat \ {0}
  BY <1>2, PageCountPositive
<1>4. ASSUME NEW current \in Nat
      PROVE  /\ PageItems(target, current) \in [Tile -> Item]
             /\ \A t \in Tile : Fits(PageItems(target, current)[t])
  <2>1. ASSUME NEW m PROVE ItemAt(target, m) \in Item /\ Fits(ItemAt(target, m))
    <3>1. CASE Nth(target.devices, m) = {}
      BY <3>1 DEF ItemAt, Item, Fits
    <3>2. CASE Nth(target.devices, m) # {}
      <4> DEFINE d == CHOOSE e \in Nth(target.devices, m) : TRUE
      <4>1. d \in Device
        BY <1>1, <3>2 DEF Nth
      <4>2. ItemAt(target, m) = StreamItem(d, target.mode)
        BY <3>2 DEF ItemAt
      <4> QED BY <1>1, <4>1, <4>2, ItemFits
    <3> QED BY <3>1, <3>2
  <2> QED BY <2>1 DEF PageItems
<1>5. p.page \in Nat
  BY <1>3 DEF BuildPlan
<1>6. p = [count |-> n, page |-> p.page, pages |-> PageCount(n),
           items |-> PageItems(target, p.page)]
  BY DEF BuildPlan
<1>7. PageItems(target, p.page) \in [Tile -> Item]
  BY <1>4, <1>5
<1> HIDE DEF p, n
<1>8. p \in Plan
  BY <1>2, <1>3, <1>5, <1>6, <1>7 DEF Plan
<1> QED
  BY <1>2, <1>3, <1>4, <1>5, <1>6, <1>8 DEF p

-----------------------------------------------------------------------------
\* Operations on one tile

LEMMA StopIsSound ==
  ASSUME NEW x, Sound(x)
  PROVE  Sound(StopStream(x)) /\ ~StopStream(x).wanted
         /\ StopStream(x).item = x.item
BY DEF Sound, Silent, StopStream, TileState, Status, Player

\* A start may follow a stop, or a timeout that took the player away.
LEMMA StartIsSound ==
  ASSUME NEW x \in TileState, Fits(x.item), NEW opens \in BOOLEAN,
         x.item = NoItem => ~x.wanted /\ Silent(x)
  PROVE  Sound(Start(x, opens))
<1>1. CASE x.item = NoItem
  BY <1>1 DEF Sound, Start
<1>2. CASE x.item # NoItem
  <2>1. x.item.profile \in BuildProfiles(x.item.device)
    BY <1>2 DEF Fits
  <2> QED BY <1>2, <2>1 DEF Sound, Start, TileState, Status, Player
<1> QED BY <1>1, <1>2

LEMMA SetItemIsSound ==
  ASSUME NEW x, Sound(x), NEW item \in Item, Fits(item), NEW opens \in BOOLEAN
  PROVE  Sound(SetStreamItem(x, item, opens))
<1> DEFINE y == [StopStream(x) EXCEPT !.item = item]
<1>1. y \in TileState /\ y.item = item /\ ~y.wanted /\ Silent(y)
  BY DEF Sound, Silent, StopStream, TileState, Status, Player
<1> HIDE DEF y
<1>2. Sound(Start(y, opens))
  BY <1>1, StartIsSound
<1> QED BY <1>2 DEF SetStreamItem, y

LEMMA TickIsSound ==
  ASSUME NEW x, Sound(x), x.health
  PROVE  Sound(Tick(x)) /\ Tick(x).wanted
<1>1. x.wanted /\ x.item # NoItem
  BY DEF Sound, Silent, TileState
<1> QED BY <1>1 DEF Sound, Tick, TileState, Status, Player

LEMMA RestartIsSound ==
  ASSUME NEW x, Sound(x), x.reconnect, NEW opens \in BOOLEAN
  PROVE  Sound(Restart(x, opens)) /\ x.wanted
<1>1. x.wanted /\ x.item # NoItem
  BY DEF Sound, Silent, TileState
<1> DEFINE y == [x EXCEPT !.reconnect = FALSE, !.status = "reconnecting", !.player = "none"]
<1>2. y \in TileState /\ y.item = x.item
  BY DEF Sound, TileState, Status, Player
<1>3. Restart(x, opens) = Start(y, opens)
  BY <1>1 DEF Restart, Sound, TileState
<1> HIDE DEF y
<1>4. Sound(Start(y, opens))
  BY <1>1, <1>2, StartIsSound DEF Sound
<1> QED BY <1>1, <1>3, <1>4

-----------------------------------------------------------------------------
\* Operations on the window

LEMMA IdleIsSound == Sound(IdleTile)
BY DEF Sound, Silent, IdleTile, TileState, Item, NoItem, NoDevice, Fits, Status, Player, Profile

LEMMA InitIInv == Init => IInv
<1> SUFFICES ASSUME Init PROVE IInv
  OBVIOUS
<1>1. NoPlan \in Plan
  BY DEF Plan
<1>2. [count |-> 0, page |-> 0, pages |-> 1] \in Header
  BY DEF Header
<1>3. \A t \in Tile : tiles[t] = IdleTile
  BY DEF Init
<1>4. IdleTile \in TileState /\ ~IdleTile.wanted
  BY IdleIsSound DEF Sound, IdleTile
<1>5. tiles \in [Tile -> TileState]
  BY <1>4 DEF Init
<1>6. 0 \in 0..MaxClicks /\ 0 \in 0..MaxFaults
  BY VideoAssumption
<1>7. TypeOK
  BY <1>1, <1>2, <1>5, <1>6 DEF Init, TypeOK
<1> QED BY <1>3, <1>4, <1>7, IdleIsSound DEF IInv

\* A new value of the tiles, all of them sound.
LEMMA SoundTiles ==
  ASSUME NEW f, f = [t \in Tile |-> f[t]], \A t \in Tile : Sound(f[t])
  PROVE  f \in [Tile -> TileState]
BY DEF Sound

LEMMA FaultsCounted ==
  ASSUME TypeOK, NEW lost \in SUBSET Tile, NoStart(lost)
  PROVE  faults' \in 0..MaxFaults
<1>1. IsFiniteSet(Tile)
  BY FS_Interval, VideoAssumption DEF Tile
<1>2. Cardinality(lost) \in Nat
  BY <1>1, FS_Subset, FS_CardinalityType
<1> QED BY <1>2, VideoAssumption DEF NoStart, TypeOK

LEMMA ApplyPlanFits ==
  ASSUME IInv, NEW target \in Resolvable, NEW index \in Nat,
         ApplyPlan(BuildPlan(target, index))
  PROVE  /\ header' \in Header /\ fullscreen' \in Tile \cup {NoTile}
         /\ plan' \in Plan /\ page' \in Nat /\ faults' \in 0..MaxFaults
         /\ tiles' \in [Tile -> TileState]
         /\ \A t \in Tile : Sound(tiles'[t])
<1> DEFINE p == BuildPlan(target, index)
<1>1. /\ p \in Plan /\ p.count \in Nat /\ p.page \in Nat /\ p.pages \in Nat \ {0}
      /\ p.items \in [Tile -> Item] /\ \A t \in Tile : Fits(p.items[t])
  BY PlanFits
<1>2. ApplyPlan(p)
  OBVIOUS
<1> HIDE DEF p
<1>3. SetTiles(p.items)
  BY <1>2 DEF ApplyPlan
<1>4. PICK lost \in SUBSET {t \in Tile : p.items[t] # NoItem} :
        /\ NoStart(lost)
        /\ tiles' = [t \in Tile |-> SetStreamItem(tiles[t], p.items[t], t \notin lost)]
        /\ fullscreen' = NoTile
  BY <1>3 DEF SetTiles
<1>5. faults' \in 0..MaxFaults
  BY <1>4, FaultsCounted DEF IInv
<1>6. \A t \in Tile : Sound(tiles'[t])
  <2> SUFFICES ASSUME NEW t \in Tile PROVE Sound(tiles'[t])
    OBVIOUS
  <2>1. Sound(tiles[t]) /\ p.items[t] \in Item /\ Fits(p.items[t])
    BY <1>1 DEF IInv
  <2>2. tiles'[t] = SetStreamItem(tiles[t], p.items[t], t \notin lost)
    BY <1>4
  <2> QED BY <2>1, <2>2, SetItemIsSound
<1>7. tiles' \in [Tile -> TileState]
  BY <1>4, <1>6, SoundTiles
<1>8. header' \in Header
  BY <1>1, <1>2 DEF ApplyPlan, Header
<1> QED BY <1>1, <1>2, <1>4, <1>5, <1>6, <1>7, <1>8 DEF ApplyPlan

LEMMA StopAllFits ==
  ASSUME IInv, StopAllTiles
  PROVE  /\ tiles' \in [Tile -> TileState]
         /\ \A t \in Tile : Sound(tiles'[t]) /\ ~tiles'[t].wanted
<1>1. \A t \in Tile : Sound(StopStream(tiles[t])) /\ ~StopStream(tiles[t]).wanted
  BY StopIsSound DEF IInv
<1>2. tiles' = [t \in Tile |-> StopStream(tiles[t])]
  BY DEF StopAllTiles
<1>3. \A t \in Tile : Sound(tiles'[t]) /\ ~tiles'[t].wanted
  BY <1>1, <1>2
<1> QED BY <1>2, <1>3, SoundTiles

LEMMA ClickCounted ==
  ASSUME TypeOK, Click PROVE clicks' \in 0..MaxClicks
BY VideoAssumption DEF TypeOK, Click

\* One tile changes, and stays as wanted as it was.
LEMMA OneTileFits ==
  ASSUME IInv, NEW t \in Tile, NEW y, Sound(y), y.wanted => tiles[t].wanted,
         tiles' = [tiles EXCEPT ![t] = y], OnlyTiles, faults' \in 0..MaxFaults
  PROVE  IInv'
<1>1. tiles \in [Tile -> TileState]
  BY DEF IInv, TypeOK
<1>2. \A u \in Tile : Sound(tiles'[u])
  BY <1>1 DEF IInv
<1>3. tiles' \in [Tile -> TileState]
  BY <1>1 DEF Sound
<1>4. TypeOK'
  BY <1>3 DEF IInv, TypeOK, OnlyTiles
<1>5. ~shown => \A u \in Tile : ~tiles'[u].wanted
  BY <1>1 DEF IInv
<1> QED BY <1>2, <1>4, <1>5 DEF IInv, OnlyTiles

-----------------------------------------------------------------------------
\* Every step preserves the invariant

LEMMA OperatorPreserves == IInv /\ Operator => IInv'
<1> SUFFICES ASSUME IInv, Operator PROVE IInv'
  OBVIOUS
<1>0. TypeOK
  BY DEF IInv
<1>1. CASE OpenWindow
  <2>1. clicks' \in 0..MaxClicks
    BY <1>0, <1>1, ClickCounted DEF OpenWindow
  <2>2. PICK target \in Resolvable :
          IF target.devices = {}
          THEN page' = 0 /\ UNCHANGED <<shown, header, fullscreen, tiles, plan, faults>>
          ELSE ApplyPlan(BuildPlan(target, 0)) /\ shown' = TRUE
    BY <1>1 DEF OpenWindow
  <2>3. CASE target.devices = {}
    <3>1. TypeOK'
      BY <1>0, <2>1, <2>2, <2>3 DEF TypeOK
    <3> QED BY <3>1, <2>2, <2>3 DEF IInv
  <2>4. CASE target.devices # {}
    <3>1. ApplyPlan(BuildPlan(target, 0)) /\ shown' = TRUE
      BY <2>2, <2>4
    <3>2. TypeOK' /\ \A t \in Tile : Sound(tiles'[t])
      BY <2>1, <3>1, ApplyPlanFits DEF TypeOK
    <3> QED BY <3>1, <3>2 DEF IInv
  <2> QED BY <2>3, <2>4
<1>2. CASE PrevPage \/ NextPage
  <2>1. clicks' \in 0..MaxClicks /\ shown = TRUE /\ shown' = TRUE
    BY <1>0, <1>2, ClickCounted DEF PrevPage, NextPage, TypeOK
  <2>2. PICK target \in Resolvable, index \in Nat : ApplyPlan(BuildPlan(target, index))
    <3>1. CASE PrevPage
      <4>1. page - 1 \in Nat
        BY <1>0, <3>1 DEF PrevPage, TypeOK
      <4> QED BY <3>1, <4>1 DEF PrevPage
    <3>2. CASE NextPage
      <4>1. page + 1 \in Nat
        BY <1>0 DEF TypeOK
      <4> QED BY <3>2, <4>1 DEF NextPage
    <3> QED BY <1>2, <3>1, <3>2
  <2>3. TypeOK' /\ \A t \in Tile : Sound(tiles'[t])
    BY <2>1, <2>2, ApplyPlanFits DEF TypeOK
  <2> QED BY <2>1, <2>3 DEF IInv
<1>3. CASE Refresh
  <2>1. clicks' \in 0..MaxClicks /\ shown = TRUE /\ shown' = TRUE /\ page \in Nat
    BY <1>0, <1>3, ClickCounted DEF Refresh, TypeOK
  <2>2. PICK target \in Resolvable :
          IF target.devices = {}
          THEN /\ StopAllTiles
               /\ header' = [count |-> 0, page |-> 0, pages |-> 1]
               /\ UNCHANGED <<fullscreen, plan, page, faults>>
          ELSE ApplyPlan(BuildPlan(target, page))
    BY <1>3 DEF Refresh
  <2>3. CASE target.devices = {}
    <3>1. /\ StopAllTiles /\ UNCHANGED <<fullscreen, plan, page, faults>>
          /\ header' \in Header
      BY <2>2, <2>3 DEF Header
    <3>2. TypeOK' /\ \A t \in Tile : Sound(tiles'[t])
      BY <1>0, <2>1, <3>1, StopAllFits DEF TypeOK
    <3> QED BY <2>1, <3>2 DEF IInv
  <2>4. CASE target.devices # {}
    <3>1. ApplyPlan(BuildPlan(target, page))
      BY <2>2, <2>4
    <3>2. TypeOK' /\ \A t \in Tile : Sound(tiles'[t])
      BY <2>1, <3>1, ApplyPlanFits DEF TypeOK
    <3> QED BY <2>1, <3>2 DEF IInv
  <2> QED BY <2>3, <2>4
<1>4. CASE Close
  <2>1. clicks' \in 0..MaxClicks /\ shown' = FALSE
    BY <1>0, <1>4, ClickCounted DEF Close
  <2>2. /\ StopAllTiles /\ UNCHANGED <<header, fullscreen, faults>>
        /\ plan' \in Plan /\ page' \in Nat
    BY <1>4 DEF Close, Plan
  <2>3. TypeOK' /\ \A t \in Tile : Sound(tiles'[t]) /\ ~tiles'[t].wanted
    BY <1>0, <2>1, <2>2, StopAllFits DEF TypeOK
  <2> QED BY <2>3 DEF IInv
<1>5. CASE Escape \/ \E t \in Tile : DoubleClick(t)
  <2>1. /\ clicks' \in 0..MaxClicks /\ fullscreen' \in Tile \cup {NoTile}
        /\ UNCHANGED <<shown, header, tiles, plan, page, faults>>
    BY <1>0, <1>5, ClickCounted DEF Escape, DoubleClick
  <2>2. TypeOK'
    BY <1>0, <2>1 DEF TypeOK
  <2> QED BY <2>1, <2>2 DEF IInv
<1> QED BY <1>1, <1>2, <1>3, <1>4, <1>5 DEF Operator

LEMMA TileStepPreserves ==
  ASSUME IInv, NEW t \in Tile,
         OnHealthTick(t) \/ RestartStream(t) \/ PlayerPlays(t) \/ PlayerBreaks(t)
  PROVE  IInv'
<1>0. /\ Sound(tiles[t]) /\ tiles[t] \in TileState /\ tiles \in [Tile -> TileState]
      /\ faults \in 0..MaxFaults
  BY DEF IInv, TypeOK
<1>1. CASE OnHealthTick(t)
  <2>1. Sound(Tick(tiles[t])) /\ tiles[t].wanted
    <3>1. tiles[t].wanted
      BY <1>0, <1>1 DEF OnHealthTick, Sound, Silent, TileState
    <3> QED BY <1>0, <1>1, <3>1, TickIsSound DEF OnHealthTick
  <2>2. /\ tiles' = [tiles EXCEPT ![t] = Tick(tiles[t])]
        /\ OnlyTiles /\ faults' \in 0..MaxFaults
    BY <1>0, <1>1 DEF OnHealthTick
  <2> QED BY <2>1, <2>2, OneTileFits
<1>2. CASE RestartStream(t)
  <2>1. PICK lost \in SUBSET {t} :
          /\ NoStart(lost)
          /\ tiles' = [tiles EXCEPT ![t] = Restart(tiles[t], t \notin lost)]
    BY <1>2 DEF RestartStream
  <2>2. Sound(Restart(tiles[t], t \notin lost)) /\ tiles[t].wanted
    BY <1>0, <1>2, RestartIsSound DEF RestartStream
  <2>3. faults' \in 0..MaxFaults
    BY <2>1, FaultsCounted DEF IInv
  <2>4. OnlyTiles
    BY <1>2 DEF RestartStream
  <2> QED BY <2>1, <2>2, <2>3, <2>4, OneTileFits
<1>3. CASE PlayerPlays(t) \/ PlayerBreaks(t)
  <2>1. PICK q \in {"playing", "ended", "failed"} :
          tiles' = [tiles EXCEPT ![t].player = q]
    BY <1>3 DEF PlayerPlays, PlayerBreaks
  <2>2. tiles[t].player \in {"opening", "playing"} /\ OnlyTiles
    BY <1>3 DEF PlayerPlays, PlayerBreaks
  <2>3. faults' \in 0..MaxFaults
    BY <1>0, <1>3, VideoAssumption DEF PlayerPlays, PlayerBreaks
  <2> DEFINE y == [tiles[t] EXCEPT !.player = q]
  <2>4. tiles' = [tiles EXCEPT ![t] = y]
    BY <2>1
  <2>5. tiles[t].wanted
    BY <1>0, <2>2 DEF Sound, Silent
  <2>6. /\ y.item = tiles[t].item /\ y.wanted = tiles[t].wanted
        /\ y.health = tiles[t].health /\ y.player = q
    BY <1>0 DEF TileState
  <2>7. y \in TileState
    BY <1>0 DEF TileState, Player
  <2>8. Sound(y)
    BY <1>0, <2>2, <2>5, <2>6, <2>7 DEF Sound
  <2> QED BY <2>2, <2>3, <2>4, <2>5, <2>8, OneTileFits
<1> QED BY <1>1, <1>2, <1>3

LEMMA NextPreserves == IInv /\ [Next]_vars => IInv'
<1> SUFFICES ASSUME IInv, [Next]_vars PROVE IInv'
  OBVIOUS
<1>1. CASE Operator
  BY <1>1, OperatorPreserves
<1>2. CASE \E t \in Tile :
             OnHealthTick(t) \/ RestartStream(t) \/ PlayerPlays(t) \/ PlayerBreaks(t)
  BY <1>2, TileStepPreserves
<1>3. CASE UNCHANGED vars
  BY <1>3 DEF vars, IInv, TypeOK
<1> QED BY <1>1, <1>2, <1>3 DEF Next

LEMMA Invariance == Spec => []IInv
BY InitIInv, NextPreserves, PTL DEF Spec

-----------------------------------------------------------------------------
\* The window, its tiles and the controller's page keep their types: no plan
\* is without pages and no page number runs out of the naturals.
THEOREM TypeCorrect == Spec => []TypeOK
<1>1. IInv => TypeOK
  BY DEF IInv
<1> QED BY <1>1, Invariance, PTL

\* A tile that is wanted always has the health timer, or the reconnect timer
\* when it has no player: no stream is given up.
THEOREM NoTileIsLeft == Spec => []WantedIsWatched
<1>1. IInv => WantedIsWatched
  BY DEF IInv, Sound, WantedIsWatched
<1> QED BY <1>1, Invariance, PTL

\* A tile that is not wanted, and any tile of a closed window, has no player
\* and no timer.
THEOREM NothingPlaysUnseen == Spec => []IdleIsSilent
<1>1. IInv => IdleIsSilent
  BY DEF IInv, Sound, IdleIsSilent
<1> QED BY <1>1, Invariance, PTL

-----------------------------------------------------------------------------
\* What the plan shows: each of its devices once, and on an existing page

Below(ds, m) == {e \in ds : e < m}

LEMMA BelowIsFinite ==
  ASSUME NEW ds \in SUBSET Device, NEW m
  PROVE  /\ IsFiniteSet(ds) /\ Cardinality(ds) \in Nat
         /\ IsFiniteSet(Below(ds, m)) /\ Cardinality(Below(ds, m)) \in Nat
<1>1. IsFiniteSet(Device)
  BY FS_Interval, VideoAssumption DEF Device
<1>2. IsFiniteSet(ds)
  BY <1>1, FS_Subset
<1>3. Below(ds, m) \in SUBSET ds
  BY DEF Below
<1> QED BY <1>2, <1>3, FS_Subset, FS_CardinalityType

\* Among n devices there is one with k before it, for every k below n: the
\* first number with more than k devices below it is the one after it.
LEMMA NthExists ==
  ASSUME NEW ds \in SUBSET Device, NEW k \in Nat, k < Cardinality(ds)
  PROVE  Nth(ds, k + 1) # {}
<1>0. /\ \A e \in ds : e \in Nat /\ e > 0 /\ e < Devices + 1
      /\ Devices \in Nat
  <2>1. \A e \in 1..Devices : e \in Nat /\ e > 0 /\ e < Devices + 1
    BY VideoAssumption
  <2> QED BY <2>1, VideoAssumption DEF Device
<1> DEFINE S == {m \in Nat : Cardinality(Below(ds, m)) > k}
<1>1. Devices + 1 \in S
  <2>1. Below(ds, Devices + 1) = ds
    BY <1>0, Zenon DEF Below
  <2> QED BY <1>0, <2>1
<1>2. PICK m \in S : \A x \in S : m <= x
  BY <1>1, LeastNatural
<1>3. m \in Nat /\ Cardinality(Below(ds, m)) > k
  BY <1>2
<1>4. m # 0
  <2>1. Below(ds, 0) = {}
    <3>1. \A e \in ds : ~(e < 0)
      BY <1>0
    <3> QED BY <3>1, Zenon DEF Below
  <2> QED BY <1>3, <2>1, FS_EmptySet
<1> DEFINE d == m - 1
<1>5. d \in Nat /\ m = d + 1
  BY <1>3, <1>4
<1>6. ~(Cardinality(Below(ds, d)) > k)
  BY <1>2, <1>5
<1> HIDE DEF d, S
<1>12. \A e \in ds : e < m <=> (e < d \/ e = d)
  BY <1>0, <1>5
<1>7. d \in ds
  <2>1. ASSUME d \notin ds PROVE Below(ds, m) = Below(ds, d)
    <3>1. \A e \in ds : e # d
      BY <2>1
    <3>2. \A e \in ds : e < m <=> e < d
      BY <1>12, <3>1
    <3> QED BY <3>2, Zenon DEF Below
  <2> QED BY <1>3, <1>6, <2>1
<1>8. Below(ds, m) = Below(ds, d) \cup {d} /\ d \notin Below(ds, d)
  <2>1. d \notin Below(ds, d)
    BY <1>5 DEF Below
  <2>2. \A e : e \in Below(ds, m) <=> e \in Below(ds, d) \cup {d}
    BY <1>7, <1>12, Zenon DEF Below
  <2> QED BY <2>1, <2>2
<1>9. Cardinality(Below(ds, m)) = Cardinality(Below(ds, d)) + 1
  <2>1. IsFiniteSet(Below(ds, d))
    BY BelowIsFinite
  <2> QED BY <1>8, <2>1, FS_AddElement
<1>10. Cardinality(Below(ds, d)) \in Nat
  BY BelowIsFinite
<1>11. Cardinality(Below(ds, d)) = (k + 1) - 1
  BY <1>3, <1>6, <1>9, <1>10
<1> QED BY <1>7, <1>11 DEF Nth, Below

\* An existing page starts before the last device.
LEMMA PageStarts ==
  ASSUME NEW n \in Nat, n > 0, NEW c \in Nat, c + 1 <= PageCount(n)
  PROVE  c * Tiles \in Nat /\ c * Tiles < n
<1> USE VideoAssumption
<1> DEFINE a == n + Tiles - 1
           q == a \div Tiles
<1>1. a \in Nat /\ q \in Nat /\ Tiles * q <= a
  <2>1. a \in Nat OBVIOUS
  <2> HIDE DEF a
  <2> QED BY <2>1, SMT
<1>2. c + 1 <= q
  BY DEF PageCount
<1> HIDE DEF q
<1>3. PICK k \in Nat : q = (c + 1) + k
  <2>1. q - (c + 1) \in Nat /\ q = (c + 1) + (q - (c + 1))
    BY <1>1, <1>2
  <2> QED BY <2>1
<1>4. Tiles * q = c * Tiles + Tiles + k * Tiles
  BY <1>3
<1>5. c * Tiles \in Nat /\ k * Tiles \in Nat
  OBVIOUS
<1> DEFINE x == c * Tiles
           y == k * Tiles
           z == Tiles * q
<1>6. x \in Nat /\ y \in Nat /\ z = x + Tiles + y /\ z <= n + Tiles - 1
  BY <1>1, <1>4, <1>5
<1> HIDE DEF x, y, z
<1>7. x < n
  BY <1>6
<1> QED BY <1>5, <1>7 DEF x

\* The device of an item is the one that has its place in the target.
LEMMA ItemPlace ==
  ASSUME NEW target \in Resolvable, NEW m
  PROVE  /\ ItemAt(target, m) = NoItem <=> Nth(target.devices, m) = {}
         /\ ItemAt(target, m) # NoItem
              => Cardinality({e \in target.devices : e < ItemAt(target, m).device}) = m - 1
<1>1. target.devices \subseteq Device /\ target.mode \in Mode
  BY TargetsAreDevices
<1>2. CASE Nth(target.devices, m) = {}
  BY <1>2 DEF ItemAt
<1>3. CASE Nth(target.devices, m) # {}
  <2> DEFINE d == CHOOSE e \in Nth(target.devices, m) : TRUE
  <2>1. d \in Device /\ Cardinality({e \in target.devices : e < d}) = m - 1
    BY <1>1, <1>3 DEF Nth
  <2>2. ItemAt(target, m) = StreamItem(d, target.mode)
    BY <1>3 DEF ItemAt
  <2> HIDE DEF d
  <2>3. StreamItem(d, target.mode).device = d
    BY DEF StreamItem
  <2> QED BY <1>1, <1>3, <2>1, <2>2, <2>3, ItemFits
<1> QED BY <1>2, <1>3

\* Different tiles of a plan show different devices, its page is one of its
\* pages, and the first tile of a plan with devices is not empty.
PlanShows(p) ==
  /\ \A t, u \in Tile :
       p.items[t] # NoItem /\ p.items[u] # NoItem /\ t # u
         => p.items[t].device # p.items[u].device
  /\ p.count > 0 => p.page < p.pages /\ p.items[1] # NoItem

LEMMA BuildPlanShows ==
  ASSUME NEW target \in Resolvable, NEW index \in Nat
  PROVE  PlanShows(BuildPlan(target, index))
<1> DEFINE n == Cardinality(target.devices)
           p == BuildPlan(target, index)
           start == p.page * Tiles
<1>1. target.devices \in SUBSET Device /\ n \in Nat
  BY TargetsAreDevices, BelowIsFinite
<1>2. PageCount(n) \in Nat \ {0}
  BY <1>1, PageCountPositive
<1>3. p = [count |-> n, page |-> p.page, pages |-> PageCount(n),
           items |-> PageItems(target, p.page)]
  BY DEF BuildPlan
<1>4. p.page \in Nat /\ p.page + 1 <= PageCount(n)
  BY <1>2 DEF BuildPlan
<1>5. /\ p.count = n /\ p.pages = PageCount(n)
      /\ p.items = PageItems(target, p.page)
  BY <1>3
<1> HIDE DEF p
<1>6. start \in Nat
  BY <1>4, VideoAssumption
<1>7. \A t \in Tile : p.items[t] = ItemAt(target, start + t)
  BY <1>5 DEF PageItems
<1>8. \A t \in Tile : t \in Nat
  BY VideoAssumption DEF Tile
<1>9. 1 \in Tile
  BY VideoAssumption DEF Tile
<1> HIDE DEF start
<1>10. ASSUME NEW t \in Tile, NEW u \in Tile, t # u,
              p.items[t] # NoItem, p.items[u] # NoItem,
              p.items[t].device = p.items[u].device
       PROVE  FALSE
  <2> DEFINE c(d) == Cardinality({e \in target.devices : e < d})
  <2>0. /\ c(p.items[t].device) = (start + t) - 1
        /\ c(p.items[u].device) = (start + u) - 1
    BY <1>7, <1>10, ItemPlace
  <2> HIDE DEF c
  <2>1. (start + t) - 1 = (start + u) - 1
    BY <1>10, <2>0
  <2> QED BY <1>6, <1>8, <1>10, <2>1
<1>11. ASSUME p.count > 0 PROVE p.page < p.pages /\ p.items[1] # NoItem
  <2>1. p.page < p.pages
    BY <1>2, <1>4, <1>5
  <2>2. start < n
    BY <1>1, <1>4, <1>5, <1>11, PageStarts DEF start
  <2>3. Nth(target.devices, start + 1) # {}
    BY <1>1, <1>6, <2>2, NthExists
  <2> QED BY <1>7, <1>9, <2>1, <2>3, ItemPlace
<1> QED BY <1>10, <1>11 DEF PlanShows, p

\* The tiles, the plan and the header of an open window go together.
ShowInv ==
  /\ PlanShows(plan)
  /\ \A t \in Tile : tiles[t].wanted => tiles[t].item = plan.items[t]
  /\ shown /\ header.count > 0 =>
       /\ header = [count |-> plan.count, page |-> plan.page, pages |-> plan.pages]
       /\ tiles[1].wanted

\* A tile shows the item it is given, and wants to if there is one.
LEMMA SetItemShows ==
  ASSUME NEW x, Sound(x), NEW item \in Item, NEW opens \in BOOLEAN
  PROVE  LET y == SetStreamItem(x, item, opens)
         IN  /\ y.item = item
             /\ y.wanted <=> item # NoItem
<1> DEFINE z == [StopStream(x) EXCEPT !.item = item]
<1>1. z \in TileState /\ z.item = item /\ ~z.wanted
  BY DEF Sound, StopStream, TileState, Status, Player
<1> HIDE DEF z
<1>2. Start(z, opens).item = item /\ (Start(z, opens).wanted <=> item # NoItem)
  BY <1>1 DEF Start, TileState
<1> QED BY <1>2 DEF SetStreamItem, z

LEMMA ApplyPlanShows ==
  ASSUME IInv, NEW target \in Resolvable, NEW index \in Nat,
         ApplyPlan(BuildPlan(target, index))
  PROVE  ShowInv'
<1> DEFINE p == BuildPlan(target, index)
<1>1. PlanShows(p) /\ p.items \in [Tile -> Item]
  BY BuildPlanShows, PlanFits
<1>2. ApplyPlan(p)
  OBVIOUS
<1> HIDE DEF p
<1>3. /\ plan' = p
      /\ header' = [count |-> p.count, page |-> p.page, pages |-> p.pages]
      /\ \E lost : tiles' = [t \in Tile |-> SetStreamItem(tiles[t], p.items[t], t \notin lost)]
  BY <1>2 DEF ApplyPlan, SetTiles
<1>4. \A t \in Tile : /\ tiles'[t].item = p.items[t]
                      /\ tiles'[t].wanted <=> p.items[t] # NoItem
  <2>1. PICK lost : tiles' = [t \in Tile |-> SetStreamItem(tiles[t], p.items[t], t \notin lost)]
    BY <1>3
  <2> SUFFICES ASSUME NEW t \in Tile
               PROVE  /\ tiles'[t].item = p.items[t]
                      /\ tiles'[t].wanted <=> p.items[t] # NoItem
    OBVIOUS
  <2>2. Sound(tiles[t]) /\ p.items[t] \in Item
    BY <1>1 DEF IInv
  <2>3. tiles'[t] = SetStreamItem(tiles[t], p.items[t], t \notin lost)
    BY <2>1
  <2> DEFINE y == SetStreamItem(tiles[t], p.items[t], t \notin lost)
  <2>4. (t \notin lost) \in BOOLEAN
    OBVIOUS
  <2>5. y.item = p.items[t] /\ (y.wanted <=> p.items[t] # NoItem)
    <3> HIDE DEF p
    <3> QED BY <2>2, <2>4, SetItemShows, Zenon
  <2> QED BY <2>3, <2>5
<1>5. 1 \in Tile
  BY VideoAssumption DEF Tile
<1>6. header'.count = p.count
  BY <1>3
<1> QED BY <1>1, <1>3, <1>4, <1>5, <1>6 DEF ShowInv, PlanShows

LEMMA NothingWantedShows ==
  ASSUME PlanShows(plan)', \A t \in Tile : ~tiles'[t].wanted,
         ~(shown' /\ header'.count > 0)
  PROVE  ShowInv'
BY DEF ShowInv

\* One tile changes neither its item nor whether it is wanted.
LEMMA OneTileShows ==
  ASSUME IInv, ShowInv, NEW t \in Tile, NEW y,
         y.item = tiles[t].item, y.wanted = tiles[t].wanted,
         tiles' = [tiles EXCEPT ![t] = y], OnlyTiles
  PROVE  ShowInv'
<1>1. \A u \in Tile : /\ tiles'[u].item = tiles[u].item
                      /\ tiles'[u].wanted = tiles[u].wanted
  BY DEF IInv, TypeOK
<1>2. 1 \in Tile
  BY VideoAssumption DEF Tile
<1> QED BY <1>1, <1>2 DEF OnlyTiles, ShowInv, PlanShows

LEMMA OperatorShows == IInv /\ ShowInv /\ Operator => ShowInv'
<1> SUFFICES ASSUME IInv, ShowInv, Operator PROVE ShowInv'
  OBVIOUS
<1>0. page \in Nat
  BY DEF IInv, TypeOK
<1>1. ASSUME UNCHANGED <<shown, header, tiles, plan>> PROVE ShowInv'
  BY <1>1 DEF ShowInv, PlanShows
<1>2. CASE OpenWindow
  <2>1. PICK target \in Resolvable :
          IF target.devices = {}
          THEN page' = 0 /\ UNCHANGED <<shown, header, fullscreen, tiles, plan, faults>>
          ELSE ApplyPlan(BuildPlan(target, 0)) /\ shown' = TRUE
    BY <1>2 DEF OpenWindow
  <2> QED BY <1>1, <2>1, ApplyPlanShows
<1>3. CASE PrevPage
  <2>1. page - 1 \in Nat
    BY <1>0, <1>3 DEF PrevPage
  <2> QED BY <1>3, <2>1, ApplyPlanShows DEF PrevPage
<1>4. CASE NextPage
  <2>1. page + 1 \in Nat
    BY <1>0
  <2> QED BY <1>4, <2>1, ApplyPlanShows DEF NextPage
<1>5. CASE Refresh
  <2>1. PICK target \in Resolvable :
          IF target.devices = {}
          THEN /\ StopAllTiles
               /\ header' = [count |-> 0, page |-> 0, pages |-> 1]
               /\ UNCHANGED <<fullscreen, plan, page, faults>>
          ELSE ApplyPlan(BuildPlan(target, page))
    BY <1>5 DEF Refresh
  <2>2. CASE target.devices = {}
    <3>1. /\ StopAllTiles /\ plan' = plan /\ header'.count = 0
      BY <2>1, <2>2
    <3>2. \A t \in Tile : ~tiles'[t].wanted
      BY <3>1, StopAllFits
    <3>3. PlanShows(plan)'
      BY <3>1 DEF ShowInv, PlanShows
    <3> QED BY <3>1, <3>2, <3>3, NothingWantedShows
  <2> QED BY <1>0, <2>1, <2>2, ApplyPlanShows
<1>6. CASE Close
  <2>1. StopAllTiles /\ shown' = FALSE /\ plan' = NoPlan
    BY <1>6 DEF Close
  <2>2. \A t \in Tile : ~tiles'[t].wanted
    BY <2>1, StopAllFits
  <2>3. PlanShows(plan)'
    BY <2>1 DEF PlanShows, NoPlan
  <2> QED BY <2>1, <2>2, <2>3, NothingWantedShows
<1>7. CASE Escape \/ \E t \in Tile : DoubleClick(t)
  BY <1>1, <1>7 DEF Escape, DoubleClick
<1> QED BY <1>2, <1>3, <1>4, <1>5, <1>6, <1>7 DEF Operator

LEMMA TileStepShows ==
  ASSUME IInv, ShowInv, NEW t \in Tile,
         OnHealthTick(t) \/ RestartStream(t) \/ PlayerPlays(t) \/ PlayerBreaks(t)
  PROVE  ShowInv'
<1>0. tiles[t] \in TileState /\ Sound(tiles[t])
  BY DEF IInv, TypeOK
<1>1. CASE OnHealthTick(t)
  <2>1. tiles' = [tiles EXCEPT ![t] = Tick(tiles[t])] /\ OnlyTiles
    BY <1>1 DEF OnHealthTick
  <2>2. Tick(tiles[t]).item = tiles[t].item /\ Tick(tiles[t]).wanted = tiles[t].wanted
    BY <1>0 DEF Tick, TileState
  <2> QED BY <2>1, <2>2, OneTileShows
<1>2. CASE RestartStream(t)
  <2>1. PICK lost : tiles' = [tiles EXCEPT ![t] = Restart(tiles[t], t \notin lost)]
    BY <1>2 DEF RestartStream
  <2>2. OnlyTiles /\ tiles[t].reconnect
    BY <1>2 DEF RestartStream
  <2>3. tiles[t].wanted
    BY <1>0, <2>2 DEF Sound, Silent
  <2>4. ASSUME NEW opens
        PROVE  Restart(tiles[t], opens).item = tiles[t].item
               /\ Restart(tiles[t], opens).wanted = tiles[t].wanted
    BY <1>0, <2>3 DEF Restart, Start, TileState
  <2> QED BY <2>1, <2>2, <2>4, OneTileShows
<1>3. CASE PlayerPlays(t) \/ PlayerBreaks(t)
  <2>1. PICK q : tiles' = [tiles EXCEPT ![t].player = q]
    BY <1>3 DEF PlayerPlays, PlayerBreaks
  <2>2. OnlyTiles
    BY <1>3 DEF PlayerPlays, PlayerBreaks
  <2> DEFINE y == [tiles[t] EXCEPT !.player = q]
  <2>3. y.item = tiles[t].item /\ y.wanted = tiles[t].wanted
    BY <1>0 DEF TileState
  <2>4. tiles' = [tiles EXCEPT ![t] = y]
    BY <2>1
  <2> HIDE DEF y
  <2> QED BY <2>2, <2>3, <2>4, OneTileShows
<1> QED BY <1>1, <1>2, <1>3

LEMMA NextShows == IInv /\ ShowInv /\ [Next]_vars => ShowInv'
<1> SUFFICES ASSUME IInv, ShowInv, [Next]_vars PROVE ShowInv'
  OBVIOUS
<1>1. CASE UNCHANGED vars
  BY <1>1 DEF vars, ShowInv, PlanShows
<1> QED BY <1>1, OperatorShows, TileStepShows DEF Next

\* The streams of an open window are those of the page its header names, one
\* tile for each device, on a page that exists and is not blank.
THEOREM PageShownIsThePlan == Spec => []TilesShowPlan
<1>1. Init => ShowInv
  BY DEF Init, ShowInv, PlanShows, NoPlan, IdleTile
<1>2. IInv /\ ShowInv => TilesShowPlan
  <2> SUFFICES ASSUME IInv, ShowInv PROVE TilesShowPlan
    OBVIOUS
  <2>1. \A t \in Tile : tiles[t].wanted
          => tiles[t].item = plan.items[t] /\ plan.items[t] # NoItem
    BY DEF IInv, Sound, ShowInv
  <2>2. shown /\ header.count > 0 => /\ header.page = plan.page
                                     /\ header.pages = plan.pages
                                     /\ plan.count > 0
    BY DEF ShowInv
  <2> QED BY <2>1, <2>2 DEF TilesShowPlan, ShowInv, PlanShows
<1> QED BY <1>1, <1>2, Invariance, NextShows, PTL DEF Spec

=============================================================================
