--------------------------- MODULE DiscoveryWindow ---------------------------
(* The discovery window: its table of cameras, DiscoveryController, and    *)
(* the worker thread that scans, changes addresses or resets.              *)
(*                                                                         *)
(* Two threads share the table and the map of the rows selected before.    *)
(* DiscoveryController is no QObject, so PyQt runs a slot of the worker's  *)
(* signals in the worker's thread, and the rows_changed that such a slot   *)
(* emits is posted to the Qt thread.  In the Qt thread rows_changed is a   *)
(* call, and _on_rows_changed calls itself again through _apply_rows: gui  *)
(* is what that thread still has to do, the innermost call first.          *)
EXTENDS Naturals, FiniteSets, Sequences

CONSTANTS
  Cameras,   \* number of cameras; a camera is its place in the order of MACs
  Top,       \* the highest IPv4 address
  Overlap    \* bound: operations of the operator while a worker's slot runs

ASSUME WindowAssumption ==
  /\ Cameras \in Nat \ {0}
  /\ Top \in Nat \ {0}
  /\ Overlap \in Nat

Camera == 1..Cameras
Address == 1..Top
NoAddress == 0      \* an empty or invalid text in the new_ip column
NoOrder == 0        \* selection_order None

VARIABLES
  rows,      \* DiscoveryTableModel._rows
  prev,      \* _prev_selected_map: the cameras it holds as selected
  counter,   \* _selection_order_counter, up to Cameras
  mode,      \* order_mode()
  gui,       \* calls of the Qt thread that have not returned
  posted,    \* a rows_changed of the worker's thread is posted
  kind,      \* _busy_kind; "none" also stands for no _thread
  worker,    \* where the worker's thread is
  targets,   \* cameras of the running setip or reset
  answer,    \* the cameras its results are for
  update,    \* rows the worker's slot is about to set
  clicks     \* operations since it read them

table == <<rows, prev, counter>>
job == <<kind, worker, targets, answer, update>>
vars == <<table, mode, gui, posted, job, clicks>>

Row == [mac : Camera, sel : BOOLEAN, ord : 0..Cameras, new : Address \cup {NoAddress},
        busy : BOOLEAN]     \* status is one of "being changed", "being reset"
Tables == UNION {[1..n -> Row] : n \in 0..Cameras}

Init ==
  /\ rows = <<>> /\ prev = {} /\ counter = 0
  /\ mode = "mac"
  /\ gui = <<>> /\ posted = FALSE
  /\ kind = "none" /\ worker = "idle" /\ targets = {}
  /\ answer = {}
  /\ update = <<>> /\ clicks = 0

-----------------------------------------------------------------------------
\* Selection and order

Selected(rs) == {i \in DOMAIN rs : rs[i].sel}
SelectedMacs(rs) == {rs[i].mac : i \in Selected(rs)}

\* A selected row without an order is sorted as 999999.
Rank(r) == IF r.ord = NoOrder THEN 999999 ELSE r.ord
ByMac(r, s) == r.mac < s.mac
ByOrder(r, s) == Rank(r) < Rank(s) \/ (Rank(r) = Rank(s) /\ ByMac(r, s))

\* The place of row i among the selected rows.
Place(byMac, rs, i) ==
  Cardinality({j \in Selected(rs) : j = i \/ IF byMac THEN ByMac(rs[j], rs[i]) ELSE ByOrder(rs[j], rs[i])})

\* _ordered_selected_rows
ModePlace(rs, i) == Place(mode = "mac", rs, i)

\* _apply_mac_order and _recompact_selection_order
Ordered(byMac, rs) ==
  [i \in DOMAIN rs |-> [rs[i] EXCEPT !.ord = IF rs[i].sel THEN Place(byMac, rs, i) ELSE NoOrder]]

\* Mutant: in the order of selection the numbers are left as they were given.
Reordered_MacOnly(rs) == IF mode = "mac" THEN Ordered(TRUE, rs) ELSE rs

Reordered(rs) == Ordered(mode = "mac", rs)

\* The rows that were selected since the map was taken.
Fresh(rs) == {i \in Selected(rs) : rs[i].mac \notin prev}

\* The loop of _on_rows_changed: a fresh row gets the next number.  Numbers beyond
\* Cameras are only compared with orders, so the counter need not go further.
Numbered(rs) ==
  [i \in DOMAIN rs |->
     [rs[i] EXCEPT !.ord =
        CASE i \in Fresh(rs) -> counter + Cardinality({j \in Fresh(rs) : j <= i})
          [] ~rs[i].sel /\ rs[i].mac \in prev -> NoOrder
          [] OTHER -> @]]
NextCounter(rs) ==
  LET n == counter + Cardinality(Fresh(rs)) IN IF n < Cameras THEN n ELSE Cameras

-----------------------------------------------------------------------------
\* Calls of the Qt thread

Changed == [do |-> "changed"]
Apply(rs) == [do |-> "apply", rows |-> rs]
Sync(rs) == [do |-> "sync", rows |-> rs]
AllToggled(on) == [do |-> "all", on |-> on]
Launch(k, S) == [do |-> "launch", kind |-> k, targets |-> S]

Doing(what) == gui # <<>> /\ Head(gui).do = what

\* _on_rows_changed up to _apply_rows, or to its end
OnRowsChanged ==
  /\ Doing("changed")
  /\ LET new == Reordered(Numbered(rows)) IN
       IF new # rows
       THEN gui' = <<Apply(new), Sync(new)>> \o Tail(gui) /\ UNCHANGED prev
       ELSE gui' = Tail(gui) /\ prev' = SelectedMacs(rows)
  /\ counter' = NextCounter(rows)
  /\ UNCHANGED <<rows, mode, posted, job, clicks>>

\* set_rows
ApplyRows ==
  /\ Doing("apply")
  /\ rows' = Head(gui).rows
  /\ gui' = <<Changed>> \o Tail(gui)
  /\ UNCHANGED <<prev, counter, mode, posted, job, clicks>>

\* _sync_previous_selected_map
SyncPrevious ==
  /\ Doing("sync")
  /\ prev' = SelectedMacs(Head(gui).rows)
  /\ gui' = Tail(gui)
  /\ UNCHANGED <<rows, counter, mode, posted, job, clicks>>

\* _on_select_all_toggled
OnSelectAllToggled ==
  /\ Doing("all")
  /\ LET new == IF Head(gui).on THEN Ordered(TRUE, rows)
                ELSE [i \in DOMAIN rows |-> [rows[i] EXCEPT !.ord = NoOrder]]
     IN gui' = <<Apply(new), Sync(new)>> \o Tail(gui)
  /\ UNCHANGED <<table, mode, posted, job, clicks>>

\* The end of _on_scan_requested, _on_setip_requested and _on_reset_requested
LaunchWorker ==
  /\ Doing("launch")
  /\ kind' = Head(gui).kind
  /\ targets' = Head(gui).targets
  /\ worker' = "work"
  /\ gui' = Tail(gui)
  /\ UNCHANGED <<table, mode, posted, answer, update, clicks>>

\* The rows_changed of a slot that ran in the worker's thread
DeliverPosted ==
  /\ gui = <<>> /\ posted
  /\ posted' = FALSE
  /\ gui' = <<Changed>>
  /\ UNCHANGED <<table, mode, job, clicks>>

\* _cleanup_worker, posted after whatever the slot posted
Cleanup ==
  /\ gui = <<>> /\ ~posted /\ worker = "over"
  /\ kind' = "none" /\ worker' = "idle" /\ targets' = {} /\ answer' = {}
  /\ clicks' = 0
  /\ UNCHANGED <<table, mode, gui, posted, update>>

-----------------------------------------------------------------------------
\* The operator; buttons are disabled as set_scanning and set_admin_busy say

\* An operation while a slot may hold stale rows is counted.
Click ==
  IF worker \in {"set", "sync"} \/ posted
  THEN clicks < Overlap /\ clicks' = clicks + 1
  ELSE UNCHANGED clicks

AdminBusy == kind \in {"setip", "reset"}

\* A check box
Toggle ==
  /\ gui = <<>>
  /\ \E i \in DOMAIN rows : rows' = [rows EXCEPT ![i].sel = ~@]
  /\ gui' = <<Changed>>
  /\ UNCHANGED <<prev, counter, mode, posted, job>>

\* The new_ip column
EditAddress ==
  /\ gui = <<>>
  /\ \E i \in DOMAIN rows, a \in Address \cup {NoAddress} : rows' = [rows EXCEPT ![i].new = a]
  /\ gui' = <<Changed>>
  /\ UNCHANGED <<prev, counter, mode, posted, job>>

\* A click on the header of the check boxes
ToggleAll ==
  /\ gui = <<>> /\ rows # <<>>
  /\ LET on == \E i \in DOMAIN rows : ~rows[i].sel IN
       /\ rows' = [i \in DOMAIN rows |-> [rows[i] EXCEPT !.sel = on]]
       /\ gui' = <<Changed, AllToggled(on)>>
  /\ UNCHANGED <<prev, counter, mode, posted, job>>

\* The combo box has no handler.
ChooseMode ==
  /\ gui = <<>>
  /\ mode' \in {"mac", "selection"} \ {mode}
  /\ UNCHANGED <<table, gui, posted, job>>

\* Mutant: a scan is started although a worker runs.
ScanRequested_NoGuard ==
  /\ gui = <<>> /\ kind # "scan"
  /\ gui' = <<Apply(<<>>), Launch("scan", {})>>
  /\ UNCHANGED <<table, mode, posted, job>>

\* _on_scan_requested
ScanRequested ==
  /\ gui = <<>> /\ kind = "none"
  /\ gui' = <<Apply(<<>>), Launch("scan", {})>>
  /\ UNCHANGED <<table, mode, posted, job>>

\* Mutant: addresses go in the order of the table.
Filled_TableOrder(base) ==
  [i \in DOMAIN rows |->
     IF rows[i].sel
     THEN [rows[i] EXCEPT !.new = base + Cardinality({j \in Selected(rows) : j < i}), !.busy = FALSE]
     ELSE rows[i]]

\* The addresses from base on, in the order of the mode
Filled(base) ==
  [i \in DOMAIN rows |->
     IF rows[i].sel
     THEN [rows[i] EXCEPT !.new = base + ModePlace(rows, i) - 1, !.busy = FALSE]
     ELSE rows[i]]

\* Mutant: addresses are not checked against the highest.
AutoFill_NoTop ==
  /\ gui = <<>> /\ ~AdminBusy /\ Selected(rows) # {}
  /\ \E base \in Address :
       LET new == Reordered(Filled(base)) IN gui' = <<Apply(new), Sync(new)>>
  /\ UNCHANGED <<table, mode, posted, job>>

\* _on_auto_fill_ip_requested; an address above the highest raises.
AutoFill ==
  /\ gui = <<>> /\ ~AdminBusy /\ Selected(rows) # {}
  /\ \E base \in Address :
       /\ base + Cardinality(Selected(rows)) - 1 <= Top
       /\ LET new == Reordered(Filled(base)) IN gui' = <<Apply(new), Sync(new)>>
  /\ UNCHANGED <<table, mode, posted, job>>

\* _on_setip_requested and _on_reset_requested up to the start of the worker
Requested(k) ==
  /\ gui = <<>> /\ kind = "none" /\ Selected(rows) # {}
  /\ LET busy == [i \in DOMAIN rows |->
                    IF rows[i].sel THEN [rows[i] EXCEPT !.busy = TRUE] ELSE rows[i]]
     IN gui' = <<Apply(busy), Launch(k, SelectedMacs(rows))>>
  /\ UNCHANGED <<table, mode, posted, job>>

SetIpRequested ==
  /\ \A i \in Selected(rows) : rows[i].new # NoAddress
  /\ Requested("setip")
ResetRequested == Requested("reset")

-----------------------------------------------------------------------------
\* The worker's thread; the services are external

\* failed: no handler touches the rows.
WorkFails ==
  /\ worker = "work"
  /\ worker' = "over"
  /\ UNCHANGED <<table, mode, gui, posted, kind, targets, answer, update, clicks>>

\* Some cameras answer the scan; they are listed by address, all selected.
ScanAnswers ==
  /\ worker = "work" /\ kind = "scan"
  /\ \E S \in SUBSET Camera : \E place \in [1..Cardinality(S) -> S] :
       /\ \A i, j \in DOMAIN place : place[i] = place[j] => i = j
       /\ update' = Ordered(TRUE,
            [i \in DOMAIN place |-> [mac |-> place[i], sel |-> TRUE, ord |-> NoOrder,
                                     new |-> NoAddress, busy |-> FALSE]])
  /\ worker' = "set"
  /\ UNCHANGED <<table, mode, gui, posted, kind, targets, answer, clicks>>

\* change_ip_batch and reset_batch; a reset without an own address has no results.
JobAnswers ==
  /\ worker = "work" /\ AdminBusy
  /\ \/ answer' = targets
     \/ kind = "reset" /\ answer' = {}
  /\ worker' = "read"
  /\ UNCHANGED <<table, mode, gui, posted, kind, targets, update, clicks>>

\* _on_setip_finished, _on_reset_finished: the rows with their results
ReadRows ==
  /\ worker = "read"
  /\ update' = [i \in DOMAIN rows |->
                  IF rows[i].mac \in answer THEN [rows[i] EXCEPT !.busy = FALSE] ELSE rows[i]]
  /\ worker' = "set"
  /\ UNCHANGED <<table, mode, gui, posted, kind, targets, answer, clicks>>

\* set_rows; rows_changed goes to the Qt thread.
SetRows ==
  /\ worker = "set"
  /\ rows' = update
  /\ posted' = TRUE
  /\ worker' = "sync"
  /\ UNCHANGED <<prev, counter, mode, gui, kind, targets, answer, update, clicks>>

\* _sync_previous_selected_map, and the end of the slot
SlotSyncs ==
  /\ worker = "sync"
  /\ prev' = SelectedMacs(update)
  /\ update' = <<>>
  /\ worker' = "over"
  /\ UNCHANGED <<rows, counter, mode, gui, posted, kind, targets, answer, clicks>>

-----------------------------------------------------------------------------
Calls ==
  \/ OnRowsChanged \/ ApplyRows \/ SyncPrevious \/ OnSelectAllToggled \/ LaunchWorker
Operator ==
  /\ Click
  /\ \/ Toggle \/ EditAddress \/ ToggleAll \/ ChooseMode
     \/ ScanRequested \/ AutoFill \/ SetIpRequested \/ ResetRequested
Work == WorkFails \/ ScanAnswers \/ JobAnswers \/ ReadRows \/ SetRows \/ SlotSyncs

Next == Calls \/ DeliverPosted \/ Cleanup \/ Operator \/ Work

Spec == Init /\ [][Next]_vars

-----------------------------------------------------------------------------
\* Properties

TypeOK ==
  /\ rows \in Tables /\ update \in Tables
  /\ prev \in SUBSET Camera
  /\ counter \in 0..Cameras
  /\ mode \in {"mac", "selection"}
  /\ \A n \in DOMAIN gui : gui[n].do \in {"changed", "apply", "sync", "all", "launch"}
  /\ posted \in BOOLEAN
  /\ kind \in {"none", "scan", "setip", "reset"}
  /\ worker \in {"idle", "work", "read", "set", "sync", "over"}
  /\ targets \in SUBSET Camera
  /\ answer \in SUBSET targets
  /\ clicks \in 0..Overlap

\* Whenever the window is at rest the selected rows have the orders 1 to n, each
\* once, and the other rows none, although both threads write rows and map without
\* a lock and _on_rows_changed compares with a map that may be stale.
OrdersComplete ==
  gui = <<>> /\ ~posted =>
    /\ {rows[i].ord : i \in Selected(rows)} = 1..Cardinality(Selected(rows))
    /\ \A i \in DOMAIN rows \ Selected(rows) : rows[i].ord = NoOrder

\* As long as a setip or reset runs, each of its cameras has a row that says so:
\* no scan clears the rows, and no fill or stale write takes the mark away.
JobIsShown ==
  AdminBusy /\ worker \in {"work", "read"} =>
    targets \subseteq {rows[i].mac : i \in {j \in DOMAIN rows : rows[j].busy}}

\* Auto fill hands out the addresses in the order the rows show afterwards, each
\* once.
FillFollowsOrder ==
  [][AutoFill =>
       LET new == Head(gui').rows IN
       \A i, j \in Selected(new) : new[i].ord < new[j].ord => new[i].new < new[j].new]_vars

=============================================================================
