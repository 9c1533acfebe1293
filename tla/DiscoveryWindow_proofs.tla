----------------------- MODULE DiscoveryWindow_proofs -----------------------
(* Theorems of DiscoveryWindow and their proofs, for any number of cameras *)
(* and addresses: whatever the two threads do, the orders of the selected  *)
(* rows are complete whenever the window is at rest.                       *)
EXTENDS DiscoveryWindow, FiniteSetTheorems, SequenceTheorems, TLAPS

-----------------------------------------------------------------------------
\* Tables

\* Each camera has at most one row.
Distinct(rs) == \A i, j \in DOMAIN rs : rs[i].mac = rs[j].mac => i = j
GoodTables == {rs \in Tables : Distinct(rs)}

\* Tables whose orders may be any numbers, as between two steps of a renumbering.
LooseRow == [mac : Camera, sel : BOOLEAN, ord : Nat, new : Address \cup {NoAddress},
             busy : BOOLEAN]
LooseTables == {rs \in UNION {[1..n -> LooseRow] : n \in 0..Cameras} : Distinct(rs)}

Complete(rs) ==
  /\ {rs[i].ord : i \in Selected(rs)} = 1..Cardinality(Selected(rs))
  /\ \A i \in DOMAIN rs \ Selected(rs) : rs[i].ord = NoOrder

\* What a renumbering leaves alone.
SameRows(rs, qs) ==
  /\ DOMAIN rs = DOMAIN qs
  /\ \A i \in DOMAIN rs : /\ rs[i].mac = qs[i].mac /\ rs[i].sel = qs[i].sel
                          /\ rs[i].new = qs[i].new /\ rs[i].busy = qs[i].busy

LEMMA LooseTable ==
  ASSUME NEW rs \in LooseTables
  PROVE  \E n \in 0..Cameras : /\ DOMAIN rs = 1..n
                               /\ rs \in [1..n -> LooseRow]
BY DEF LooseTables

LEMMA GoodIsLoose == GoodTables \subseteq LooseTables
<1> SUFFICES ASSUME NEW rs \in GoodTables PROVE rs \in LooseTables
  OBVIOUS
<1>1. PICK n \in 0..Cameras : rs \in [1..n -> Row]
  BY DEF GoodTables, Tables
<1>2. Row \subseteq LooseRow
  BY WindowAssumption DEF Row, LooseRow
<1>3. rs \in [1..n -> LooseRow]
  BY <1>1, <1>2
<1> QED BY <1>1, <1>3 DEF GoodTables, LooseTables

LEMMA EmptyTable == <<>> \in GoodTables /\ Complete(<<>>)
<1>1. <<>> \in [1..0 -> Row] /\ DOMAIN <<>> = {}
  OBVIOUS
<1>2. <<>> \in Tables
  BY <1>1, WindowAssumption DEF Tables
<1>3. Selected(<<>>) = {}
  BY <1>1 DEF Selected
<1>4. 1..Cardinality({}) = {}
  BY FS_EmptySet
<1> QED BY <1>1, <1>2, <1>3, <1>4 DEF GoodTables, Distinct, Complete

\* There are no more selected rows than cameras.
LEMMA SelectedIsFinite ==
  ASSUME NEW rs \in LooseTables
  PROVE  /\ IsFiniteSet(Selected(rs))
         /\ Cardinality(Selected(rs)) \in 0..Cameras
<1>1. PICK n \in 0..Cameras : DOMAIN rs = 1..n
  BY LooseTable
<1>2. IsFiniteSet(1..n) /\ Cardinality(1..n) = n
  BY FS_Interval, WindowAssumption
<1>3. Selected(rs) \in SUBSET (1..n)
  BY <1>1 DEF Selected
<1>4. IsFiniteSet(Selected(rs)) /\ Cardinality(Selected(rs)) <= n
  BY <1>2, <1>3, FS_Subset
<1>5. Cardinality(Selected(rs)) \in Nat
  BY <1>4, FS_CardinalityType
<1> QED BY <1>4, <1>5, WindowAssumption

-----------------------------------------------------------------------------
\* The place of a row

Before(byMac, rs, j, i) == IF byMac THEN ByMac(rs[j], rs[i]) ELSE ByOrder(rs[j], rs[i])
UpTo(byMac, rs, i) == {j \in Selected(rs) : j = i \/ Before(byMac, rs, j, i)}

\* The two orders compare the rows of a table strictly and completely.
LEMMA BeforeIsOrder ==
  ASSUME NEW rs \in LooseTables, NEW byMac \in BOOLEAN
  PROVE  /\ \A i \in DOMAIN rs : ~Before(byMac, rs, i, i)
         /\ \A i, j \in DOMAIN rs : i = j \/ Before(byMac, rs, i, j) \/ Before(byMac, rs, j, i)
         /\ \A i, j, k \in DOMAIN rs :
              Before(byMac, rs, i, j) /\ Before(byMac, rs, j, k) => Before(byMac, rs, i, k)
<1>1. \A i \in DOMAIN rs : rs[i].mac \in Nat /\ Rank(rs[i]) \in Nat
  <2>1. \A i \in DOMAIN rs : rs[i] \in LooseRow
    BY LooseTable
  <2> QED BY <2>1, WindowAssumption DEF LooseRow, Rank, Camera
<1>2. \A i, j \in DOMAIN rs : rs[i].mac = rs[j].mac => i = j
  BY DEF LooseTables, Distinct
<1> QED BY <1>1, <1>2 DEF Before, ByMac, ByOrder

LEMMA PlaceOfRow ==
  ASSUME NEW rs \in LooseTables, NEW byMac \in BOOLEAN, NEW i \in Selected(rs)
  PROVE  /\ Place(byMac, rs, i) = Cardinality(UpTo(byMac, rs, i))
         /\ IsFiniteSet(UpTo(byMac, rs, i))
         /\ Place(byMac, rs, i) \in 1..Cardinality(Selected(rs))
<1> DEFINE S == Selected(rs)
           U == UpTo(byMac, rs, i)
<1>1. IsFiniteSet(S) /\ U \in SUBSET S /\ i \in U
  BY SelectedIsFinite DEF UpTo
<1>2. Place(byMac, rs, i) = Cardinality(U)
  BY DEF Place, UpTo, Before
<1> HIDE DEF S, U
<1>3. IsFiniteSet(U) /\ Cardinality(U) <= Cardinality(S)
  BY <1>1, FS_Subset
<1>4. Cardinality(U) \in Nat /\ Cardinality(S) \in Nat /\ Cardinality(U) # 0
  BY <1>1, <1>3, FS_CardinalityType, FS_EmptySet
<1>5. Cardinality(U) \in 1..Cardinality(S)
  BY <1>3, <1>4
<1> QED BY <1>2, <1>3, <1>5 DEF S, U

\* Of two selected rows the one that comes first has the smaller place.
LEMMA PlaceGrows ==
  ASSUME NEW rs \in LooseTables, NEW byMac \in BOOLEAN,
         NEW i \in Selected(rs), NEW k \in Selected(rs), Before(byMac, rs, i, k)
  PROVE  Place(byMac, rs, i) < Place(byMac, rs, k)
<1> DEFINE U == UpTo(byMac, rs, i)
           V == UpTo(byMac, rs, k)
<1>1. \A j \in Selected(rs) : j \in DOMAIN rs
  BY DEF Selected
<1>2. U \in SUBSET V
  BY <1>1, BeforeIsOrder DEF UpTo
<1>3. k \in V /\ k \notin U
  BY <1>1, BeforeIsOrder DEF UpTo
<1>4. /\ Place(byMac, rs, i) = Cardinality(U) /\ IsFiniteSet(U)
      /\ Place(byMac, rs, k) = Cardinality(V) /\ IsFiniteSet(V)
  BY PlaceOfRow
<1> HIDE DEF U, V
<1>5. Cardinality(U) <= Cardinality(V) /\ Cardinality(U) # Cardinality(V)
  BY <1>2, <1>3, <1>4, FS_Subset
<1>6. Cardinality(U) \in Nat /\ Cardinality(V) \in Nat
  BY <1>4, FS_CardinalityType
<1> QED BY <1>4, <1>5, <1>6

\* The places are the numbers from 1 to the number of selected rows.
LEMMA PlacesComplete ==
  ASSUME NEW rs \in LooseTables, NEW byMac \in BOOLEAN
  PROVE  {Place(byMac, rs, i) : i \in Selected(rs)} = 1..Cardinality(Selected(rs))
<1> DEFINE S == Selected(rs)
           T == 1..Cardinality(Selected(rs))
           f == [i \in S |-> Place(byMac, rs, i)]
<1>1. IsFiniteSet(S) /\ Cardinality(S) \in Nat
  BY SelectedIsFinite, WindowAssumption
<1>2. IsFiniteSet(T) /\ Cardinality(T) = Cardinality(S)
  BY <1>1, FS_Interval
<1>3. f \in [S -> T]
  BY PlaceOfRow
<1>4. ASSUME NEW i \in S, NEW k \in S, i # k
      PROVE  f[i] # f[k]
  <2>1. Before(byMac, rs, i, k) \/ Before(byMac, rs, k, i)
    BY <1>4, BeforeIsOrder DEF Selected
  <2>2. f[i] \in Nat /\ f[k] \in Nat
    BY <1>1, <1>3
  <2>3. f[i] < f[k] \/ f[k] < f[i]
    BY <2>1, PlaceGrows
  <2> QED BY <2>2, <2>3
<1>5. \A i \in S : f[i] = Place(byMac, rs, i)
  OBVIOUS
<1> HIDE DEF S, T, f
<1>6. f \in Injection(S, T)
  BY <1>3, <1>4 DEF Injection, IsInjective
<1>7. f \in Surjection(S, T)
  BY <1>2, <1>6, FS_Injection
<1>8. {f[i] : i \in S} = T
  BY <1>3, <1>7 DEF Surjection
<1>9. {Place(byMac, rs, i) : i \in S} = T
  BY <1>5, <1>8
<1> QED BY <1>9 DEF S, T

-----------------------------------------------------------------------------
\* Renumbering

\* _apply_mac_order and _recompact_selection_order leave complete orders and
\* change nothing else.
LEMMA OrderedIsComplete ==
  ASSUME NEW rs \in LooseTables, NEW byMac \in BOOLEAN
  PROVE  /\ Ordered(byMac, rs) \in GoodTables
         /\ Complete(Ordered(byMac, rs))
         /\ SameRows(Ordered(byMac, rs), rs)
         /\ \A i \in Selected(rs) : Ordered(byMac, rs)[i].ord = Place(byMac, rs, i)
<1> DEFINE o == Ordered(byMac, rs)
<1>1. PICK n \in 0..Cameras : DOMAIN rs = 1..n /\ rs \in [1..n -> LooseRow]
  BY LooseTable
<1>2. DOMAIN o = 1..n
  BY <1>1 DEF Ordered
<1>3. \A i \in Selected(rs) : Place(byMac, rs, i) \in 0..Cameras
  BY PlaceOfRow, SelectedIsFinite, WindowAssumption
<1>4. ASSUME NEW i \in 1..n
      PROVE  /\ o[i] \in Row
             /\ o[i].mac = rs[i].mac /\ o[i].sel = rs[i].sel
             /\ o[i].new = rs[i].new /\ o[i].busy = rs[i].busy
             /\ o[i].ord = IF rs[i].sel THEN Place(byMac, rs, i) ELSE NoOrder
  <2>1. rs[i] \in LooseRow
    BY <1>1
  <2> DEFINE m == IF rs[i].sel THEN Place(byMac, rs, i) ELSE NoOrder
  <2>2. o[i] = [rs[i] EXCEPT !.ord = m]
    BY <1>1 DEF Ordered
  <2>3. m \in 0..Cameras
    BY <1>1, <1>3, WindowAssumption DEF Selected, NoOrder
  <2> HIDE DEF m, o
  <2>4. o[i] \in Row /\ o[i].ord = m
    BY <2>1, <2>2, <2>3 DEF LooseRow, Row
  <2>5. /\ o[i].mac = rs[i].mac /\ o[i].sel = rs[i].sel
        /\ o[i].new = rs[i].new /\ o[i].busy = rs[i].busy
    BY <2>1, <2>2 DEF LooseRow
  <2> QED BY <2>4, <2>5 DEF m
<1>5. SameRows(o, rs)
  BY <1>1, <1>2, <1>4 DEF SameRows
<1>6. Selected(o) = Selected(rs)
  BY <1>1, <1>2, <1>4 DEF Selected
<1>7. \A i \in Selected(rs) : o[i].ord = Place(byMac, rs, i)
  BY <1>1, <1>4 DEF Selected
<1>8. o \in GoodTables
  <2>1. o \in [1..n -> Row]
    <3>1. o = [i \in 1..n |-> o[i]]
      BY <1>1 DEF Ordered
    <3> HIDE DEF o
    <3> QED BY <1>4, <3>1
  <2>2. Distinct(o)
    BY <1>1, <1>2, <1>4 DEF LooseTables, Distinct
  <2> QED BY <2>1, <2>2 DEF GoodTables, Tables
<1>9. Complete(o)
  <2>1. {o[i].ord : i \in Selected(o)} = 1..Cardinality(Selected(o))
    <3> HIDE DEF o
    <3>1. {o[i].ord : i \in Selected(rs)} = {Place(byMac, rs, i) : i \in Selected(rs)}
      BY <1>7
    <3> QED BY <1>6, <3>1, PlacesComplete
  <2>2. \A i \in DOMAIN o \ Selected(o) : o[i].ord = NoOrder
    BY <1>2, <1>4, <1>6, <1>1 DEF Selected
  <2> QED BY <2>1, <2>2 DEF Complete
<1> QED BY <1>5, <1>7, <1>8, <1>9

\* The table of the same rows with some other new fields, for the changes that
\* touch no MAC.
LEMMA ChangedTable ==
  ASSUME NEW rs \in GoodTables, NEW qs,
         \E n \in 0..Cameras : DOMAIN rs = 1..n /\ qs \in [1..n -> Row],
         \A i \in DOMAIN rs : qs[i].mac = rs[i].mac
  PROVE  qs \in GoodTables /\ DOMAIN qs = DOMAIN rs
<1>1. PICK n \in 0..Cameras : DOMAIN rs = 1..n /\ qs \in [1..n -> Row]
  OBVIOUS
<1>2. DOMAIN qs = 1..n
  BY <1>1
<1>3. Distinct(qs)
  BY <1>1, <1>2 DEF GoodTables, Distinct
<1> QED BY <1>1, <1>2, <1>3 DEF GoodTables, Tables

LEMMA GoodTable ==
  ASSUME NEW rs \in GoodTables
  PROVE  \E n \in 0..Cameras : DOMAIN rs = 1..n /\ rs \in [1..n -> Row]
BY DEF GoodTables, Tables

\* _on_rows_changed, the numbers of its loop included.
LEMMA RenumberedIsComplete ==
  ASSUME TypeOK, rows \in GoodTables
  PROVE  /\ Reordered(Numbered(rows)) \in GoodTables
         /\ Complete(Reordered(Numbered(rows)))
         /\ SameRows(Reordered(Numbered(rows)), rows)
<1> DEFINE q == Numbered(rows)
<1>1. PICK n \in 0..Cameras : DOMAIN rows = 1..n /\ rows \in [1..n -> Row]
  BY GoodTable
<1>2. IsFiniteSet(Selected(rows))
  BY SelectedIsFinite, GoodIsLoose
<1>3. ASSUME NEW i \in 1..n
      PROVE  /\ q[i] \in LooseRow
             /\ q[i].mac = rows[i].mac /\ q[i].sel = rows[i].sel
             /\ q[i].new = rows[i].new /\ q[i].busy = rows[i].busy
  <2> DEFINE m == CASE i \in Fresh(rows) -> counter + Cardinality({j \in Fresh(rows) : j <= i})
                    [] ~rows[i].sel /\ rows[i].mac \in prev -> NoOrder
                    [] OTHER -> rows[i].ord
  <2>1. rows[i] \in Row
    BY <1>1
  <2>2. q[i] = [rows[i] EXCEPT !.ord = m]
    BY <1>1 DEF Numbered
  <2>3. m \in Nat
    <3>1. Cardinality({j \in Fresh(rows) : j <= i}) \in Nat
      <4>1. {j \in Fresh(rows) : j <= i} \in SUBSET Selected(rows)
        BY DEF Fresh
      <4> QED BY <1>2, <4>1, FS_Subset, FS_CardinalityType
    <3>2. counter \in Nat /\ rows[i].ord \in Nat
      BY <2>1, WindowAssumption DEF TypeOK, Row
    <3> HIDE DEF Fresh
    <3> QED BY <3>1, <3>2 DEF NoOrder
  <2> HIDE DEF m, q
  <2> QED BY <2>1, <2>2, <2>3, WindowAssumption DEF LooseRow, Row
<1>4. q = [i \in 1..n |-> q[i]] /\ DOMAIN q = 1..n
  BY <1>1 DEF Numbered
<1> HIDE DEF q
<1>5. q \in [1..n -> LooseRow]
  BY <1>3, <1>4
<1>6. Distinct(q)
  BY <1>1, <1>3, <1>4 DEF GoodTables, Distinct
<1>7. q \in LooseTables
  BY <1>5, <1>6 DEF LooseTables
<1>8. (mode = "mac") \in BOOLEAN
  OBVIOUS
<1>9. /\ Reordered(q) \in GoodTables /\ Complete(Reordered(q)) /\ SameRows(Reordered(q), q)
  BY <1>7, <1>8, OrderedIsComplete DEF Reordered
<1>10. SameRows(Reordered(q), rows)
  BY <1>1, <1>3, <1>4, <1>9 DEF SameRows
<1> QED BY <1>9, <1>10 DEF q

-----------------------------------------------------------------------------
\* The calls of the Qt thread

CallSet ==
  [do : {"changed"}] \cup [do : {"apply", "sync"}, rows : GoodTables]
    \cup [do : {"all"}, on : BOOLEAN]
    \cup [do : {"launch"}, kind : {"scan", "setip", "reset"}, targets : SUBSET Camera]

LEMMA CallFields ==
  ASSUME NEW c \in CallSet
  PROVE  /\ c.do \in {"changed", "apply", "sync", "all", "launch"}
         /\ c.do \in {"apply", "sync"} => c.rows \in GoodTables
         /\ c.do = "launch" => /\ c.kind \in {"scan", "setip", "reset"}
                               /\ c.targets \in SUBSET Camera
BY DEF CallSet

LEMMA CallMade ==
  /\ Changed \in CallSet /\ Changed.do = "changed"
  /\ \A rs \in GoodTables : /\ Apply(rs) \in CallSet
                            /\ Apply(rs).do = "apply" /\ Apply(rs).rows = rs
                            /\ Sync(rs) \in CallSet /\ Sync(rs).do = "sync"
  /\ \A on \in BOOLEAN : AllToggled(on) \in CallSet /\ AllToggled(on).do = "all"
  /\ \A k \in {"scan", "setip", "reset"}, S \in SUBSET Camera :
       /\ Launch(k, S) \in CallSet /\ Launch(k, S).do = "launch"
       /\ Launch(k, S).kind = k /\ Launch(k, S).targets = S
BY DEF CallSet, Changed, Apply, Sync, AllToggled, Launch

\* The innermost call is replaced by those it makes.
LEMMA Pushed ==
  ASSUME NEW C, NEW s \in Seq(C), s # <<>>, NEW p \in Seq(C)
  PROVE  /\ p \o Tail(s) \in Seq(C)
         /\ DOMAIN (p \o Tail(s)) = 1..(Len(p) + Len(s) - 1)
         /\ Len(p \o Tail(s)) = Len(p) + Len(s) - 1
         /\ \A n \in 1..Len(p) : (p \o Tail(s))[n] = p[n]
         /\ \A n \in 1..(Len(s) - 1) : (p \o Tail(s))[Len(p) + n] = s[n + 1]
<1>1. Len(s) \in Nat \ {0} /\ Len(p) \in Nat
  OBVIOUS
<1>2. Tail(s) \in Seq(C) /\ Len(Tail(s)) = Len(s) - 1
      /\ \A n \in 1..(Len(s) - 1) : Tail(s)[n] = s[n + 1]
  OBVIOUS
<1>3. p \o Tail(s) \in Seq(C) /\ Len(p \o Tail(s)) = Len(p) + Len(s) - 1
  BY <1>1, <1>2
<1>4. \A n \in 1..Len(p) : (p \o Tail(s))[n] = p[n]
  BY <1>1, <1>2
<1>5. \A n \in 1..(Len(s) - 1) : (p \o Tail(s))[Len(p) + n] = s[n + 1]
  BY <1>1, <1>2
<1> QED BY <1>3, <1>4, <1>5

\* A worker is launched by the outermost call, and by it only while none runs; a
\* table is about to be set by the innermost call only.
Queue ==
  /\ gui \in Seq(CallSet)
  /\ \A n \in DOMAIN gui : gui[n].do = "launch" => n = Len(gui) /\ kind = "none"
  /\ \A n \in DOMAIN gui : gui[n].do = "apply" => n = 1

\* What is true of the queue after a call made the calls p.
LEMMA QueueStep ==
  ASSUME Queue, gui # <<>>, NEW p \in Seq(CallSet), gui' = p \o Tail(gui), kind' = kind,
         \A n \in DOMAIN p : p[n].do # "launch" /\ (p[n].do = "apply" => n = 1)
  PROVE  /\ Queue'
         /\ \A n \in DOMAIN gui' : gui'[n].do = "launch" =>
              \E m \in DOMAIN gui : gui[m] = gui'[n]
         /\ \A n \in DOMAIN p : n \in DOMAIN gui' /\ gui'[n] = p[n]
         /\ \A m \in DOMAIN gui : m # 1 => \E n \in DOMAIN gui' : gui'[n] = gui[m]
         /\ p = <<>> => ~Doing("apply")'
<1>1. /\ gui' \in Seq(CallSet)
      /\ DOMAIN gui' = 1..(Len(p) + Len(gui) - 1) /\ Len(gui') = Len(p) + Len(gui) - 1
      /\ \A n \in 1..Len(p) : gui'[n] = p[n]
      /\ \A n \in 1..(Len(gui) - 1) : gui'[Len(p) + n] = gui[n + 1]
  BY Pushed DEF Queue
<1>2. Len(p) \in Nat /\ Len(gui) \in Nat \ {0} /\ DOMAIN p = 1..Len(p) /\ DOMAIN gui = 1..Len(gui)
  BY DEF Queue
<1>3. ASSUME NEW n \in DOMAIN gui', n \notin DOMAIN p
      PROVE  /\ n - Len(p) + 1 \in DOMAIN gui /\ n - Len(p) + 1 # 1
             /\ gui'[n] = gui[n - Len(p) + 1]
  <2>1. n - Len(p) \in 1..(Len(gui) - 1) /\ Len(p) + (n - Len(p)) = n
    BY <1>1, <1>2, <1>3
  <2> QED BY <1>1, <1>2, <2>1
<1>4. ASSUME NEW n \in DOMAIN gui', gui'[n].do = "launch"
      PROVE  n = Len(gui') /\ kind' = "none" /\ \E m \in DOMAIN gui : gui[m] = gui'[n]
  <2>1. n \notin DOMAIN p
    BY <1>1, <1>2, <1>4
  <2>2. n - Len(p) + 1 = Len(gui) /\ kind = "none"
    BY <1>3, <1>4, <2>1 DEF Queue
  <2>3. n = Len(gui')
    BY <1>1, <1>2, <2>2
  <2> QED BY <1>3, <2>1, <2>2, <2>3
<1>5. ASSUME NEW n \in DOMAIN gui', gui'[n].do = "apply"
      PROVE  n = 1 /\ n \in DOMAIN p
  BY <1>1, <1>2, <1>3, <1>5 DEF Queue
<1>6. \A n \in DOMAIN p : n \in DOMAIN gui' /\ gui'[n] = p[n]
  BY <1>1, <1>2
<1>7. ASSUME NEW m \in DOMAIN gui, m # 1
      PROVE  \E n \in DOMAIN gui' : gui'[n] = gui[m]
  <2>1. m - 1 \in 1..(Len(gui) - 1) /\ m - 1 + 1 = m
    BY <1>2, <1>7
  <2>2. gui'[Len(p) + (m - 1)] = gui[m]
    BY <1>1, <2>1
  <2>3. Len(p) + (m - 1) \in DOMAIN gui'
    BY <1>1, <1>2, <2>1
  <2> QED BY <2>2, <2>3
<1>8. ASSUME p = <<>> PROVE ~Doing("apply")'
  <2> SUFFICES ASSUME gui' # <<>>, Head(gui').do = "apply" PROVE FALSE
    BY DEF Doing
  <2>1. 1 \in DOMAIN gui' /\ gui'[1] = Head(gui')
    BY <1>1
  <2>2. 1 \in DOMAIN p
    BY <1>5, <2>1
  <2> QED BY <1>8, <2>2
<1>9. Queue'
  BY <1>1, <1>4, <1>5 DEF Queue
<1> QED BY <1>4, <1>6, <1>7, <1>8, <1>9

-----------------------------------------------------------------------------
\* The inductive invariant

WorkerFits ==
  /\ kind = "none" <=> worker = "idle"
  /\ worker \in {"idle", "work"} => answer = {}

\* Incomplete orders are always about to be renumbered.
Settles ==
  \/ Complete(rows) \/ posted
  \/ \E n \in DOMAIN gui : gui[n].do \in {"changed", "apply"}

Shown(S, rs) == S \subseteq {rs[i].mac : i \in {j \in DOMAIN rs : rs[j].busy}}

\* The cameras of a job that runs and has not read the rows, or is about to run.
Due(S) ==
  \/ AdminBusy /\ worker \in {"work", "read"} /\ S = targets
  \/ \E n \in DOMAIN gui :
       gui[n].do = "launch" /\ gui[n].kind # "scan" /\ S = gui[n].targets

\* They are marked in the rows, and in those about to be set.
Marked ==
  /\ JobIsShown
  /\ \A S \in SUBSET Camera :
       Due(S) => IF Doing("apply") THEN Shown(S, Head(gui).rows) ELSE Shown(S, rows)

Sound ==
  /\ TypeOK
  /\ rows \in GoodTables /\ update \in GoodTables
  /\ Queue /\ WorkerFits /\ Settles /\ Marked

LEMMA HeadIsFirst ==
  ASSUME Queue, gui # <<>>
  PROVE  /\ 1 \in DOMAIN gui /\ Head(gui) = gui[1] /\ Head(gui) \in CallSet
         /\ DOMAIN gui = 1..Len(gui) /\ Len(gui) \in Nat \ {0}
         /\ \A n \in DOMAIN gui : gui[n] \in CallSet
         /\ ~Doing("apply") => \A n \in DOMAIN gui : gui[n].do # "apply"
BY DEF Queue, Doing

LEMMA CallsTyped ==
  ASSUME NEW s \in Seq(CallSet)
  PROVE  \A n \in DOMAIN s : s[n].do \in {"changed", "apply", "sync", "all", "launch"}
<1>1. \A n \in DOMAIN s : s[n] \in CallSet
  OBVIOUS
<1> QED BY <1>1, CallFields

LEMMA SameRowsShown ==
  ASSUME NEW rs, NEW qs, SameRows(rs, qs), NEW S, Shown(S, qs)
  PROVE  Shown(S, rs)
BY DEF SameRows, Shown

LEMMA SelectedCameras ==
  ASSUME NEW rs \in GoodTables
  PROVE  SelectedMacs(rs) \in SUBSET Camera
<1>1. PICK n \in 0..Cameras : DOMAIN rs = 1..n /\ rs \in [1..n -> Row]
  BY GoodTable
<1>2. \A i \in Selected(rs) : rs[i] \in Row
  BY <1>1 DEF Selected
<1> QED BY <1>2 DEF SelectedMacs, Row

LEMMA GoodIsTyped == GoodTables \subseteq Tables
BY DEF GoodTables

LEMMA InitSound == Init => Sound
<1> SUFFICES ASSUME Init PROVE Sound
  OBVIOUS
<1> USE DEF Init
<1>1. <<>> \in GoodTables /\ Complete(<<>>)
  BY EmptyTable
<1>2. TypeOK
  <2>1. \A n \in DOMAIN gui : gui[n].do \in {"changed", "apply", "sync", "all", "launch"}
    BY CallsTyped
  <2>2. <<>> \in Tables
    BY <1>1, GoodIsTyped
  <2>3. prev \in SUBSET Camera /\ targets \in SUBSET Camera /\ answer \in SUBSET targets
    OBVIOUS
  <2>4. counter \in 0..Cameras /\ clicks \in 0..Overlap
    BY WindowAssumption
  <2>5. /\ mode \in {"mac", "selection"} /\ posted \in BOOLEAN
        /\ kind \in {"none", "scan", "setip", "reset"}
        /\ worker \in {"idle", "work", "read", "set", "sync", "over"}
    OBVIOUS
  <2> QED BY <2>1, <2>2, <2>3, <2>4, <2>5 DEF TypeOK
<1>3. Queue
  BY DEF Queue
<1>4. WorkerFits /\ Settles
  BY <1>1 DEF WorkerFits, Settles
<1>5. Marked
  BY DEF Marked, JobIsShown, AdminBusy, Due
<1> QED BY <1>1, <1>2, <1>3, <1>4, <1>5 DEF Sound

-----------------------------------------------------------------------------
\* The calls of the Qt thread keep the invariant

\* A call that makes the calls p and neither sets rows nor starts a worker.  What
\* it makes is shown like the rows when it is about to be set.
LEMMA CallStep ==
  ASSUME Sound, gui # <<>>, NEW p \in Seq(CallSet), gui' = p \o Tail(gui),
         \A n \in DOMAIN p : p[n].do # "launch" /\ (p[n].do = "apply" => n = 1),
         ~Doing("apply"),
         1 \in DOMAIN p =>
           p[1].do = "apply" /\ \A S \in SUBSET Camera : Shown(S, rows) => Shown(S, p[1].rows),
         1 \in DOMAIN p \/ Head(gui).do # "changed" \/ Complete(rows),
         prev' \in SUBSET Camera, counter' \in 0..Cameras,
         UNCHANGED <<rows, mode, posted, job, clicks>>
  PROVE  Sound'
<1> USE DEF Sound
<1>0. UNCHANGED <<kind, worker, targets, answer, update>>
  BY DEF job
<1>1. /\ Queue'
      /\ \A n \in DOMAIN gui' : gui'[n].do = "launch" => \E m \in DOMAIN gui : gui[m] = gui'[n]
      /\ \A n \in DOMAIN p : n \in DOMAIN gui' /\ gui'[n] = p[n]
      /\ \A m \in DOMAIN gui : m # 1 => \E n \in DOMAIN gui' : gui'[n] = gui[m]
      /\ p = <<>> => ~Doing("apply")'
  BY <1>0, QueueStep
<1>2. TypeOK'
  <2>1. \A n \in DOMAIN gui' : gui'[n].do \in {"changed", "apply", "sync", "all", "launch"}
    BY <1>1, CallsTyped DEF Queue
  <2> QED BY <1>0, <2>1 DEF TypeOK
<1>3. WorkerFits'
  BY <1>0 DEF WorkerFits
<1>4. Settles'
  <2>1. CASE 1 \in DOMAIN p
    BY <1>1, <2>1 DEF Settles
  <2>2. CASE 1 \notin DOMAIN p
    <3>1. Head(gui) = gui[1] /\ 1 \in DOMAIN gui
      BY HeadIsFirst
    <3>2. \A n \in DOMAIN gui : gui[n].do # "apply"
      BY HeadIsFirst
    <3> QED BY <1>1, <2>2, <3>1, <3>2 DEF Settles
  <2> QED BY <2>1, <2>2
<1>5. Marked'
  <2>1. JobIsShown'
    BY <1>0 DEF Marked, JobIsShown, AdminBusy
  <2>2. ASSUME NEW S \in SUBSET Camera, Due(S)'
        PROVE  IF Doing("apply")' THEN Shown(S, Head(gui').rows) ELSE Shown(S, rows)
    <3>1. Due(S)
      BY <1>0, <1>1, <2>2 DEF Due, AdminBusy
    <3>2. Shown(S, rows)
      BY <3>1 DEF Marked
    <3>3. CASE 1 \in DOMAIN p
      <4>1. Head(gui') = p[1]
        BY <1>1, <3>3, HeadIsFirst DEF Queue
      <4> QED BY <3>2, <3>3, <4>1
    <3>4. CASE 1 \notin DOMAIN p
      <4>1. p = <<>>
        BY <3>4
      <4> QED BY <1>1, <3>2, <4>1
    <3> QED BY <3>3, <3>4
  <2> QED BY <2>1, <2>2 DEF Marked
<1> QED BY <1>0, <1>1, <1>2, <1>3, <1>4, <1>5

LEMMA NextCounterInRange ==
  ASSUME TypeOK, rows \in GoodTables
  PROVE  NextCounter(rows) \in 0..Cameras
<1>1. Fresh(rows) \in SUBSET Selected(rows)
  BY DEF Fresh
<1>2. IsFiniteSet(Selected(rows))
  BY SelectedIsFinite, GoodIsLoose
<1>3. Cardinality(Fresh(rows)) \in Nat
  BY <1>1, <1>2, FS_Subset, FS_CardinalityType
<1> QED BY <1>3, WindowAssumption DEF NextCounter, TypeOK

LEMMA OnRowsChangedSound == Sound /\ OnRowsChanged => Sound'
<1> SUFFICES ASSUME Sound, OnRowsChanged PROVE Sound'
  OBVIOUS
<1> DEFINE new == Reordered(Numbered(rows))
<1>1. gui # <<>> /\ Head(gui).do = "changed" /\ ~Doing("apply")
  BY DEF OnRowsChanged, Doing
<1>2. new \in GoodTables /\ Complete(new) /\ SameRows(new, rows)
  BY RenumberedIsComplete DEF Sound
<1>3. counter' \in 0..Cameras /\ UNCHANGED <<rows, mode, posted, job, clicks>>
  BY NextCounterInRange DEF Sound, OnRowsChanged
<1>4. CASE new # rows
  <2> DEFINE p == <<Apply(new), Sync(new)>>
  <2>1. p \in Seq(CallSet) /\ DOMAIN p = 1..2 /\ p[1] = Apply(new) /\ p[2] = Sync(new)
    BY <1>2, CallMade
  <2>2. gui' = p \o Tail(gui) /\ prev' = prev
    BY <1>4 DEF OnRowsChanged
  <2>3. /\ p[1].do = "apply" /\ p[1].rows = new /\ p[2].do = "sync"
        /\ \A S \in SUBSET Camera : Shown(S, rows) => Shown(S, new)
    BY <1>2, <2>1, CallMade, SameRowsShown
  <2>4. prev' \in SUBSET Camera
    BY <2>2 DEF Sound, TypeOK
  <2> HIDE DEF p, new
  <2>5. \A n \in DOMAIN p : p[n].do # "launch" /\ (p[n].do = "apply" => n = 1)
    BY <2>1, <2>3
  <2>6. 1 \in DOMAIN p
    BY <2>1
  <2>7. p[1].do = "apply" /\ \A S \in SUBSET Camera : Shown(S, rows) => Shown(S, p[1].rows)
    BY <2>3
  <2>8. p \in Seq(CallSet) /\ gui' = p \o Tail(gui)
    BY <2>1, <2>2
  <2> QED BY <1>1, <1>3, <2>4, <2>5, <2>6, <2>7, <2>8, CallStep
<1>5. CASE new = rows
  <2> DEFINE p == <<>>
  <2>1. p \in Seq(CallSet) /\ p = <<>> /\ \A n \in DOMAIN p : FALSE
    OBVIOUS
  <2>2. gui' = Tail(gui) /\ prev' = SelectedMacs(rows)
    BY <1>5 DEF OnRowsChanged
  <2>3. gui' = p \o Tail(gui)
    BY <1>1, <2>2 DEF Sound, Queue
  <2>4. prev' \in SUBSET Camera
    BY <2>2, SelectedCameras DEF Sound
  <2>5. Complete(rows)
    BY <1>2, <1>5
  <2> HIDE DEF p, new
  <2> QED BY <1>1, <1>3, <2>1, <2>3, <2>4, <2>5, CallStep
<1> QED BY <1>4, <1>5

LEMMA SyncPreviousSound == Sound /\ SyncPrevious => Sound'
<1> SUFFICES ASSUME Sound, SyncPrevious PROVE Sound'
  OBVIOUS
<1> DEFINE p == <<>>
<1>1. gui # <<>> /\ Head(gui).do = "sync" /\ ~Doing("apply")
  BY DEF SyncPrevious, Doing
<1>2. p \in Seq(CallSet) /\ \A n \in DOMAIN p : FALSE
  OBVIOUS
<1>3. gui' = p \o Tail(gui)
  BY <1>1 DEF Sound, Queue, SyncPrevious
<1>4. prev' \in SUBSET Camera
  <2>1. Head(gui) \in CallSet
    BY <1>1, HeadIsFirst DEF Sound
  <2>2. Head(gui).rows \in GoodTables
    BY <1>1, <2>1, CallFields
  <2> QED BY <2>2, SelectedCameras DEF SyncPrevious
<1>5. counter' \in 0..Cameras /\ UNCHANGED <<rows, mode, posted, job, clicks>>
  BY DEF Sound, TypeOK, SyncPrevious
<1> HIDE DEF p
<1> QED BY <1>1, <1>2, <1>3, <1>4, <1>5, CallStep

LEMMA OnSelectAllToggledSound == Sound /\ OnSelectAllToggled => Sound'
<1> SUFFICES ASSUME Sound, OnSelectAllToggled PROVE Sound'
  OBVIOUS
<1> DEFINE new == IF Head(gui).on THEN Ordered(TRUE, rows)
                  ELSE [i \in DOMAIN rows |-> [rows[i] EXCEPT !.ord = NoOrder]]
           p == <<Apply(new), Sync(new)>>
<1>1. gui # <<>> /\ Head(gui).do = "all" /\ ~Doing("apply")
  BY DEF OnSelectAllToggled, Doing
<1>2. new \in GoodTables /\ SameRows(new, rows)
  <2>1. CASE Head(gui).on
    <3>1. rows \in LooseTables
      BY GoodIsLoose DEF Sound
    <3> QED BY <2>1, <3>1, OrderedIsComplete
  <2>2. CASE ~Head(gui).on
    <3> DEFINE q == [i \in DOMAIN rows |-> [rows[i] EXCEPT !.ord = NoOrder]]
    <3>1. PICK n \in 0..Cameras : DOMAIN rows = 1..n /\ rows \in [1..n -> Row]
      BY GoodTable DEF Sound
    <3>2. DOMAIN q = 1..n
      BY <3>1
    <3>3. ASSUME NEW i \in 1..n
          PROVE  /\ q[i] \in Row
                 /\ q[i].mac = rows[i].mac /\ q[i].sel = rows[i].sel
                 /\ q[i].new = rows[i].new /\ q[i].busy = rows[i].busy
      <4>1. rows[i] \in Row /\ q[i] = [rows[i] EXCEPT !.ord = NoOrder]
        BY <3>1
      <4> HIDE DEF q
      <4> QED BY <4>1, WindowAssumption DEF Row, NoOrder
    <3>4. q \in [1..n -> Row]
      <4>1. q = [i \in 1..n |-> q[i]]
        BY <3>1
      <4> HIDE DEF q
      <4> QED BY <3>3, <4>1
    <3>5. q \in GoodTables
      <4> HIDE DEF q
      <4>1. \A i \in DOMAIN rows : q[i].mac = rows[i].mac
        BY <3>1, <3>3
      <4>2. \E k \in 0..Cameras : DOMAIN rows = 1..k /\ q \in [1..k -> Row]
        BY <3>1, <3>4
      <4>3. rows \in GoodTables
        BY DEF Sound
      <4> QED BY <4>1, <4>2, <4>3, ChangedTable
    <3>6. SameRows(q, rows)
      <4> HIDE DEF q
      <4> QED BY <3>1, <3>2, <3>3 DEF SameRows
    <3>7. new = q
      BY <2>2
    <3> QED BY <3>5, <3>6, <3>7
  <2> QED BY <2>1, <2>2
<1>3. gui' = p \o Tail(gui)
  BY DEF OnSelectAllToggled
<1>4. prev' \in SUBSET Camera /\ counter' \in 0..Cameras /\ UNCHANGED <<rows, mode, posted, job, clicks>>
  BY DEF Sound, TypeOK, OnSelectAllToggled, table
<1> HIDE DEF new
<1>5. p \in Seq(CallSet) /\ DOMAIN p = 1..2 /\ p[1] = Apply(new) /\ p[2] = Sync(new)
  BY <1>2, CallMade
<1> HIDE DEF p
<1>6. /\ p[1].do = "apply" /\ p[1].rows = new /\ p[2].do = "sync"
      /\ \A S \in SUBSET Camera : Shown(S, rows) => Shown(S, new)
  BY <1>2, <1>5, CallMade, SameRowsShown
<1>7. \A n \in DOMAIN p : p[n].do # "launch" /\ (p[n].do = "apply" => n = 1)
  BY <1>5, <1>6
<1> QED BY <1>1, <1>3, <1>4, <1>5, <1>6, <1>7, CallStep

LEMMA ApplyRowsSound == Sound /\ ApplyRows => Sound'
<1> SUFFICES ASSUME Sound, ApplyRows PROVE Sound'
  OBVIOUS
<1> DEFINE p == <<Changed>>
<1>1. gui # <<>> /\ Head(gui).do = "apply" /\ Doing("apply")
  BY DEF ApplyRows, Doing
<1>2. /\ rows' = Head(gui).rows
      /\ UNCHANGED <<prev, counter, mode, posted, kind, worker, targets, answer, update, clicks>>
  BY DEF ApplyRows, job
<1>3. rows' \in GoodTables
  <2>1. Head(gui) \in CallSet
    BY <1>1, HeadIsFirst DEF Sound
  <2> QED BY <1>1, <1>2, <2>1, CallFields
<1>4. p \in Seq(CallSet) /\ DOMAIN p = 1..1 /\ p[1].do = "changed"
  BY CallMade
<1>5. gui' = p \o Tail(gui)
  BY DEF ApplyRows
<1> HIDE DEF p
<1>6. \A n \in DOMAIN p : p[n].do # "launch" /\ (p[n].do = "apply" => n = 1)
  BY <1>4
<1>7. /\ Queue'
      /\ \A n \in DOMAIN gui' : gui'[n].do = "launch" => \E m \in DOMAIN gui : gui[m] = gui'[n]
      /\ 1 \in DOMAIN gui' /\ gui'[1] = p[1]
  BY <1>1, <1>2, <1>4, <1>5, <1>6, QueueStep DEF Sound
<1>8. TypeOK'
  <2>1. \A n \in DOMAIN gui' : gui'[n].do \in {"changed", "apply", "sync", "all", "launch"}
    BY <1>7, CallsTyped DEF Queue
  <2>2. rows' \in Tables
    BY <1>3, GoodIsTyped
  <2> QED BY <1>2, <2>1, <2>2 DEF TypeOK, Sound
<1>9. WorkerFits' /\ Settles'
  BY <1>2, <1>4, <1>7 DEF Sound, WorkerFits, Settles
<1>10. Marked'
  <2>1. \A S \in SUBSET Camera : Due(S)' => Due(S)
    BY <1>2, <1>7 DEF Due, AdminBusy
  <2>2. \A S \in SUBSET Camera : Due(S) => Shown(S, rows')
    BY <1>1, <1>2 DEF Sound, Marked
  <2>3. ~Doing("apply")'
    BY <1>4, <1>7 DEF Doing, Queue
  <2>4. JobIsShown'
    <3> SUFFICES ASSUME AdminBusy', worker' \in {"work", "read"} PROVE Shown(targets', rows')
      BY DEF JobIsShown, Shown
    <3>1. Due(targets) /\ targets \in SUBSET Camera
      BY <1>2 DEF Due, AdminBusy, Sound, TypeOK
    <3> QED BY <1>2, <2>2, <3>1
  <2> QED BY <2>1, <2>2, <2>3, <2>4 DEF Marked
<1>11. update' \in GoodTables
  BY <1>2 DEF Sound
<1> QED BY <1>3, <1>7, <1>8, <1>9, <1>10, <1>11 DEF Sound

LEMMA LaunchWorkerSound == Sound /\ LaunchWorker => Sound'
<1> SUFFICES ASSUME Sound, LaunchWorker PROVE Sound'
  OBVIOUS
<1>1. gui # <<>> /\ Head(gui).do = "launch" /\ ~Doing("apply")
  BY DEF LaunchWorker, Doing
<1>2. 1 \in DOMAIN gui /\ Head(gui) = gui[1] /\ Head(gui) \in CallSet
  BY <1>1, HeadIsFirst DEF Sound
<1>3. /\ kind' = Head(gui).kind /\ targets' = Head(gui).targets /\ worker' = "work"
      /\ gui' = Tail(gui)
      /\ UNCHANGED <<rows, prev, counter, mode, posted, answer, update, clicks>>
  BY DEF LaunchWorker, table
<1>4. Len(gui) = 1 /\ kind = "none" /\ worker = "idle" /\ answer = {}
  BY <1>1, <1>2 DEF Sound, Queue, WorkerFits
<1>5. gui' = <<>>
  BY <1>3, <1>4 DEF Sound, Queue
<1>6. kind' \in {"scan", "setip", "reset"} /\ targets' \in SUBSET Camera
  BY <1>1, <1>2, <1>3, CallFields
<1>7. TypeOK'
  <2>1. \A n \in DOMAIN gui' : gui'[n].do \in {"changed", "apply", "sync", "all", "launch"}
    BY <1>5, CallsTyped
  <2> QED BY <1>3, <1>4, <1>6, <2>1 DEF TypeOK, Sound
<1>8. Queue'
  BY <1>5 DEF Queue
<1>9. WorkerFits'
  BY <1>3, <1>4, <1>6 DEF WorkerFits
<1>10. Settles'
  <2>1. \A n \in DOMAIN gui : n = 1
    BY <1>4 DEF Sound, Queue
  <2>2. \A n \in DOMAIN gui : gui[n].do \notin {"changed", "apply"}
    BY <1>1, <1>2, <2>1
  <2> QED BY <1>3, <2>2 DEF Sound, Settles
<1>11. Marked'
  <2>1. kind' # "scan" => Due(targets')
    BY <1>1, <1>2, <1>3 DEF Due
  <2>2. kind' # "scan" => Shown(targets', rows')
    BY <1>1, <1>3, <1>6, <2>1 DEF Sound, Marked
  <2>3. \A S \in SUBSET Camera : Due(S)' => S = targets' /\ kind' # "scan"
    BY <1>5 DEF Due, AdminBusy
  <2>4. ~Doing("apply")' /\ JobIsShown'
    BY <1>5, <2>2 DEF Doing, JobIsShown, AdminBusy, Shown
  <2> QED BY <2>2, <2>3, <2>4 DEF Marked
<1>12. rows' \in GoodTables /\ update' \in GoodTables
  BY <1>3 DEF Sound
<1> QED BY <1>7, <1>8, <1>9, <1>10, <1>11, <1>12 DEF Sound

-----------------------------------------------------------------------------
\* The operator keeps the invariant

\* While nothing is queued only a running job is due.
LEMMA NothingQueued ==
  ASSUME Sound, gui = <<>>
  PROVE  /\ Complete(rows) \/ posted
         /\ \A S \in SUBSET Camera : Due(S) => S = targets /\ AdminBusy /\ worker \in {"work", "read"}
         /\ ~Doing("apply")
BY DEF Sound, Settles, Due, Doing

LEMMA ClickInRange ==
  ASSUME Sound, Click
  PROVE  clicks' \in 0..Overlap
BY WindowAssumption DEF Sound, TypeOK, Click

\* The operator edits fields of the rows other than the MAC and the mark.
LEMMA EditStep ==
  ASSUME Sound, Click, gui = <<>>, NEW p \in Seq(CallSet), gui' = p,
         \A n \in DOMAIN p : p[n].do \notin {"launch", "apply"},
         rows' = rows \/ (1 \in DOMAIN p /\ p[1].do = "changed"),
         rows' \in GoodTables, DOMAIN rows' = DOMAIN rows,
         \A i \in DOMAIN rows : rows'[i].mac = rows[i].mac /\ rows'[i].busy = rows[i].busy,
         mode' \in {"mac", "selection"}, UNCHANGED <<prev, counter, posted, job>>
  PROVE  Sound'
<1>0. UNCHANGED <<kind, worker, targets, answer, update>> /\ update' \in GoodTables
  BY DEF job, Sound
<1>1. clicks' \in 0..Overlap
  BY ClickInRange
<1>2. TypeOK'
  <2>1. \A n \in DOMAIN gui' : gui'[n].do \in {"changed", "apply", "sync", "all", "launch"}
    BY CallsTyped
  <2>2. rows' \in Tables
    BY GoodIsTyped
  <2> QED BY <1>0, <1>1, <2>1, <2>2 DEF TypeOK, Sound
<1>3. Queue'
  BY DEF Queue
<1>4. WorkerFits' /\ Settles'
  BY <1>0, NothingQueued DEF Sound, WorkerFits, Settles
<1>5. Marked'
  <2>1. \A S : Shown(S, rows) => Shown(S, rows')
    BY DEF Shown
  <2>2. JobIsShown'
    BY <1>0, <2>1 DEF Sound, Marked, JobIsShown, AdminBusy, Shown
  <2>3. ~Doing("apply")'
    <3> SUFFICES ASSUME gui' # <<>>, Head(gui').do = "apply" PROVE FALSE
      BY DEF Doing
    <3>1. 1 \in DOMAIN p /\ Head(p) = p[1]
      OBVIOUS
    <3> QED BY <3>1
  <2>4. ASSUME NEW S \in SUBSET Camera, Due(S)' PROVE Shown(S, rows')
    <3>1. Due(S)
      BY <1>0, <2>4 DEF Due, AdminBusy
    <3> QED BY <2>1, <3>1, NothingQueued DEF Sound, Marked
  <2> QED BY <2>2, <2>3, <2>4 DEF Marked
<1> QED BY <1>0, <1>2, <1>3, <1>4, <1>5 DEF Sound

\* The operator sets the table ts, after which c is called.
LEMMA SetStep ==
  ASSUME Sound, Click, gui = <<>>, NEW ts \in GoodTables, NEW c \in CallSet,
         gui' = <<Apply(ts), c>>,
         c.do = "sync" \/ (c.do = "launch" /\ kind = "none"),
         ~AdminBusy,
         c.do = "launch" /\ c.kind # "scan" => Shown(c.targets, ts),
         UNCHANGED <<table, mode, posted, job>>
  PROVE  Sound'
<1>0. UNCHANGED <<rows, prev, counter, mode, posted, kind, worker, targets, answer, update>>
  BY DEF table, job
<1>1. clicks' \in 0..Overlap
  BY ClickInRange
<1>2. /\ gui' \in Seq(CallSet) /\ DOMAIN gui' = 1..2 /\ Len(gui') = 2
      /\ gui'[1] = Apply(ts) /\ gui'[2] = c /\ Head(gui') = Apply(ts) /\ gui' # <<>>
  BY CallMade
<1>3. Apply(ts).do = "apply" /\ Apply(ts).rows = ts
  BY CallMade
<1>4. TypeOK'
  <2>1. \A n \in DOMAIN gui' : gui'[n].do \in {"changed", "apply", "sync", "all", "launch"}
    BY <1>2, CallsTyped
  <2> QED BY <1>0, <1>1, <2>1 DEF TypeOK, Sound
<1>5. Queue'
  BY <1>0, <1>2, <1>3 DEF Queue
<1>6. WorkerFits' /\ Settles'
  BY <1>0, <1>2, <1>3 DEF Sound, WorkerFits, Settles
<1>7. Marked'
  <2>1. JobIsShown'
    BY <1>0 DEF JobIsShown, AdminBusy
  <2>2. ASSUME NEW S \in SUBSET Camera, Due(S)' PROVE Shown(S, ts)
    <3>1. \E n \in 1..2 : gui'[n].do = "launch" /\ gui'[n].kind # "scan" /\ S = gui'[n].targets
      BY <1>0, <1>2, <2>2 DEF Due, AdminBusy
    <3> QED BY <1>2, <1>3, <3>1
  <2> QED BY <1>2, <1>3, <2>1, <2>2 DEF Marked, Doing
<1>8. rows' \in GoodTables /\ update' \in GoodTables
  BY <1>0 DEF Sound
<1> QED BY <1>4, <1>5, <1>6, <1>7, <1>8 DEF Sound

\* A row of a table is changed in fields other than the MAC.
LEMMA OneRowChanged ==
  ASSUME NEW rs \in GoodTables, NEW i \in DOMAIN rs, NEW r \in Row, r.mac = rs[i].mac
  PROVE  /\ [rs EXCEPT ![i] = r] \in GoodTables
         /\ DOMAIN [rs EXCEPT ![i] = r] = DOMAIN rs
         /\ [rs EXCEPT ![i] = r][i] = r
         /\ \A j \in DOMAIN rs : j # i => [rs EXCEPT ![i] = r][j] = rs[j]
<1>1. PICK n \in 0..Cameras : DOMAIN rs = 1..n /\ rs \in [1..n -> Row]
  BY GoodTable
<1> DEFINE q == [rs EXCEPT ![i] = r]
<1>2. q \in [1..n -> Row] /\ q[i] = r /\ \A j \in DOMAIN rs : j # i => q[j] = rs[j]
  BY <1>1
<1>3. \A j \in DOMAIN rs : q[j].mac = rs[j].mac
  BY <1>2
<1> HIDE DEF q
<1>4. q \in GoodTables /\ DOMAIN q = DOMAIN rs
  BY <1>1, <1>2, <1>3, ChangedTable
<1> QED BY <1>2, <1>4 DEF q

LEMMA ToggleSound == Sound /\ Click /\ Toggle => Sound'
<1> SUFFICES ASSUME Sound, Click, Toggle PROVE Sound'
  OBVIOUS
<1>1. PICK i \in DOMAIN rows : rows' = [rows EXCEPT ![i].sel = ~@]
  BY DEF Toggle
<1> DEFINE r == [rows[i] EXCEPT !.sel = ~@]
<1>2. rows[i] \in Row /\ rows \in GoodTables
  BY GoodTable DEF Sound
<1>3. r \in Row /\ r.mac = rows[i].mac /\ r.busy = rows[i].busy
  BY <1>2 DEF Row
<1>4. rows' = [rows EXCEPT ![i] = r]
  BY <1>1
<1> HIDE DEF r
<1>5. /\ rows' \in GoodTables /\ DOMAIN rows' = DOMAIN rows /\ rows'[i] = r
      /\ \A j \in DOMAIN rows : j # i => rows'[j] = rows[j]
  BY <1>2, <1>3, <1>4, OneRowChanged
<1>6. \A j \in DOMAIN rows : rows'[j].mac = rows[j].mac /\ rows'[j].busy = rows[j].busy
  BY <1>3, <1>5
<1> DEFINE p == <<Changed>>
<1>7. p \in Seq(CallSet) /\ DOMAIN p = 1..1 /\ p[1].do = "changed"
  BY CallMade
<1>8. /\ gui = <<>> /\ gui' = p /\ mode' \in {"mac", "selection"}
      /\ UNCHANGED <<prev, counter, posted, job>>
  BY DEF Toggle, Sound, TypeOK
<1> HIDE DEF p
<1>9. 1 \in DOMAIN p /\ \A n \in DOMAIN p : p[n].do \notin {"launch", "apply"}
  BY <1>7
<1> QED BY <1>5, <1>6, <1>7, <1>8, <1>9, EditStep

LEMMA EditAddressSound == Sound /\ Click /\ EditAddress => Sound'
<1> SUFFICES ASSUME Sound, Click, EditAddress PROVE Sound'
  OBVIOUS
<1>1. PICK i \in DOMAIN rows, a \in Address \cup {NoAddress} : rows' = [rows EXCEPT ![i].new = a]
  BY DEF EditAddress
<1> DEFINE r == [rows[i] EXCEPT !.new = a]
<1>2. rows[i] \in Row /\ rows \in GoodTables
  BY GoodTable DEF Sound
<1>3. r \in Row /\ r.mac = rows[i].mac /\ r.busy = rows[i].busy
  BY <1>2 DEF Row
<1>4. rows' = [rows EXCEPT ![i] = r]
  BY <1>1
<1> HIDE DEF r
<1>5. /\ rows' \in GoodTables /\ DOMAIN rows' = DOMAIN rows /\ rows'[i] = r
      /\ \A j \in DOMAIN rows : j # i => rows'[j] = rows[j]
  BY <1>2, <1>3, <1>4, OneRowChanged
<1>6. \A j \in DOMAIN rows : rows'[j].mac = rows[j].mac /\ rows'[j].busy = rows[j].busy
  BY <1>3, <1>5
<1> DEFINE p == <<Changed>>
<1>7. p \in Seq(CallSet) /\ DOMAIN p = 1..1 /\ p[1].do = "changed"
  BY CallMade
<1>8. /\ gui = <<>> /\ gui' = p /\ mode' \in {"mac", "selection"}
      /\ UNCHANGED <<prev, counter, posted, job>>
  BY DEF EditAddress, Sound, TypeOK
<1> HIDE DEF p
<1>9. 1 \in DOMAIN p /\ \A n \in DOMAIN p : p[n].do \notin {"launch", "apply"}
  BY <1>7
<1> QED BY <1>5, <1>6, <1>7, <1>8, <1>9, EditStep

LEMMA ToggleAllSound == Sound /\ Click /\ ToggleAll => Sound'
<1> SUFFICES ASSUME Sound, Click, ToggleAll PROVE Sound'
  OBVIOUS
<1> DEFINE on == \E i \in DOMAIN rows : ~rows[i].sel
           p == <<Changed, AllToggled(on)>>
<1>1. /\ rows' = [i \in DOMAIN rows |-> [rows[i] EXCEPT !.sel = on]]
      /\ gui = <<>> /\ gui' = p /\ UNCHANGED <<prev, counter, mode, posted, job>>
  BY DEF ToggleAll
<1>2. on \in BOOLEAN
  OBVIOUS
<1> HIDE DEF on
<1>3. /\ p \in Seq(CallSet) /\ DOMAIN p = 1..2
      /\ p[1].do = "changed" /\ p[2].do = "all"
  BY <1>2, CallMade
<1> HIDE DEF p
<1>4. rows \in GoodTables
  BY DEF Sound
<1>5. PICK n \in 0..Cameras : DOMAIN rows = 1..n /\ rows \in [1..n -> Row]
  BY <1>4, GoodTable
<1>6. ASSUME NEW i \in 1..n
      PROVE  rows'[i] \in Row /\ rows'[i].mac = rows[i].mac /\ rows'[i].busy = rows[i].busy
  <2>1. rows[i] \in Row /\ rows'[i] = [rows[i] EXCEPT !.sel = on]
    BY <1>1, <1>5
  <2> QED BY <1>2, <2>1 DEF Row
<1>7. rows' \in [1..n -> Row]
  <2>1. rows' = [i \in 1..n |-> rows'[i]]
    BY <1>1, <1>5
  <2> QED BY <1>6, <2>1
<1>8. rows' \in GoodTables /\ DOMAIN rows' = DOMAIN rows
  BY <1>4, <1>5, <1>6, <1>7, ChangedTable
<1>9. \A i \in DOMAIN rows : rows'[i].mac = rows[i].mac /\ rows'[i].busy = rows[i].busy
  BY <1>5, <1>6
<1>10. \A k \in DOMAIN p : p[k].do \notin {"launch", "apply"}
  BY <1>3
<1>11. 1 \in DOMAIN p /\ mode' \in {"mac", "selection"}
  BY <1>1, <1>3 DEF Sound, TypeOK
<1> QED BY <1>1, <1>3, <1>8, <1>9, <1>10, <1>11, EditStep

LEMMA ChooseModeSound == Sound /\ Click /\ ChooseMode => Sound'
<1> SUFFICES ASSUME Sound, Click, ChooseMode PROVE Sound'
  OBVIOUS
<1>1. /\ gui = <<>> /\ gui' = <<>> /\ mode' \in {"mac", "selection"}
      /\ UNCHANGED <<rows, prev, counter, posted, job>>
  BY DEF ChooseMode, table
<1>2. <<>> \in Seq(CallSet) /\ \A n \in DOMAIN <<>> : FALSE
  OBVIOUS
<1>3. rows' \in GoodTables
  BY <1>1 DEF Sound
<1> QED BY <1>1, <1>2, <1>3, EditStep

LEMMA ScanRequestedSound == Sound /\ Click /\ ScanRequested => Sound'
<1> SUFFICES ASSUME Sound, Click, ScanRequested PROVE Sound'
  OBVIOUS
<1> DEFINE c == Launch("scan", {})
<1>1. <<>> \in GoodTables
  BY EmptyTable
<1>2. c \in CallSet /\ c.do = "launch" /\ c.kind = "scan"
  BY CallMade
<1>3. /\ gui = <<>> /\ kind = "none" /\ gui' = <<Apply(<<>>), c>>
      /\ UNCHANGED <<table, mode, posted, job>>
  BY DEF ScanRequested
<1>4. ~AdminBusy
  BY <1>3 DEF AdminBusy
<1> HIDE DEF c
<1> QED BY <1>1, <1>2, <1>3, <1>4, SetStep

\* The rows are changed by _on_auto_fill_ip_requested in their addresses and marks
\* only.
LEMMA FilledTable ==
  ASSUME Sound, NEW base \in Address, base + Cardinality(Selected(rows)) - 1 <= Top
  PROVE  /\ Filled(base) \in GoodTables /\ DOMAIN Filled(base) = DOMAIN rows
         /\ \A i \in DOMAIN rows : /\ Filled(base)[i].mac = rows[i].mac
                                   /\ Filled(base)[i].sel = rows[i].sel
                                   /\ Filled(base)[i].ord = rows[i].ord
         /\ \A i \in Selected(rows) : Filled(base)[i].new = base + ModePlace(rows, i) - 1
<1> DEFINE q == Filled(base)
<1>1. rows \in GoodTables /\ rows \in LooseTables
  BY GoodIsLoose DEF Sound
<1>2. PICK n \in 0..Cameras : DOMAIN rows = 1..n /\ rows \in [1..n -> Row]
  BY <1>1, GoodTable
<1>3. \A i \in Selected(rows) : ModePlace(rows, i) \in 1..Cardinality(Selected(rows))
  BY <1>1, PlaceOfRow DEF ModePlace
<1>4. Cardinality(Selected(rows)) \in Nat
  BY <1>1, SelectedIsFinite, WindowAssumption
<1>5. DOMAIN q = 1..n /\ q = [i \in 1..n |-> q[i]]
  BY <1>2 DEF Filled
<1>6. ASSUME NEW i \in 1..n
      PROVE  /\ q[i] \in Row
             /\ q[i].mac = rows[i].mac /\ q[i].sel = rows[i].sel /\ q[i].ord = rows[i].ord
             /\ rows[i].sel => q[i].new = base + ModePlace(rows, i) - 1
  <2> DEFINE a == base + ModePlace(rows, i) - 1
  <2>1. rows[i] \in Row
    BY <1>2
  <2>2. q[i] = IF rows[i].sel THEN [rows[i] EXCEPT !.new = a, !.busy = FALSE] ELSE rows[i]
    BY <1>2 DEF Filled
  <2>3. rows[i].sel => a \in Address
    <3>1. rows[i].sel => ModePlace(rows, i) \in 1..Cardinality(Selected(rows))
      BY <1>2, <1>3 DEF Selected
    <3> HIDE DEF ModePlace, Selected
    <3> QED BY <1>4, <3>1, WindowAssumption DEF Address
  <2> HIDE DEF a, q
  <2>4. CASE rows[i].sel
    BY <2>1, <2>2, <2>3, <2>4 DEF Row, a
  <2>5. CASE ~rows[i].sel
    BY <2>1, <2>2, <2>5
  <2> QED BY <2>4, <2>5
<1> HIDE DEF q
<1>7. q \in [1..n -> Row]
  BY <1>5, <1>6
<1>8. q \in GoodTables
  BY <1>1, <1>2, <1>6, <1>7, ChangedTable
<1>9. \A i \in Selected(rows) : i \in 1..n /\ rows[i].sel
  BY <1>2 DEF Selected
<1> QED BY <1>2, <1>5, <1>6, <1>8, <1>9 DEF q

LEMMA AutoFillSound == Sound /\ Click /\ AutoFill => Sound'
<1> SUFFICES ASSUME Sound, Click, AutoFill PROVE Sound'
  OBVIOUS
<1>1. PICK base \in Address :
        /\ base + Cardinality(Selected(rows)) - 1 <= Top
        /\ gui' = <<Apply(Reordered(Filled(base))), Sync(Reordered(Filled(base)))>>
  BY DEF AutoFill
<1> DEFINE new == Reordered(Filled(base))
           c == Sync(new)
<1>2. new \in GoodTables
  <2>1. Filled(base) \in LooseTables
    BY <1>1, FilledTable, GoodIsLoose
  <2> QED BY <2>1, OrderedIsComplete DEF Reordered
<1>3. /\ gui = <<>> /\ ~AdminBusy /\ gui' = <<Apply(new), c>>
      /\ UNCHANGED <<table, mode, posted, job>>
  BY <1>1 DEF AutoFill
<1> HIDE DEF new
<1>4. c \in CallSet /\ c.do = "sync"
  BY <1>2, CallMade
<1> HIDE DEF c
<1> QED BY <1>2, <1>3, <1>4, SetStep

LEMMA RequestedSound ==
  ASSUME Sound, Click, NEW k \in {"setip", "reset"}, Requested(k)
  PROVE  Sound'
<1> DEFINE busy == [i \in DOMAIN rows |->
                      IF rows[i].sel THEN [rows[i] EXCEPT !.busy = TRUE] ELSE rows[i]]
           c == Launch(k, SelectedMacs(rows))
<1>1. /\ gui = <<>> /\ kind = "none" /\ gui' = <<Apply(busy), c>>
      /\ UNCHANGED <<table, mode, posted, job>>
  BY DEF Requested
<1>2. rows \in GoodTables
  BY DEF Sound
<1>3. PICK n \in 0..Cameras : DOMAIN rows = 1..n /\ rows \in [1..n -> Row]
  BY <1>2, GoodTable
<1>4. DOMAIN busy = 1..n /\ busy = [i \in 1..n |-> busy[i]]
  BY <1>3
<1>5. ASSUME NEW i \in 1..n
      PROVE  /\ busy[i] \in Row /\ busy[i].mac = rows[i].mac
             /\ rows[i].sel => busy[i].busy
  <2>1. rows[i] \in Row
    BY <1>3
  <2>2. busy[i] = IF rows[i].sel THEN [rows[i] EXCEPT !.busy = TRUE] ELSE rows[i]
    BY <1>3
  <2> HIDE DEF busy
  <2> QED BY <2>1, <2>2 DEF Row
<1>6. c \in CallSet /\ c.do = "launch" /\ c.targets = SelectedMacs(rows)
  BY <1>2, SelectedCameras, CallMade
<1> HIDE DEF busy, c
<1>7. busy \in GoodTables
  <2>1. busy \in [1..n -> Row]
    BY <1>4, <1>5
  <2> QED BY <1>2, <1>3, <1>5, <2>1, ChangedTable
<1>8. Shown(SelectedMacs(rows), busy)
  BY <1>3, <1>4, <1>5 DEF Shown, SelectedMacs, Selected
<1>9. ~AdminBusy
  BY <1>1 DEF AdminBusy
<1> QED BY <1>1, <1>6, <1>7, <1>8, <1>9, SetStep

LEMMA OperatorSound == Sound /\ Operator => Sound'
<1> SUFFICES ASSUME Sound, Operator PROVE Sound'
  OBVIOUS
<1>1. Click
  BY DEF Operator
<1>2. CASE Toggle
  BY <1>1, <1>2, ToggleSound
<1>3. CASE EditAddress
  BY <1>1, <1>3, EditAddressSound
<1>4. CASE ToggleAll
  BY <1>1, <1>4, ToggleAllSound
<1>5. CASE ChooseMode
  BY <1>1, <1>5, ChooseModeSound
<1>6. CASE ScanRequested
  BY <1>1, <1>6, ScanRequestedSound
<1>7. CASE AutoFill
  BY <1>1, <1>7, AutoFillSound
<1>8. CASE SetIpRequested
  BY <1>1, <1>8, RequestedSound DEF SetIpRequested
<1>9. CASE ResetRequested
  BY <1>1, <1>9, RequestedSound DEF ResetRequested
<1> QED BY <1>2, <1>3, <1>4, <1>5, <1>6, <1>7, <1>8, <1>9 DEF Operator

-----------------------------------------------------------------------------
\* The worker's thread keeps the invariant

\* A step of the worker: only its write of the rows concerns the table, and by
\* then no job waits for its marks.
LEMMA WorkStep ==
  ASSUME Sound, worker # "idle",
         worker' \in {"read", "set", "sync", "over"}, worker' = "read" => worker = "work",
         \/ rows' = rows /\ posted' = posted
         \/ rows' \in GoodTables /\ posted' = TRUE /\ worker' = "sync",
         prev' \in SUBSET Camera, update' \in GoodTables, answer' \in SUBSET targets,
         UNCHANGED <<counter, mode, gui, kind, targets, clicks>>
  PROVE  Sound'
<1>1. rows' \in GoodTables
  BY DEF Sound
<1>2. kind # "none" /\ \A n \in DOMAIN gui : gui[n].do # "launch"
  BY DEF Sound, WorkerFits, Queue
<1>3. TypeOK'
  <2>1. rows' \in Tables /\ update' \in Tables
    BY <1>1, GoodIsTyped
  <2>2. posted' \in BOOLEAN
    BY DEF Sound, TypeOK
  <2>3. worker' \in {"idle", "work", "read", "set", "sync", "over"}
    OBVIOUS
  <2> QED BY <2>1, <2>2, <2>3 DEF TypeOK, Sound
<1>4. Queue' /\ WorkerFits'
  BY <1>2 DEF Sound, Queue, WorkerFits
<1>5. Settles'
  BY DEF Sound, Settles
<1>6. Marked'
  <2>1. ASSUME NEW S \in SUBSET Camera, Due(S)'
        PROVE  Due(S) /\ rows' = rows /\ S = targets
    BY <1>2, <2>1 DEF Due, AdminBusy
  <2>2. JobIsShown'
    <3> SUFFICES ASSUME AdminBusy', worker' \in {"work", "read"}
                 PROVE  Shown(targets', rows')
      BY DEF JobIsShown, Shown
    <3>1. rows' = rows /\ AdminBusy /\ worker = "work"
      BY DEF AdminBusy
    <3> QED BY <3>1 DEF Sound, Marked, JobIsShown, Shown
  <2> QED BY <2>1, <2>2 DEF Sound, Marked, Doing
<1> QED BY <1>1, <1>3, <1>4, <1>5, <1>6 DEF Sound

LEMMA ScanAnswersSound == Sound /\ ScanAnswers => Sound'
<1> SUFFICES ASSUME Sound, ScanAnswers PROVE Sound'
  OBVIOUS
<1>0. PICK S \in SUBSET Camera : \E place \in [1..Cardinality(S) -> S] :
        /\ \A i, j \in DOMAIN place : place[i] = place[j] => i = j
        /\ update' = Ordered(TRUE,
             [i \in DOMAIN place |-> [mac |-> place[i], sel |-> TRUE, ord |-> NoOrder,
                                      new |-> NoAddress, busy |-> FALSE]])
  BY DEF ScanAnswers
<1>1. PICK place \in [1..Cardinality(S) -> S] :
        /\ \A i, j \in DOMAIN place : place[i] = place[j] => i = j
        /\ update' = Ordered(TRUE,
             [i \in DOMAIN place |-> [mac |-> place[i], sel |-> TRUE, ord |-> NoOrder,
                                      new |-> NoAddress, busy |-> FALSE]])
  BY <1>0
<1> DEFINE q == [i \in DOMAIN place |-> [mac |-> place[i], sel |-> TRUE, ord |-> NoOrder,
                                         new |-> NoAddress, busy |-> FALSE]]
<1>2. Cardinality(S) \in 0..Cameras
  <2>1. IsFiniteSet(Camera) /\ Cardinality(Camera) = Cameras
    BY FS_Interval, WindowAssumption DEF Camera
  <2>2. IsFiniteSet(S) /\ Cardinality(S) <= Cameras
    BY <2>1, FS_Subset
  <2> QED BY <2>2, FS_CardinalityType, WindowAssumption
<1>3. DOMAIN q = 1..Cardinality(S)
  OBVIOUS
<1>4. \A i \in 1..Cardinality(S) : q[i] \in LooseRow /\ q[i].mac = place[i]
  BY DEF LooseRow, NoOrder
<1>5. q = [i \in 1..Cardinality(S) |-> q[i]]
  OBVIOUS
<1>6. update' = Ordered(TRUE, q)
  BY <1>1
<1> HIDE DEF q
<1>7. q \in LooseTables
  <2>1. q \in [1..Cardinality(S) -> LooseRow]
    BY <1>4, <1>5
  <2>2. Distinct(q)
    BY <1>1, <1>3, <1>4 DEF Distinct
  <2> QED BY <1>2, <2>1, <2>2 DEF LooseTables
<1>8. update' \in GoodTables
  BY <1>6, <1>7, OrderedIsComplete
<1>9. /\ worker = "work" /\ worker' = "set"
      /\ UNCHANGED <<rows, prev, counter, mode, gui, posted, kind, targets, answer, clicks>>
  BY DEF ScanAnswers, table
<1>10. prev' \in SUBSET Camera /\ answer' \in SUBSET targets
  BY <1>9 DEF Sound, TypeOK
<1> QED BY <1>8, <1>9, <1>10, WorkStep

LEMMA ReadRowsSound == Sound /\ ReadRows => Sound'
<1> SUFFICES ASSUME Sound, ReadRows PROVE Sound'
  OBVIOUS
<1>1. update' = [i \in DOMAIN rows |->
                   IF rows[i].mac \in answer THEN [rows[i] EXCEPT !.busy = FALSE] ELSE rows[i]]
  BY DEF ReadRows
<1>2. rows \in GoodTables
  BY DEF Sound
<1>3. PICK n \in 0..Cameras : DOMAIN rows = 1..n /\ rows \in [1..n -> Row]
  BY <1>2, GoodTable
<1>4. \A i \in 1..n : update'[i] \in Row /\ update'[i].mac = rows[i].mac
  <2> TAKE i \in 1..n
  <2>1. rows[i] \in Row
    BY <1>3
  <2>2. update'[i] = IF rows[i].mac \in answer THEN [rows[i] EXCEPT !.busy = FALSE] ELSE rows[i]
    BY <1>1, <1>3
  <2> QED BY <2>1, <2>2 DEF Row
<1>5. update' = [i \in 1..n |-> update'[i]]
  BY <1>1, <1>3
<1>6. update' \in [1..n -> Row]
  BY <1>4, <1>5
<1>7. update' \in GoodTables
  BY <1>2, <1>3, <1>4, <1>6, ChangedTable
<1>8. /\ worker = "read" /\ worker' = "set"
      /\ UNCHANGED <<rows, prev, counter, mode, gui, posted, kind, targets, answer, clicks>>
  BY DEF ReadRows, table
<1>9. prev' \in SUBSET Camera /\ answer' \in SUBSET targets
  BY <1>8 DEF Sound, TypeOK
<1> QED BY <1>7, <1>8, <1>9, WorkStep

LEMMA WorkSound == Sound /\ Work => Sound'
<1> SUFFICES ASSUME Sound, Work PROVE Sound'
  OBVIOUS
<1>1. prev \in SUBSET Camera /\ answer \in SUBSET targets /\ update \in GoodTables
  BY DEF Sound, TypeOK
<1>2. CASE WorkFails
  <2>1. /\ worker = "work" /\ worker' = "over"
        /\ UNCHANGED <<rows, prev, counter, mode, gui, posted, kind, targets, answer, update, clicks>>
    BY <1>2 DEF WorkFails, table
  <2> QED BY <1>1, <2>1, WorkStep
<1>3. CASE ScanAnswers
  BY <1>3, ScanAnswersSound
<1>4. CASE JobAnswers
  <2>1. /\ worker = "work" /\ worker' = "read" /\ answer' \in SUBSET targets
        /\ UNCHANGED <<rows, prev, counter, mode, gui, posted, kind, targets, update, clicks>>
    BY <1>4 DEF JobAnswers, table
  <2> QED BY <1>1, <2>1, WorkStep
<1>5. CASE ReadRows
  BY <1>5, ReadRowsSound
<1>6. CASE SetRows
  <2>1. /\ worker = "set" /\ worker' = "sync" /\ rows' = update /\ posted' = TRUE
        /\ UNCHANGED <<prev, counter, mode, gui, kind, targets, answer, update, clicks>>
    BY <1>6 DEF SetRows
  <2> QED BY <1>1, <2>1, WorkStep
<1>7. CASE SlotSyncs
  <2>1. /\ worker = "sync" /\ worker' = "over"
        /\ prev' = SelectedMacs(update) /\ update' = <<>>
        /\ UNCHANGED <<rows, counter, mode, gui, posted, kind, targets, answer, clicks>>
    BY <1>7 DEF SlotSyncs
  <2>2. prev' \in SUBSET Camera /\ update' \in GoodTables
    BY <1>1, <2>1, SelectedCameras, EmptyTable
  <2> QED BY <1>1, <2>1, <2>2, WorkStep
<1> QED BY <1>2, <1>3, <1>4, <1>5, <1>6, <1>7 DEF Work

LEMMA DeliverPostedSound == Sound /\ DeliverPosted => Sound'
<1> SUFFICES ASSUME Sound, DeliverPosted PROVE Sound'
  OBVIOUS
<1>1. /\ gui = <<>> /\ gui' = <<Changed>> /\ posted' = FALSE
      /\ UNCHANGED <<rows, prev, counter, mode, kind, worker, targets, answer, update, clicks>>
  BY DEF DeliverPosted, table, job
<1>2. /\ gui' \in Seq(CallSet) /\ DOMAIN gui' = 1..1
      /\ gui'[1].do = "changed" /\ Head(gui').do = "changed"
  BY <1>1, CallMade
<1>3. TypeOK'
  <2>1. \A n \in DOMAIN gui' : gui'[n].do \in {"changed", "apply", "sync", "all", "launch"}
    BY <1>2, CallsTyped
  <2> QED BY <1>1, <2>1 DEF TypeOK, Sound
<1>4. Queue' /\ WorkerFits' /\ Settles'
  BY <1>1, <1>2 DEF Sound, Queue, WorkerFits, Settles
<1>5. Marked'
  <2>1. \A S \in SUBSET Camera : Due(S)' => Due(S)
    BY <1>1, <1>2 DEF Due, AdminBusy
  <2>2. ~Doing("apply") /\ ~Doing("apply")'
    BY <1>1, <1>2 DEF Doing
  <2>3. JobIsShown'
    BY <1>1 DEF Sound, Marked, JobIsShown, AdminBusy
  <2> QED BY <1>1, <2>1, <2>2, <2>3 DEF Sound, Marked
<1>6. rows' \in GoodTables /\ update' \in GoodTables
  BY <1>1 DEF Sound
<1> QED BY <1>3, <1>4, <1>5, <1>6, <1>2 DEF Sound

LEMMA CleanupSound == Sound /\ Cleanup => Sound'
<1> SUFFICES ASSUME Sound, Cleanup PROVE Sound'
  OBVIOUS
<1>1. /\ gui = <<>> /\ kind' = "none" /\ worker' = "idle" /\ targets' = {} /\ answer' = {}
      /\ clicks' = 0 /\ UNCHANGED <<rows, prev, counter, mode, gui, posted, update>>
  BY DEF Cleanup, table
<1>2. TypeOK'
  <2>1. targets' \in SUBSET Camera /\ answer' \in SUBSET targets' /\ clicks' \in 0..Overlap
    BY <1>1, WindowAssumption
  <2> QED BY <1>1, <2>1 DEF TypeOK, Sound
<1>3. Queue' /\ WorkerFits' /\ Settles'
  BY <1>1 DEF Sound, Queue, WorkerFits, Settles
<1>4. Marked'
  BY <1>1 DEF Marked, JobIsShown, AdminBusy, Due
<1>5. rows' \in GoodTables /\ update' \in GoodTables
  BY <1>1 DEF Sound
<1> QED BY <1>2, <1>3, <1>4, <1>5 DEF Sound

LEMMA StutterSound == Sound /\ UNCHANGED vars => Sound'
<1> SUFFICES ASSUME Sound, UNCHANGED vars PROVE Sound'
  OBVIOUS
<1>1. UNCHANGED <<rows, prev, counter, mode, gui, posted, kind, worker, targets, answer, update, clicks>>
  BY DEF vars, table, job
<1>2. TypeOK' /\ Queue' /\ WorkerFits' /\ Settles'
  BY <1>1 DEF Sound, TypeOK, Queue, WorkerFits, Settles
<1>3. Marked'
  BY <1>1 DEF Sound, Marked, JobIsShown, AdminBusy, Due, Doing
<1> QED BY <1>1, <1>2, <1>3 DEF Sound

LEMMA SoundAlways == Spec => []Sound
<1>1. Sound /\ [Next]_vars => Sound'
  BY OnRowsChangedSound, ApplyRowsSound, SyncPreviousSound, OnSelectAllToggledSound,
     LaunchWorkerSound, DeliverPostedSound, CleanupSound, OperatorSound, WorkSound,
     StutterSound
     DEF Next, Calls
<1> QED BY <1>1, InitSound, PTL DEF Spec

-----------------------------------------------------------------------------
\* The theorems

\* The window's table never holds more rows than cameras, an order beyond their
\* number or an address beyond the highest: what _on_auto_fill_ip_requested and
\* _on_rows_changed write stays in range.
THEOREM TypeCorrect == Spec => []TypeOK
<1>1. Sound => TypeOK
  BY DEF Sound
<1> QED BY <1>1, SoundAlways, PTL

\* At rest the selected rows are numbered 1 to n without gap or repetition: every
\* way in which the Qt thread or the slot of a worker writes rows or the map of
\* _sync_previous_selected_map leaves a rows_changed that renumbers all of them,
\* so that a stale map or a stale counter only costs the order among them.
THEOREM OrdersStayComplete == Spec => []OrdersComplete
<1>1. Sound => OrdersComplete
  <2> SUFFICES ASSUME Sound, gui = <<>>, ~posted PROVE Complete(rows)
    BY DEF OrdersComplete, Complete
  <2> QED BY NothingQueued
<1> QED BY <1>1, SoundAlways, PTL

\* While a setip or reset runs, each of its cameras has a row marked as being
\* changed: _on_setip_requested sets the marks before it starts the worker, and
\* neither a renumbering nor an edit takes one away before the results are read.
THEOREM JobStaysShown == Spec => []JobIsShown
<1>1. Sound => JobIsShown
  BY DEF Sound, Marked
<1> QED BY <1>1, SoundAlways, PTL

\* _on_auto_fill_ip_requested gives a row that comes later in the orders shown
\* afterwards a higher address: the renumbering that follows uses the same order
\* and the addresses it has written do not change it.
THEOREM FillsFollowOrder == Spec => FillFollowsOrder
<1> DEFINE InOrder == LET new == Head(gui').rows IN
             \A i, j \in Selected(new) : new[i].ord < new[j].ord => new[i].new < new[j].new
<1>1. ASSUME Sound, AutoFill PROVE InOrder
  <2>1. PICK base \in Address :
          /\ base + Cardinality(Selected(rows)) - 1 <= Top
          /\ gui' = <<Apply(Reordered(Filled(base))), Sync(Reordered(Filled(base)))>>
    BY <1>1 DEF AutoFill
  <2> DEFINE q == Filled(base)
             new == Reordered(q)
             byMac == mode = "mac"
  <2>2. rows \in LooseTables
    BY <1>1, GoodIsLoose DEF Sound
  <2>3. /\ q \in LooseTables /\ DOMAIN q = DOMAIN rows
        /\ \A i \in DOMAIN rows : /\ q[i].mac = rows[i].mac /\ q[i].sel = rows[i].sel
                                  /\ q[i].ord = rows[i].ord
        /\ \A i \in Selected(rows) : q[i].new = base + Place(byMac, rows, i) - 1
    BY <1>1, <2>1, FilledTable, GoodIsLoose DEF ModePlace
  <2>4. byMac \in BOOLEAN
    OBVIOUS
  <2>5. Head(gui').rows = new
    <3>1. Head(gui') = Apply(new)
      BY <2>1
    <3> QED BY <3>1 DEF Apply
  <2> HIDE DEF q, byMac
  <2>6. SameRows(new, q) /\ \A i \in Selected(q) : new[i].ord = Place(byMac, q, i)
    BY <2>3, <2>4, OrderedIsComplete DEF Reordered, byMac
  <2>7. Selected(q) = Selected(rows)
    BY <2>3 DEF Selected
  <2>8. \A i, j \in Selected(rows) : Before(byMac, q, j, i) <=> Before(byMac, rows, j, i)
    BY <2>3 DEF Before, ByMac, ByOrder, Rank, Selected
  <2>9. \A i \in Selected(rows) : Place(byMac, q, i) = Place(byMac, rows, i)
    <3> TAKE i \in Selected(rows)
    <3>1. UpTo(byMac, q, i) = UpTo(byMac, rows, i)
      BY <2>7, <2>8 DEF UpTo
    <3> QED BY <2>2, <2>3, <2>4, <2>7, <3>1, PlaceOfRow
  <2>10. Selected(new) = Selected(rows)
    BY <2>6, <2>7 DEF SameRows, Selected
  <2>11. \A i \in Selected(rows) :
           new[i].ord = Place(byMac, rows, i) /\ new[i].new = base + Place(byMac, rows, i) - 1
    BY <2>3, <2>6, <2>7, <2>9 DEF SameRows, Selected
  <2>12. \A i \in Selected(rows) : Place(byMac, rows, i) \in Nat
    <3>1. Cardinality(Selected(rows)) \in Nat
      BY <2>2, SelectedIsFinite, WindowAssumption
    <3> QED BY <2>2, <2>4, <3>1, PlaceOfRow
  <2>13. base \in Nat
    BY WindowAssumption DEF Address
  <2> HIDE DEF new
  <2> QED BY <2>5, <2>10, <2>11, <2>12, <2>13
<1>2. Sound /\ [Next]_vars => [AutoFill => InOrder]_vars
  BY <1>1
<1> QED BY <1>2, SoundAlways, PTL DEF Spec, FillFollowsOrder

=============================================================================
