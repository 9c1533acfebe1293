-------------------------- MODULE BatchReset_proofs --------------------------
(* Theorems of BatchReset and their proofs, for any number of cameras and   *)
(* seeds and any acknowledgements: the call keeps the promise of            *)
(* ResetPromise.                                                            *)
EXTENDS BatchReset, TLAPS

\* What is reset was asked, and whoever an acknowledgement can count for.
AskedFirst ==
  /\ wiped \subseteq asked
  /\ pc = "ack" => alive \subseteq asked
  /\ pc = "singleAck" => cur \in asked

\* Cameras before cur have their final result, the others have none but "ok".
Progress ==
  /\ pc \in {"start", "scan", "sweep", "write", "ack"} => cur = 1
  /\ pc \in {"start", "scan"} => \A c \in Camera : result[c] = "unprocessed"
  /\ pc = "write" => \A c \in alive : result[c] # "ok"
  /\ pc \in {"singleScan", "single", "singleWrite", "singleAck"} => cur \in Camera /\ result[cur] # "ok"
  /\ \A c \in Camera : IF c < cur THEN result[c] \in {"ok", "failed", "noack"}
                                  ELSE result[c] \in {"ok", "unprocessed", "miss"}

Inv ==
  /\ TypeOK
  /\ AskedFirst
  /\ Progress
  /\ EveryCameraAnswered

\* A step after the stop.
Stopped == stop => (wiped' = wiped \/ pc \in Writing) /\ (pc' \in Writing => pc' = pc)

\* What the caller is told so far, and of whom nothing is.
Reports == [c \in Camera |-> Report(result[c])]
Open == {c \in Camera : Reports[c] = "open"}

\* A step of the promise, or none.
Kept ==
  \/ UNCHANGED cameras /\ Reports' = Reports
  \/ /\ \E S \in SUBSET Open :
          /\ asked' = asked \cup S
          /\ \E got \in SUBSET S : wiped' = wiped \cup got
     /\ Reports' = Reports
  \/ /\ UNCHANGED cameras
     /\ \E c \in Open \cap asked : Reports' = [Reports EXCEPT ![c] = "ok"]
  \/ /\ UNCHANGED cameras
     /\ \E c \in Open : Reports' = [Reports EXCEPT ![c] = "failed"]

-----------------------------------------------------------------------------
LEMMA SameReports == result' = result => Reports' = Reports
BY DEF Reports

\* What is open, in terms of results.
LEMMA OpenReports ==
  ASSUME Inv, NEW c \in Camera, c >= cur, result[c] # "ok"
  PROVE  c \in Open
<1>1. cur \in Nat /\ c \in Nat /\ ~(c < cur)
  BY DEF Inv, TypeOK, Camera
<1>2. result[c] \in {"unprocessed", "miss"}
  BY <1>1 DEF Inv, Progress
<1>3. Report(result[c]) = "open"
  BY <1>2 DEF Report
<1> QED BY <1>3 DEF Reports, Open

\* The result of one camera that was open becomes ok or a failure.
LEMMA ReportOf ==
  ASSUME NEW c \in Camera, NEW outcome \in {"ok", "failed", "noack"},
         result \in [Camera -> Outcome], result' = [result EXCEPT ![c] = outcome]
  PROVE  Reports' = [Reports EXCEPT ![c] = IF outcome = "ok" THEN "ok" ELSE "failed"]
<1>1. Report(outcome) = IF outcome = "ok" THEN "ok" ELSE "failed"
  BY DEF Report
<1>2. \A d \in Camera : result'[d] = IF d = c THEN outcome ELSE result[d]
  OBVIOUS
<1>3. Reports' = [d \in Camera |-> Report(result'[d])]
  BY DEF Reports
<1>4. [Reports EXCEPT ![c] = IF outcome = "ok" THEN "ok" ELSE "failed"]
        = [d \in Camera |-> IF d = c THEN Report(outcome) ELSE Report(result[d])]
  BY <1>1 DEF Reports
<1> QED BY <1>2, <1>3, <1>4

-----------------------------------------------------------------------------
\* Each step preserves the invariant and keeps the promise

\* Steps that leave cameras and results alone.
LEMMA QuietStep ==
  ASSUME Inv, UNCHANGED <<cameras, result>>, TypeOK', AskedFirst', Progress', EveryCameraAnswered'
  PROVE  Inv' /\ Kept /\ wiped' = wiped
BY SameReports DEF Inv, Kept, cameras

LEMMA ControlSteps ==
  ASSUME Inv,
         \/ Start \/ SweepEnds \/ WindowCloses \/ SingleStarts \/ BatchEnds
         \/ SingleHit \/ SingleNoAck \/ RequestStop
  PROVE  Inv' /\ Kept /\ wiped' = wiped
<1> USE DEF Inv, TypeOK, Phase, Ended, AskedFirst, cameras
<1>1. CASE Start
  <2>1. TypeOK' /\ AskedFirst' /\ Progress' /\ EveryCameraAnswered'
    BY <1>1, ResetAssumption DEF Start, Progress, EveryCameraAnswered
  <2> QED BY <1>1, <2>1, QuietStep DEF Start
<1>2. CASE SweepEnds \/ WindowCloses \/ SingleHit \/ SingleNoAck \/ RequestStop
  <2>1. alive' \in SUBSET Camera /\ seed' \in 0..Seeds /\ pc' \in Phase /\ stop' \in BOOLEAN
    <3>1. alive' \in SUBSET Camera
      BY <1>2 DEF SweepEnds, WindowCloses, SingleHit, SingleNoAck, RequestStop
    <3>2. seed' = seed \/ seed' = 0
      BY <1>2 DEF SweepEnds, WindowCloses, SingleHit, SingleNoAck, RequestStop
    <3>3. seed' \in 0..Seeds
      BY <3>2, ResetAssumption
    <3>4. pc' \in Phase /\ stop' \in BOOLEAN
      BY <1>2 DEF SweepEnds, WindowCloses, SingleHit, SingleNoAck, RequestStop
    <3> QED BY <3>1, <3>3, <3>4
  <2>2. UNCHANGED <<cameras, hits, cur, result>>
    BY <1>2 DEF SweepEnds, WindowCloses, SingleHit, SingleNoAck, RequestStop
  <2>3. TypeOK'
    BY <2>1, <2>2
  <2>4. AskedFirst' /\ Progress' /\ EveryCameraAnswered'
    BY <1>2, <2>2
       DEF SweepEnds, WindowCloses, SingleHit, SingleNoAck, RequestStop, Progress, EveryCameraAnswered
  <2> QED BY <2>2, <2>3, <2>4, QuietStep
<1>3. CASE SingleStarts
  <2>1. /\ cur' \in NextSingle /\ \A d \in NextSingle : cur' <= d
        /\ pc' \in {"singleScan", "raised"}
        /\ UNCHANGED <<cameras, stop, hits, alive, seed, result>>
    BY <1>3 DEF SingleStarts
  <2>2. cur' \in Camera /\ cur' >= cur /\ result[cur'] # "ok" /\ cur' \in 1..(Targets + 1)
    BY <2>1, ResetAssumption DEF NextSingle, Camera
  <2>3. \A c \in Camera : c >= cur /\ c < cur' => result[c] = "ok"
    <3> TAKE c \in Camera
    <3> HAVE c >= cur /\ c < cur'
    <3>1. c \notin NextSingle
      BY <2>1, <2>2 DEF Camera
    <3> QED BY <3>1 DEF NextSingle
  <2>4. Progress'
    <3>1. \A c \in Camera : IF c < cur' THEN result[c] \in {"ok", "failed", "noack"}
                                        ELSE result[c] \in {"ok", "unprocessed", "miss"}
      BY <2>2, <2>3 DEF Progress, Camera
    <3> QED BY <2>1, <2>2, <3>1 DEF Progress
  <2>5. TypeOK' /\ AskedFirst' /\ EveryCameraAnswered'
    BY <2>1, <2>2 DEF EveryCameraAnswered
  <2> QED BY <2>1, <2>4, <2>5, QuietStep
<1>4. CASE BatchEnds
  <2>1. /\ NextSingle = {} /\ pc' = "done"
        /\ UNCHANGED <<cameras, stop, hits, alive, seed, cur, result>>
    BY <1>4 DEF BatchEnds
  <2>2. \A c \in Camera : result[c] \in {"ok", "failed", "noack"}
    <3> TAKE c \in Camera
    <3>1. CASE c >= cur
      BY <2>1, <3>1 DEF NextSingle
    <3>2. CASE c < cur
      BY <3>2 DEF Progress
    <3> QED BY <3>1, <3>2 DEF Camera
  <2>3. TypeOK' /\ AskedFirst' /\ Progress' /\ EveryCameraAnswered'
    BY <2>1, <2>2 DEF Progress, EveryCameraAnswered
  <2> QED BY <2>1, <2>3, QuietStep
<1> QED BY <1>1, <1>2, <1>3, <1>4

LEMMA ScanStep ==
  ASSUME Inv, Scan
  PROVE  Inv' /\ Kept /\ wiped' = wiped
<1>1. pc = "scan" /\ UNCHANGED <<cameras, stop, alive, seed, cur>> /\ cur = 1
  BY DEF Scan, Inv, Progress
<1>2. CASE pc' = "raised" /\ UNCHANGED <<hits, result>>
  <2>1. TypeOK' /\ AskedFirst' /\ Progress' /\ EveryCameraAnswered'
    BY <1>1, <1>2 DEF Inv, TypeOK, AskedFirst, Phase, Progress, EveryCameraAnswered, cameras
  <2> QED BY <1>1, <1>2, <2>1, QuietStep
<1>3. ASSUME NEW found \in SUBSET Camera,
             hits' = found,
             result' = [c \in Camera |-> IF c \in found THEN result[c] ELSE "miss"],
             pc' = IF found = {} THEN "fallback" ELSE "sweep"
      PROVE  Inv' /\ Kept
  <2>1. \A c \in Camera : result[c] = "unprocessed"
    BY <1>1 DEF Inv, Progress
  <2>2. TypeOK' /\ AskedFirst'
    BY <1>1, <1>3 DEF Inv, TypeOK, AskedFirst, Phase, Outcome, cameras
  <2>3. Progress' /\ EveryCameraAnswered'
    BY <1>1, <1>3, <2>1 DEF Inv, Progress, EveryCameraAnswered, Camera
  <2>4. Reports' = Reports
    <3>1. \A c \in Camera : Report(result'[c]) = Report(result[c])
      BY <1>3, <2>1 DEF Report
    <3> QED BY <3>1 DEF Reports
  <2> QED BY <1>1, <2>2, <2>3, <2>4 DEF Inv, Kept
<1> QED BY <1>1, <1>2, <1>3 DEF Scan, cameras

\* A round begins: nobody is asked yet.
LEMMA RoundStep ==
  ASSUME Inv, Sweep \/ SingleSweep
  PROVE  Inv' /\ Kept /\ wiped' = wiped /\ ~stop
<1>1. seed' \in 0..Seeds
  BY ResetAssumption DEF Inv, TypeOK, Sweep, SingleSweep
<1>2. CASE Sweep
  <2>1. Unsettled \in SUBSET Camera /\ \A c \in Unsettled : result[c] # "ok"
    BY DEF Unsettled, Inv, TypeOK
  <2>2. TypeOK' /\ AskedFirst' /\ Progress' /\ EveryCameraAnswered'
    BY <1>1, <1>2, <2>1
       DEF Sweep, Inv, TypeOK, AskedFirst, Phase, Progress, EveryCameraAnswered, cameras
  <2> QED BY <1>2, <2>2, QuietStep DEF Sweep
<1>3. CASE SingleSweep
  <2>1. TypeOK' /\ AskedFirst' /\ Progress' /\ EveryCameraAnswered'
    BY <1>1, <1>3
       DEF SingleSweep, Inv, TypeOK, AskedFirst, Phase, Progress, EveryCameraAnswered, cameras
  <2> QED BY <1>3, <2>1, QuietStep DEF SingleSweep
<1> QED BY <1>2, <1>3

\* Its requests are sent to cameras that are open.
LEMMA WriteKeeps ==
  ASSUME Inv, NEW S \in SUBSET Camera, Request(S), \A c \in S : c >= cur /\ result[c] # "ok",
         pc' \in {"ack", "singleAck"}, pc' = "ack" => cur = 1 /\ alive = S,
         pc' = "singleAck" => cur \in S,
         UNCHANGED <<stop, hits, alive, seed, cur, result>>
  PROVE  Inv' /\ Kept
<1>1. S \in SUBSET Open
  BY OpenReports
<1>2. PICK got \in SUBSET S : wiped' = wiped \cup got
  BY DEF Request
<1>3. asked' = asked \cup S
  BY DEF Request
<1>4. Kept
  BY <1>1, <1>2, <1>3, SameReports DEF Kept
<1>5. TypeOK' /\ AskedFirst'
  BY <1>2, <1>3 DEF Inv, TypeOK, AskedFirst, Phase
<1>6. Progress' /\ EveryCameraAnswered'
  BY DEF Inv, Progress, EveryCameraAnswered
<1> QED BY <1>4, <1>5, <1>6 DEF Inv

LEMMA WriteStep ==
  ASSUME Inv, Write \/ SingleWrite
  PROVE  Inv' /\ Kept /\ pc \in Writing /\ pc' \notin Writing
<1>1. CASE Write
  <2>1. /\ pc = "write" /\ Request(alive) /\ pc' = "ack"
        /\ UNCHANGED <<stop, hits, alive, seed, cur, result>>
    BY <1>1 DEF Write
  <2>2. cur = 1 /\ alive \in SUBSET Camera /\ \A c \in alive : c >= cur /\ result[c] # "ok"
    BY <2>1 DEF Inv, TypeOK, Progress, Camera
  <2> QED BY <2>1, <2>2, WriteKeeps DEF Writing
<1>2. CASE SingleWrite
  <2>1. /\ pc = "singleWrite" /\ Request({cur}) /\ pc' = "singleAck"
        /\ UNCHANGED <<stop, hits, alive, seed, cur, result>>
    BY <1>2 DEF SingleWrite
  <2>2. cur \in Camera /\ result[cur] # "ok" /\ {cur} \in SUBSET Camera
    BY <2>1 DEF Inv, Progress
  <2>3. \A c \in {cur} : c >= cur /\ result[c] # "ok"
    BY <2>2 DEF Camera
  <2> QED BY <2>1, <2>2, <2>3, WriteKeeps DEF Writing
<1> QED BY <1>1, <1>2

\* An acknowledgement counts for nobody or for one camera, which is open.
LEMMA CreditedOne ==
  ASSUME Inv
  PROVE  Credited = {} \/ \E c \in alive : Credited = {c} /\ result[c] # "ok"
<1>1. alive \subseteq Camera
  BY DEF Inv, TypeOK
<1>2. \A c, d \in Credited : c = d
  BY <1>1 DEF Credited, Camera
<1>3. \A c \in Credited : c \in alive /\ result[c] # "ok"
  BY DEF Credited
<1> QED BY <1>2, <1>3

LEMMA ReceiveStep ==
  ASSUME Inv, ReceiveAck
  PROVE  Inv' /\ Kept /\ wiped' = wiped
<1>1. /\ pc = "ack" /\ cur = 1
      /\ result' = [c \in Camera |-> IF c \in Credited THEN "ok" ELSE result[c]]
      /\ UNCHANGED <<cameras, stop, pc, hits, alive, seed, cur>>
  BY DEF ReceiveAck, Inv, Progress
<1>2. result \in [Camera -> Outcome] /\ alive \subseteq Camera /\ alive \subseteq asked
  BY <1>1 DEF Inv, TypeOK, AskedFirst
<1>3. CASE Credited = {}
  <2>1. result' = result
    BY <1>1, <1>2, <1>3
  <2>2. TypeOK' /\ AskedFirst' /\ Progress' /\ EveryCameraAnswered'
    BY <1>1, <2>1 DEF Inv, TypeOK, AskedFirst, Progress, EveryCameraAnswered, cameras
  <2> QED BY <1>1, <2>1, <2>2, QuietStep
<1>4. ASSUME NEW c \in alive, Credited = {c}, result[c] # "ok"
      PROVE  Inv' /\ Kept
  <2>1. c \in Camera /\ c \in asked
    BY <1>2
  <2>2. result' = [result EXCEPT ![c] = "ok"]
    BY <1>1, <1>2, <1>4, <2>1
  <2>3. TypeOK' /\ AskedFirst'
    BY <1>1, <1>2, <2>2 DEF Inv, TypeOK, AskedFirst, Outcome, cameras
  <2>4. Progress' /\ EveryCameraAnswered'
    BY <1>1, <1>2, <2>2 DEF Inv, Progress, EveryCameraAnswered
  <2>5. Reports' = [Reports EXCEPT ![c] = "ok"]
    BY <1>2, <2>1, <2>2, ReportOf
  <2>6. c \in Open
    BY <1>1, <1>4, <2>1, OpenReports DEF Camera
  <2> QED BY <1>1, <2>1, <2>3, <2>4, <2>5, <2>6 DEF Inv, Kept
<1> QED BY <1>1, <1>3, <1>4, CreditedOne DEF cameras

\* reset() returns for the current camera.
LEMMA SettleKeeps ==
  ASSUME Inv, NEW outcome \in {"ok", "failed", "noack"}, Settle(outcome),
         pc \in {"singleScan", "single", "singleAck"},
         UNCHANGED <<cameras, stop, hits, alive, seed>>,
         outcome = "ok" => pc = "singleAck"
  PROVE  Inv' /\ Kept /\ wiped' = wiped
<1>1. result' = [result EXCEPT ![cur] = outcome] /\ cur' = cur + 1 /\ pc' = "fallback"
  BY DEF Settle
<1>2. cur \in Camera /\ result[cur] # "ok" /\ result \in [Camera -> Outcome]
  BY DEF Inv, Progress, TypeOK
<1>3. TypeOK' /\ AskedFirst'
  <2>1. cur' \in 1..(Targets + 1)
    BY <1>1, <1>2, ResetAssumption DEF Camera
  <2>2. result' \in [Camera -> Outcome]
    BY <1>1, <1>2 DEF Outcome
  <2> QED BY <1>1, <2>1, <2>2 DEF Inv, TypeOK, AskedFirst, Phase, cameras
<1>4. Progress' /\ EveryCameraAnswered'
  BY <1>1, <1>2, ResetAssumption DEF Inv, Progress, EveryCameraAnswered, Camera
<1>5. Reports' = [Reports EXCEPT ![cur] = IF outcome = "ok" THEN "ok" ELSE "failed"]
  BY <1>1, <1>2, ReportOf
<1>6. cur \in Open
  BY <1>2, OpenReports DEF Camera
<1>7. outcome = "ok" => cur \in asked
  BY DEF Inv, AskedFirst
<1> QED BY <1>3, <1>4, <1>5, <1>6, <1>7 DEF Inv, Kept, cameras

LEMMA SettlingSteps ==
  ASSUME Inv, SingleMiss \/ SingleGivesUp \/ SingleAck
  PROVE  Inv' /\ Kept /\ wiped' = wiped
BY SettleKeeps DEF SingleMiss, SingleGivesUp, SingleAck

-----------------------------------------------------------------------------
\* Theorems

LEMMA InitInv == Init => Inv
<1> SUFFICES ASSUME Init PROVE Inv
  OBVIOUS
<1>1. TypeOK
  <2>1. result \in [Camera -> Outcome]
    BY DEF Init, Outcome
  <2>2. cur \in 1..(Targets + 1) /\ seed \in 0..Seeds
    BY ResetAssumption DEF Init
  <2> QED BY <2>1, <2>2 DEF Init, TypeOK, Phase
<1>2. AskedFirst /\ Progress /\ EveryCameraAnswered
  BY DEF Init, AskedFirst, Progress, EveryCameraAnswered, Camera
<1> QED BY <1>1, <1>2 DEF Inv

LEMMA Step ==
  ASSUME Inv, Next
  PROVE  Inv' /\ Kept /\ Stopped
<1>1. CASE Sweep \/ SingleSweep
  BY <1>1, RoundStep DEF Stopped
<1>2. CASE Write \/ SingleWrite
  BY <1>2, WriteStep DEF Stopped
<1>3. CASE \/ Start \/ SweepEnds \/ WindowCloses \/ SingleStarts \/ BatchEnds
           \/ SingleHit \/ SingleNoAck \/ RequestStop
  <2>1. pc' \in Writing => pc' = pc
    BY <1>3 DEF Start, SweepEnds, WindowCloses, SingleStarts, BatchEnds, SingleHit, SingleNoAck,
                RequestStop, Writing
  <2> QED BY <1>3, <2>1, ControlSteps DEF Stopped
<1>4. CASE Scan \/ ReceiveAck \/ SingleMiss \/ SingleGivesUp \/ SingleAck
  <2>1. pc' \in Writing => pc' = pc
    BY <1>4 DEF Scan, ReceiveAck, SingleMiss, SingleGivesUp, SingleAck, Settle, Writing
  <2> QED BY <1>4, <2>1, ScanStep, ReceiveStep, SettlingSteps DEF Stopped
<1> QED BY <1>1, <1>2, <1>3, <1>4 DEF Next, Call

LEMMA SpecInv == Spec => []Inv
<1>1. Inv /\ UNCHANGED vars => Inv'
  BY DEF vars, Inv, TypeOK, AskedFirst, Progress, EveryCameraAnswered
<1>2. Inv /\ [Next]_vars => Inv'
  BY <1>1, Step
<1> QED BY InitInv, <1>2, PTL DEF Spec

\* Every variable keeps its type; in particular no seed offset is tried twice
\* and the fallback never runs past the last camera.
THEOREM TypeCorrect == Spec => []TypeOK
<1>1. Inv => TypeOK
  BY DEF Inv
<1> QED BY SpecInv, <1>1, PTL

\* A call that returns from its sweep has an answer for every camera.
THEOREM AllAnswered == Spec => []EveryCameraAnswered
<1>1. Inv => EveryCameraAnswered
  BY DEF Inv
<1> QED BY SpecInv, <1>1, PTL

\* After the stop no further round of requests begins, and no camera is reset
\* but by the round that was being sent.
THEOREM StopHolds == Spec => StopStopsResets
<1>1. Inv /\ [Next]_vars => [stop => /\ wiped' = wiped \/ pc \in Writing
                                     /\ pc' \in Writing => pc' = pc]_vars
  BY Step DEF Stopped
<1> QED BY SpecInv, <1>1, PTL DEF Spec, StopStopsResets

\* The call implements ResetPromise, whatever acknowledgements arrive and from
\* whom: every step is one of its steps or none.
THEOREM Refinement == Spec => KeepsPromise
<1>1. Init => Promise!Init
  BY DEF Init, Promise!Init, Report
<1>2. Inv /\ [Next]_vars => [Promise!Next]_<<asked, wiped, Reports>>
  <2> SUFFICES ASSUME Inv, [Next]_vars
               PROVE  [Promise!Next]_<<asked, wiped, Reports>>
    OBVIOUS
  <2>1. CASE UNCHANGED vars
    BY <2>1, SameReports DEF vars
  <2>2. CASE Next
    <3>1. Kept
      BY <2>2, Step
    <3>2. Promise!Open = Open
      BY DEF Promise!Open, Reports, Open
    <3>3. Promise!Next \/ UNCHANGED <<asked, wiped, Reports>>
      BY <3>1, <3>2
         DEF Kept, Reports, cameras, Promise!Next, Promise!Ask, Promise!ReportReset, Promise!ReportFailure
    <3> QED BY <3>3
  <2> QED BY <2>1, <2>2
<1>3. Inv /\ [Next]_vars
        => [Promise!Next]_<<asked, wiped, [c \in Camera |-> Report(result[c])]>>
  BY <1>2 DEF Reports
<1> QED BY <1>1, <1>3, SpecInv, PTL DEF Spec, KeepsPromise, Promise!Spec

=============================================================================
