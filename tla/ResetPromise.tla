---------------------------- MODULE ResetPromise ----------------------------
(* What reset_batch promises its caller, without the protocol: a camera is  *)
(* reset only when it was sent a request, and only while nothing has been   *)
(* reported of it; each camera gets its report once and on its own, and     *)
(* none is reported as reset that this call did not ask.  That it was reset *)
(* indeed is no promise: any acknowledgement on the port counts.            *)
CONSTANT Camera

VARIABLES
  asked,   \* cameras a request was sent to
  wiped,   \* cameras that were reset
  report   \* what the caller is told of each camera

Open == {c \in Camera : report[c] = "open"}

Init ==
  /\ asked = {}
  /\ wiped = {}
  /\ report = [c \in Camera |-> "open"]

\* One round of reset requests, some of which arrive.
Ask ==
  /\ \E S \in SUBSET Open :
       /\ asked' = asked \cup S
       /\ \E got \in SUBSET S : wiped' = wiped \cup got
  /\ UNCHANGED report

ReportReset ==
  /\ \E c \in Open \cap asked : report' = [report EXCEPT ![c] = "ok"]
  /\ UNCHANGED <<asked, wiped>>

ReportFailure ==
  /\ \E c \in Open : report' = [report EXCEPT ![c] = "failed"]
  /\ UNCHANGED <<asked, wiped>>

Next == Ask \/ ReportReset \/ ReportFailure

Spec == Init /\ [][Next]_<<asked, wiped, report>>

=============================================================================
