----------------------------- MODULE BatchReset -----------------------------
(* TruenResetService.reset_batch: one scan for all cameras, a sweep of     *)
(* reset keys that is broadcast to all of them at once, and then reset()   *)
(* for each camera the sweep did not settle.                               *)
(*                                                                         *)
(* The cameras and the network are external: any request may be lost.  The *)
(* window calls with ack_any_ip, so whatever device sends an               *)
(* acknowledgement (04 15) while one is awaited is taken at its word: the  *)
(* camera meant, another one, one that repeats itself, one that answers a  *)
(* call made earlier, or a device that was asked by somebody else.  Such a *)
(* datagram may arrive in every window, as often as the window admits.     *)
EXTENDS Naturals

CONSTANTS
  Targets,   \* cameras asked for, in this order; 12-digit MACs in the code
  Seeds      \* length of seed_offsets: 641

ASSUME ResetAssumption ==
  /\ Targets \in Nat \ {0}
  /\ Seeds \in Nat \ {0}

Camera == 1..Targets

VARIABLES
  asked,    \* cameras a reset request was sent to in this call
  wiped,    \* cameras that got one, and were reset
  stop,     \* what stop_requested() answers
  pc,
  hits,     \* cameras the scan found
  alive,    \* the cameras the current sweep round is for
  seed,     \* seed offsets tried
  cur,      \* camera of the single fallback
  result    \* results, by camera

vars == <<asked, wiped, stop, pc, hits, alive, seed, cur, result>>
cameras == <<asked, wiped>>

Phase == {"start", "scan", "sweep", "write", "ack", "fallback", "singleScan", "single",
          "singleWrite", "singleAck", "done", "raised"}
Writing == {"write", "singleWrite"}
Ended == {"done", "raised"}
\* ok, or the error_message: not processed, scan miss, udp reset failed, no ACK.
Outcome == {"unprocessed", "miss", "ok", "failed", "noack"}

Init ==
  /\ asked = {} /\ wiped = {}
  /\ stop = FALSE
  /\ pc = "start"
  /\ hits = {}
  /\ alive = {}
  /\ seed = 0
  /\ cur = 1
  /\ result = [c \in Camera |-> "unprocessed"]

-----------------------------------------------------------------------------
\* Cameras and network

\* The cameras in S are sent a request with their key; the ones that get it
\* are reset.
Request(S) ==
  /\ asked' = asked \cup S
  /\ \E got \in SUBSET S : wiped' = wiped \cup got

\* The worker's stop(), from the Qt thread.
RequestStop ==
  /\ pc \notin Ended
  /\ ~stop
  /\ stop' = TRUE
  /\ UNCHANGED <<cameras, pc, hits, alive, seed, cur, result>>

-----------------------------------------------------------------------------
\* The batch

\* Without an own address the call returns an empty result; a socket that
\* cannot be opened raises.
Start ==
  /\ pc = "start"
  /\ pc' \in {"scan", "done", "raised"}
  /\ UNCHANGED <<cameras, stop, hits, alive, seed, cur, result>>

Unsettled == {c \in hits : result[c] # "ok"}

\* scan_targets_batch; an AES backend that is missing raises.
Scan ==
  /\ pc = "scan"
  /\ \/ /\ pc' = "raised"
        /\ UNCHANGED <<hits, result>>
     \/ \E found \in SUBSET Camera :
          /\ hits' = found
          /\ result' = [c \in Camera |-> IF c \in found THEN result[c] ELSE "miss"]
          /\ pc' = IF found = {} THEN "fallback" ELSE "sweep"
  /\ UNCHANGED <<cameras, stop, alive, seed, cur>>

\* Mutant: one offset more than there are.
Sweep_OneMore ==
  /\ pc = "sweep"
  /\ ~stop /\ Unsettled # {} /\ seed <= Seeds
  /\ alive' = Unsettled
  /\ seed' = seed + 1
  /\ pc' = "write"
  /\ UNCHANGED <<cameras, stop, hits, cur, result>>

\* The next seed offset, for all cameras that are not settled.
Sweep ==
  /\ pc = "sweep"
  /\ ~stop /\ Unsettled # {} /\ seed < Seeds
  /\ alive' = Unsettled
  /\ seed' = seed + 1
  /\ pc' = "write"
  /\ UNCHANGED <<cameras, stop, hits, cur, result>>

\* Its requests; the stop is not looked at while they are sent.
Write ==
  /\ pc = "write"
  /\ Request(alive)
  /\ pc' = "ack"
  /\ UNCHANGED <<stop, hits, alive, seed, cur, result>>

SweepEnds ==
  /\ pc = "sweep"
  /\ stop \/ Unsettled = {} \/ seed = Seeds
  /\ pc' = "fallback"
  /\ alive' = {}
  /\ UNCHANGED <<cameras, stop, hits, seed, cur, result>>

\* Mutant: an acknowledgement counts for the first camera of the batch that
\* is not settled.
Credited_Batch == {c \in Camera : result[c] # "ok" /\ \A d \in Camera : result[d] # "ok" => c <= d}

\* The camera an acknowledgement counts for: the first of the round that is
\* not settled, whoever sent it.
Credited == {c \in alive : result[c] # "ok" /\ \A d \in alive : result[d] # "ok" => c <= d}

\* The stop is looked at before a packet is awaited, so it does not keep the
\* packet that comes next from counting.
ReceiveAck ==
  /\ pc = "ack"
  /\ Unsettled # {}
  /\ result' = [c \in Camera |-> IF c \in Credited THEN "ok" ELSE result[c]]
  /\ UNCHANGED <<cameras, stop, pc, hits, alive, seed, cur>>

\* The window is over, everything is settled, or the operator stopped it.
WindowCloses ==
  /\ pc = "ack"
  /\ pc' = "sweep"
  /\ UNCHANGED <<cameras, stop, hits, alive, seed, cur, result>>

-----------------------------------------------------------------------------
\* The single fallback: reset(), for one camera after the other

\* Mutant: a camera the scan missed is not tried again.
NextSingle_HitsOnly == {c \in hits : c >= cur /\ result[c] # "ok"}

\* The cameras reset() is still to be called for.
NextSingle == {c \in Camera : c >= cur /\ result[c] # "ok"}

\* reset() opens a second socket at the same port, outside its try block.
SingleStarts ==
  /\ pc = "fallback"
  /\ \E c \in NextSingle :
       /\ \A d \in NextSingle : c <= d
       /\ cur' = c
  /\ pc' \in {"singleScan", "raised"}
  /\ UNCHANGED <<cameras, stop, hits, alive, seed, result>>

BatchEnds ==
  /\ pc = "fallback"
  /\ NextSingle = {}
  /\ pc' = "done"
  /\ UNCHANGED <<cameras, stop, hits, alive, seed, cur, result>>

\* reset() returns for the current camera.
Settle(outcome) ==
  /\ result' = [result EXCEPT ![cur] = outcome]
  /\ cur' = cur + 1
  /\ pc' = "fallback"

\* scan_for_target or scan_for_target_with_hint
SingleHit ==
  /\ pc = "singleScan"
  /\ seed' = 0
  /\ pc' = "single"
  /\ UNCHANGED <<cameras, stop, hits, alive, cur, result>>

\* Not found in time, stopped, or any exception.
SingleMiss ==
  /\ pc = "singleScan"
  /\ Settle("failed")
  /\ UNCHANGED <<cameras, stop, hits, alive, seed>>

\* Mutant: the sweep of a single camera is not stopped.
SingleSweep_IgnoresStop ==
  /\ pc = "single"
  /\ seed < Seeds
  /\ seed' = seed + 1
  /\ pc' = "singleWrite"
  /\ UNCHANGED <<cameras, stop, hits, alive, cur, result>>

SingleSweep ==
  /\ pc = "single"
  /\ ~stop /\ seed < Seeds
  /\ seed' = seed + 1
  /\ pc' = "singleWrite"
  /\ UNCHANGED <<cameras, stop, hits, alive, cur, result>>

SingleWrite ==
  /\ pc = "singleWrite"
  /\ Request({cur})
  /\ pc' = "singleAck"
  /\ UNCHANGED <<stop, hits, alive, seed, cur, result>>

SingleGivesUp ==
  /\ pc = "single"
  /\ stop \/ seed = Seeds
  /\ Settle("noack")
  /\ UNCHANGED <<cameras, stop, hits, alive, seed>>

\* wait_for_ack_0415, for any sender
SingleAck ==
  /\ pc = "singleAck"
  /\ Settle("ok")
  /\ UNCHANGED <<cameras, stop, hits, alive, seed>>

\* Mutant: the offset that was not acknowledged is tried again.
SingleNoAck_SameOffset ==
  /\ pc = "singleAck"
  /\ pc' = "single"
  /\ seed' = seed - 1
  /\ UNCHANGED <<cameras, stop, hits, alive, cur, result>>

SingleNoAck ==
  /\ pc = "singleAck"
  /\ pc' = "single"
  /\ UNCHANGED <<cameras, stop, hits, alive, seed, cur, result>>

-----------------------------------------------------------------------------
Call ==
  \/ Start \/ Scan \/ Sweep \/ Write \/ SweepEnds \/ ReceiveAck \/ WindowCloses
  \/ SingleStarts \/ BatchEnds \/ SingleHit \/ SingleMiss
  \/ SingleSweep \/ SingleWrite \/ SingleGivesUp \/ SingleAck \/ SingleNoAck

Next == Call \/ RequestStop

Spec == Init /\ [][Next]_vars

\* Every wait has a deadline.
FairSpec == Spec /\ WF_vars(Call)

-----------------------------------------------------------------------------
\* Properties

TypeOK ==
  /\ asked \in SUBSET Camera /\ wiped \in SUBSET Camera
  /\ stop \in BOOLEAN
  /\ pc \in Phase
  /\ hits \in SUBSET Camera
  /\ alive \in SUBSET Camera
  /\ seed \in 0..Seeds
  /\ cur \in 1..(Targets + 1)
  /\ result \in [Camera -> Outcome]

Report(outcome) ==
  CASE outcome = "ok" -> "ok"
    [] outcome \in {"failed", "noack"} -> "failed"
    [] outcome \in {"unprocessed", "miss"} -> "open"

Promise == INSTANCE ResetPromise
  WITH report <- [c \in Camera |-> Report(result[c])]

\* The call keeps the promise of ResetPromise, whatever acknowledgements come:
\* each is counted for one camera at most, and for one that was sent a request;
\* what was reported is final, and no camera is reset after its report.
KeepsPromise == Promise!Spec

\* A call that returns from its sweep has an answer for every camera: none is
\* left as not processed or as a mere miss of the common scan.
EveryCameraAnswered ==
  pc = "done" /\ (\E c \in Camera : result[c] # "unprocessed") =>
    \A c \in Camera : result[c] \in {"ok", "failed", "noack"}

\* After the stop no further round of requests begins, neither in the sweep nor
\* in the fallback that still runs for every camera, and cameras are reset only
\* by the round that was being sent.
StopStopsResets ==
  [][stop => /\ wiped' = wiped \/ pc \in Writing
             /\ pc' \in Writing => pc' = pc]_vars

\* The call returns.
Returns == <>(pc \in Ended)

=============================================================================
