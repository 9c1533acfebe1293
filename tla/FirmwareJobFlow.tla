-------------------------- MODULE FirmwareJobFlow --------------------------
(***************************************************************************)
(* What firmware mode promises of each of its jobs, whatever threads, time  *)
(* and batches do: the states of FirmwareJobState in the order of the flow, *)
(* a final verdict, and a success only for a device that was seen to leave  *)
(* after its upload and answered again later.                               *)
(***************************************************************************)
EXTENDS Naturals

CONSTANTS JobId  \* identities of firmware jobs

Window == {"rebooting", "reconnecting"}
Verdict == {"success", "failed"}

JobState == {"queued", "upload_pending", "uploading"} \cup Window \cup Verdict

VARIABLES
  state,  \* job -> FirmwareJobState, or "unused" before it is created
  away    \* jobs whose device was seen to leave since its upload

flowVars == <<state, away>>

In(from) == {j \in JobId : state[j] \in from}

Init ==
  /\ state = [j \in JobId |-> "unused"]
  /\ away = {}

\* A group of jobs moves together from one state to the next.
Move(js, from, to) ==
  /\ \A j \in js : state[j] \in from
  /\ state' = [j \in JobId |-> IF j \in js THEN to ELSE state[j]]

Create(js)  == Move(js, {"unused"}, "queued") /\ UNCHANGED away
Prepare(js) == Move(js, {"queued"}, "upload_pending") /\ UNCHANGED away
Begin(js)   == Move(js, {"upload_pending"}, "uploading") /\ UNCHANGED away

\* Uploads end: some were accepted, of some of these the connection dropped.
Uploaded(accepted, refused, dropped) ==
  /\ dropped \subseteq accepted
  /\ accepted \cup refused \subseteq In({"uploading"})
  /\ state' = [j \in JobId |-> IF j \in accepted THEN "rebooting"
                               ELSE IF j \in refused THEN "failed" ELSE state[j]]
  /\ away' = away \cup dropped

Unanswered(j) == Move({j}, Window, "reconnecting") /\ away' = away \cup {j}

StillThere(j) ==
  /\ j \notin away
  /\ Move({j}, Window, "reconnecting") /\ UNCHANGED away

Back(j) == j \in away /\ Move({j}, Window, "success") /\ UNCHANGED away

GiveUp(j) == Move({j}, Window, "failed") /\ UNCHANGED away

Next ==
  \/ \E js \in SUBSET JobId : Create(js) \/ Prepare(js) \/ Begin(js)
  \/ \E accepted, refused \in SUBSET In({"uploading"}) : \E dropped \in SUBSET accepted :
       Uploaded(accepted, refused, dropped)
  \/ \E j \in JobId : Unanswered(j) \/ StillThere(j) \/ Back(j) \/ GiveUp(j)

Spec == Init /\ [][Next]_flowVars

=============================================================================
