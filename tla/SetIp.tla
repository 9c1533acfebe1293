-------------------------------- MODULE SetIp --------------------------------
(* SetIpService.change_ip_batch over run_setip: the addresses of several    *)
(* cameras are changed one after the other, each by a broadcast request     *)
(* that is preceded by the discovery request and followed by a wait for an  *)
(* acknowledgement.                                                         *)
(*                                                                          *)
(* Cameras and network are external: every camera that gets the discovery   *)
(* request announces itself, the one the request is for acknowledges it,    *)
(* and a datagram is lost, or arrives at any later time.                    *)
EXTENDS Naturals

CONSTANTS
  Targets,   \* cameras to change, in this order
  Others     \* further cameras on the network

Target == 1..Targets
Camera == 1..(Targets + Others)

VARIABLES
  changed,   \* cameras that got their request
  packets,   \* datagrams under way to the port: [cam, kind]
  stop,      \* what stop_requested() answers
  pc,
  cur,       \* item of the batch
  result     \* results, by camera

vars == <<changed, packets, stop, pc, cur, result>>

Init ==
  /\ changed = {} /\ packets = {}
  /\ stop = FALSE
  /\ pc = "item"
  /\ cur = 1
  /\ result = [c \in Target |-> "none"]

Answered(outcome) ==
  /\ result' = [result EXCEPT ![cur] = outcome]
  /\ cur' = cur + 1
  /\ pc' = "item"

\* REQ24 and then the request for cur; retries is 1.  Stopped before the first
\* attempt, or a socket or payload error: the item fails.
Send ==
  /\ pc = "item" /\ cur \in Target /\ ~stop
  /\ \/ \E heard \in SUBSET Camera, got \in BOOLEAN :
          /\ changed' = IF got THEN changed \cup {cur} ELSE changed
          /\ packets' = packets \cup {[cam |-> c, kind |-> "announce"] : c \in heard}
                                \cup {[cam |-> c, kind |-> "ack"] : c \in IF got THEN {cur} ELSE {}}
          /\ pc' = "wait"
          /\ UNCHANGED <<cur, result>>
     \/ Answered("failed") /\ UNCHANGED <<changed, packets>>
  /\ UNCHANGED stop

\* is_ack_packet: byte 5 is 0x15, in an acknowledgement and in an announcement.
IsAck(p) == p.kind \in {"ack", "announce"}

\* wait_ack; the sender's address is not looked at, and the stop only before a
\* packet is awaited.
WaitAck ==
  /\ pc = "wait"
  /\ \E p \in packets :
       /\ packets' = packets \ {p}
       /\ IF IsAck(p) THEN Answered("ok") ELSE UNCHANGED <<result, cur, pc>>
  /\ UNCHANGED <<changed, stop>>

NoAck ==
  /\ pc = "wait"
  /\ Answered("failed")
  /\ UNCHANGED <<changed, packets, stop>>

BatchEnds ==
  /\ pc = "item" /\ (cur \notin Target \/ stop)
  /\ pc' = "done"
  /\ UNCHANGED <<changed, packets, stop, cur, result>>

\* A datagram that nobody reads, or that is lost on its way
Lose ==
  /\ \E p \in packets : packets' = packets \ {p}
  /\ UNCHANGED <<changed, stop, pc, cur, result>>

RequestStop ==
  /\ pc # "done" /\ ~stop
  /\ stop' = TRUE
  /\ UNCHANGED <<changed, packets, pc, cur, result>>

Next == Send \/ WaitAck \/ NoAck \/ BatchEnds \/ Lose \/ RequestStop

Spec == Init /\ [][Next]_vars

\* A camera reported as ok got its request: the comment in change_ip calls the
\* acknowledgement "the request was delivered".
OkMeansDelivered == \A c \in Target : result[c] = "ok" => c \in changed

=============================================================================
