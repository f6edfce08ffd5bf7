---------------------------- MODULE CallOutcome -----------------------------
(***************************************************************************)
(* What one RPC call comes to, as its caller sees it, whatever the loop,   *)
(* the socket and the timer do in between.  A call is settled once: it is  *)
(* refused, its reply is taken, or it is cancelled by its timeout.  The    *)
(* reply of a cancelled call may still be taken; a call whose reply was    *)
(* taken is never cancelled.  The closure runs for the timeout and for a   *)
(* reply that is late, and so twice at most.                               *)
(***************************************************************************)
EXTENDS Naturals

VARIABLES outcome,  \* what became of the call
          told,     \* the error code in the caller's controller
          runs      \* how often the closure ran

Init == outcome = "open" /\ told = "0" /\ runs = 0

Refuse ==
  /\ outcome = "open" /\ outcome' = "refused"
  /\ told' \in {"ERROR_RPC_CHANNEL_INIT", "ERROR_FAILED_SERIALIZE"}
  /\ UNCHANGED runs

(* A reply leaves the code alone, unless it cannot be parsed. *)
Tell == told' \in {told, "ERROR_FAILED_SERIALIZE"}

Reply ==
  /\ outcome = "open" /\ outcome' = "replied"
  /\ Tell
  /\ UNCHANGED runs

TimeOut ==
  /\ outcome = "open" /\ outcome' = "cancelled"
  /\ told' = "ERROR_RPC_CALL_TIMEOUT"
  /\ runs' = runs + 1

LateReply ==
  /\ outcome = "cancelled" /\ outcome' = "late"
  /\ Tell
  /\ runs' = runs + 1

Next == Refuse \/ Reply \/ TimeOut \/ LateReply

Spec == Init /\ [][Next]_<<outcome, told, runs>>

(* The accounts of a call: what the code in the controller and the runs of *)
(* the closure say of its outcome.  A refused or replied call has run no   *)
(* closure, a cancelled one has run it once, a late one twice.             *)
Accounted ==
  \/ outcome = "open" /\ told = "0" /\ runs = 0
  \/ /\ outcome = "refused" /\ runs = 0
     /\ told \in {"ERROR_RPC_CHANNEL_INIT", "ERROR_FAILED_SERIALIZE"}
  \/ outcome = "replied" /\ told \in {"0", "ERROR_FAILED_SERIALIZE"} /\ runs = 0
  \/ outcome = "cancelled" /\ told = "ERROR_RPC_CALL_TIMEOUT" /\ runs = 1
  \/ /\ outcome = "late" /\ runs = 2
     /\ told \in {"ERROR_RPC_CALL_TIMEOUT", "ERROR_FAILED_SERIALIZE"}
=============================================================================
