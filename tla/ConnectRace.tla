---------------------------- MODULE ConnectRace ----------------------------
(***************************************************************************)
(* What a race of connection attempts promises its caller: the result is   *)
(* an attempt that succeeded, or an error once every attempt has failed    *)
(* (or, with an overall deadline, once that has passed), and there is one  *)
(* result.  HappyEyeballs and PredictionProbe implement it.                *)
(***************************************************************************)
CONSTANTS
  Attempts,     \* the connection attempts of the race
  Deadline      \* whether the race as a whole may time out

VARIABLES
  fate,         \* attempt -> "pending", "ok" or "failed"
  result        \* "none", "error" or the winning attempt

vars == <<fate, result>>

Init ==
  /\ fate = [a \in Attempts |-> "pending"]
  /\ result = "none"

(* A pending attempt may be given up when the race is over.                *)
GivesUpPending ==
  /\ fate' \in [Attempts -> {"pending", "ok", "failed"}]
  /\ \A a \in Attempts : fate'[a] # fate[a] =>
       fate[a] = "pending" /\ fate'[a] = "failed"

Settle ==
  /\ result = "none"
  /\ \E a \in Attempts, f \in {"ok", "failed"} :
       fate[a] = "pending" /\ fate' = [fate EXCEPT ![a] = f]
  /\ UNCHANGED result

Win(a) ==
  /\ result = "none" /\ fate[a] = "ok"
  /\ result' = a
  /\ GivesUpPending

Fail ==
  /\ result = "none"
  /\ Deadline \/ \A a \in Attempts : fate[a] = "failed"
  /\ result' = "error"
  /\ GivesUpPending

Next == Settle \/ Fail \/ \E a \in Attempts : Win(a)

Spec == Init /\ [][Next]_vars

(* Attempts end by themselves, and the caller gets its result.             *)
Returns == <>(result # "none")
=============================================================================
