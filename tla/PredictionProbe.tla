-------------------------- MODULE PredictionProbe --------------------------
(***************************************************************************)
(* PortPredictionProber::probe_range (probe.rs): one attempt per port of   *)
(* the range, all at once, joined under an overall timeout.  Which ports   *)
(* those are is PortPrediction's matter.  The overall timer has the same   *)
(* length as each attempt's and starts just after them, so it may fire     *)
(* before or after their results are joined.                               *)
(***************************************************************************)
CONSTANT Ports          \* the ports of the range whose address parsed

VARIABLES
  pc,           \* "race" (joining), "timer" (nothing to join), "returned"
  attempt,      \* port -> state of its task
  timer,        \* whether the overall timeout has elapsed
  result        \* "none", "error" or the port that connected

vars == <<pc, attempt, timer, result>>

States == {"running", "some", "none", "joined", "aborted"}

Init ==
  /\ pc = "race"
  /\ attempt = [p \in Ports |-> "running"]
  /\ timer = FALSE
  /\ result = "none"

(* The spawned task ends: Some((port, conn)), or None on error or timeout. *)
Attempt(p) ==
  /\ attempt[p] = "running"
  /\ \E r \in {"some", "none"} : attempt' = [attempt EXCEPT ![p] = r]
  /\ UNCHANGED <<pc, timer, result>>

Elapse ==
  /\ pc # "returned" /\ ~timer
  /\ timer' = TRUE
  /\ UNCHANGED <<pc, attempt, result>>

abort_all == [p \in Ports |-> IF attempt[p] = "running" THEN "aborted" ELSE attempt[p]]

JoinSome(p) ==
  /\ pc = "race" /\ attempt[p] = "some"
  /\ result' = p
  /\ pc' = "returned"
  /\ attempt' = abort_all
  /\ UNCHANGED timer

JoinNone(p) ==
  /\ pc = "race" /\ attempt[p] = "none"
  /\ attempt' = [attempt EXCEPT ![p] = "joined"]
  /\ UNCHANGED <<pc, timer, result>>

AllPortsExhausted ==
  /\ pc = "race" /\ \A p \in Ports : attempt[p] = "joined"
  /\ result' = "error"
  /\ pc' = "returned"
  /\ UNCHANGED <<attempt, timer>>

(* timeout() polls the join loop first and then looks at the timer; a task *)
(* may finish in between.                                                  *)
PollPending ==
  /\ pc = "race"
  /\ \E p \in Ports : attempt[p] = "running"
  /\ \A p \in Ports : attempt[p] \in {"running", "joined"}
  /\ pc' = "timer"
  /\ UNCHANGED <<attempt, timer, result>>

ProbeTimeout_detached ==
  /\ pc = "timer"
  /\ IF timer THEN pc' = "returned" /\ result' = "error"
              ELSE pc' = "race" /\ UNCHANGED result
  /\ UNCHANGED <<attempt, timer>>

ProbeTimeout ==
  /\ pc = "timer"
  /\ IF timer THEN pc' = "returned" /\ result' = "error" /\ attempt' = abort_all
              ELSE pc' = "race" /\ UNCHANGED <<result, attempt>>
  /\ UNCHANGED timer

Next ==
  \/ Elapse \/ AllPortsExhausted \/ PollPending \/ ProbeTimeout
  \/ \E p \in Ports : Attempt(p) \/ JoinSome(p) \/ JoinNone(p)

(* Every attempt has its own timeout, the timer elapses and the caller is  *)
(* polled; polling with nothing new to see is not progress.                *)
Spec ==
  /\ Init /\ [][Next]_vars
  /\ WF_vars(Elapse) /\ WF_vars(AllPortsExhausted)
  /\ WF_vars(ProbeTimeout) /\ WF_vars(PollPending)
  /\ \A p \in Ports : /\ WF_vars(Attempt(p))
                      /\ WF_vars(JoinSome(p)) /\ WF_vars(JoinNone(p))

----------------------------------------------------------------------------
TypeOK ==
  /\ pc \in {"race", "timer", "returned"}
  /\ attempt \in [Ports -> States]
  /\ timer \in BOOLEAN
  /\ result \in {"none", "error"} \cup Ports

(* The result comes with the return.                                       *)
ResultOnReturn == pc # "returned" => result = "none"

(* Before the overall timer has elapsed the call fails only if every port  *)
(* was tried and none connected, and no attempt outlives the call.         *)
ErrorMeansExhausted ==
  /\ (result = "error" /\ ~timer) => \A p \in Ports : attempt[p] = "joined"
  /\ pc = "returned" => \A p \in Ports : attempt[p] # "running"

Fate(s) ==
  IF s = "running" THEN "pending" ELSE IF s = "some" THEN "ok" ELSE "failed"

Fates == [p \in Ports |-> Fate(attempt[p])]

(* probe.rs:59 "the first successful QUIC connection, or an error if all   *)
(* predicted ports are exhausted", or the overall timeout.                 *)
Race == INSTANCE ConnectRace WITH
  Attempts <- Ports, Deadline <- TRUE, fate <- Fates, result <- result

ImplementsRace == Race!Spec
=============================================================================
