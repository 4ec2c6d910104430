-------------------------- MODULE CallStateMachine --------------------------
(***************************************************************************)
(* The call state machine of crates/voip-core/src/state.rs.  A transition  *)
(* method that answers Invalid changes nothing, so it is no action here.   *)
(***************************************************************************)
EXTENDS Integers

CONSTANTS
    Method,     \* ConnectionMethod
    Reason,     \* CallEndReason, with at least the two the machine itself sets
    None,
    MaxRetries  \* max_retries

ASSUME ReasonAssumption == {"Rejected", "Timeout"} \subseteq Reason
ASSUME NoneAssumption == None \notin Method /\ None \notin Reason
ASSUME RetriesAssumption == MaxRetries \in Nat

VARIABLES
    state,
    method,
    end_reason,
    retry_count,
    attempts     \* history: how often the call began to ring

vars == <<state, method, end_reason, retry_count, attempts>>

CallState == {"Idle", "Ringing", "Accepted", "Connected", "Failed", "Ended"}

TypeOK ==
    /\ state \in CallState
    /\ method \in Method \cup {None}
    /\ end_reason \in Reason \cup {None}
    /\ retry_count \in Nat
    /\ attempts \in Nat

Init ==
    /\ state = "Idle"
    /\ method = None
    /\ end_reason = None
    /\ retry_count = 0
    /\ attempts = 0

ring ==
    /\ state = "Idle"
    /\ state' = "Ringing"
    /\ attempts' = attempts + 1
    /\ UNCHANGED <<method, end_reason, retry_count>>

accept ==
    /\ state = "Ringing"
    /\ state' = "Accepted"
    /\ UNCHANGED <<method, end_reason, retry_count, attempts>>

connect(m) ==
    /\ state = "Accepted"
    /\ state' = "Connected"
    /\ method' = m
    /\ UNCHANGED <<end_reason, retry_count, attempts>>

end(reason) ==
    /\ state = "Connected"
    /\ state' = "Ended"
    /\ end_reason' = reason
    /\ UNCHANGED <<method, retry_count, attempts>>

\* Mutant of fail: a call that has ended can still fail.
fail_after_end(reason) ==
    /\ state # "Idle"
    /\ state' = "Failed"
    /\ end_reason' = reason
    /\ UNCHANGED <<method, retry_count, attempts>>

fail(reason) ==
    /\ state \in {"Ringing", "Accepted", "Connected"}
    /\ state' = "Failed"
    /\ end_reason' = reason
    /\ UNCHANGED <<method, retry_count, attempts>>

reject ==
    /\ state = "Ringing"
    /\ state' = "Failed"
    /\ end_reason' = "Rejected"
    /\ UNCHANGED <<method, retry_count, attempts>>

timeout ==
    /\ state \in {"Ringing", "Accepted"}
    /\ state' = "Failed"
    /\ end_reason' = "Timeout"
    /\ UNCHANGED <<method, retry_count, attempts>>

\* Mutant of retry: one attempt too many.
retry_off_by_one ==
    /\ state = "Failed"
    /\ retry_count <= MaxRetries
    /\ retry_count' = retry_count + 1
    /\ state' = "Ringing"
    /\ end_reason' = None
    /\ attempts' = attempts + 1
    /\ UNCHANGED method

\* Mutant of retry: the reason of the failed attempt is kept.
retry_keeps_reason ==
    /\ state = "Failed"
    /\ retry_count < MaxRetries
    /\ retry_count' = retry_count + 1
    /\ state' = "Ringing"
    /\ attempts' = attempts + 1
    /\ UNCHANGED <<method, end_reason>>

\* Mutant of retry: the counter counts down.
retry_counts_down ==
    /\ state = "Failed"
    /\ retry_count < MaxRetries
    /\ retry_count' = retry_count - 1
    /\ state' = "Ringing"
    /\ end_reason' = None
    /\ attempts' = attempts + 1
    /\ UNCHANGED method

retry ==
    /\ state = "Failed"
    /\ retry_count < MaxRetries
    /\ retry_count' = retry_count + 1
    /\ state' = "Ringing"
    /\ end_reason' = None
    /\ attempts' = attempts + 1
    /\ UNCHANGED method

Next ==
    \/ ring
    \/ accept
    \/ \E m \in Method : connect(m)
    \/ \E reason \in Reason : end(reason)
    \/ \E reason \in Reason : fail(reason)
    \/ reject
    \/ timeout
    \/ retry

Spec == Init /\ [][Next]_vars

-----------------------------------------------------------------------------
(* Properties *)

\* end_reason() answers a reason exactly when is_terminal() holds: no transition
\* reaches Failed or Ended without a reason, and no reason survives a retry.
ReasonIffTerminal == end_reason # None <=> state \in {"Failed", "Ended"}

\* A call rings once for ring() and once for every retry(), so that it is tried at
\* most MaxRetries + 1 times however the attempts fail.
AttemptsBounded ==
    /\ attempts = IF state = "Idle" THEN 0 ELSE retry_count + 1
    /\ attempts <= MaxRetries + 1

\* Ended admits no transition, and only retry() leaves Failed.
TerminalIsFinal ==
    [][/\ state # "Ended"
       /\ state = "Failed" => state' = "Ringing" /\ retry_count' = retry_count + 1]_vars

=============================================================================
