----------------------------- MODULE CallParts -----------------------------
(* The retries, the wire format and the migration as parts of MCCalls, kept  *)
(* apart from the others so that their proofs need not see those.            *)
EXTENDS Naturals

CONSTANTS
  MaxAttempts, Initial, Multiplier, MaxResets, MaxTasks,    \* of RetryScheduler
  NewMembers,                                               \* of WireTrip
  Handlers, Events, Timeout, MaxTime                        \* of Migration

VARIABLES
  enabled, retries, retry_task, tasks, spawned, epoch, triggered, dropped,
  kind, sent, wire, read, hops,
  now, cache, conn, task, heard

Retry == INSTANCE RetryScheduler WITH retry_count <- retries
Trip == INSTANCE WireTrip
Moving == INSTANCE Migration

\* The retries are configured with u32 and u64 numbers, whose products fit.
ASSUME RetryAssumption ==
  /\ MaxAttempts \in Nat /\ Initial \in Nat /\ Multiplier \in Nat
  /\ MaxResets \in Nat /\ MaxTasks \in Nat

\* A newer version adds members to an enum, and removes none.
ASSUME WireAssumption == NewMembers \in Nat

\* The changes that happen are the ones the enum names, and time is bounded.
ASSUME MovingAssumption ==
  Events \subseteq Moving!NetworkChangeEvent /\ Timeout \in Nat /\ MaxTime \in Nat
=============================================================================
