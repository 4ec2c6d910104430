--------------------------- MODULE RetryScheduler ---------------------------
(***************************************************************************)
(* The client's push retry (push_retry.rs): a counter, and at most one     *)
(* background task that waits for the backoff and then triggers the retry. *)
(* Dropping a JoinHandle does not stop its task, abort() does.             *)
(***************************************************************************)
EXTENDS WireTypes, FiniteSets

CONSTANTS
  MaxAttempts,  \* config.push_retry_max_attempts
  Initial,      \* config.push_retry_initial_delay_secs
  Multiplier,   \* config.push_retry_backoff_multiplier
  MaxResets,    \* bound on reset()
  MaxTasks      \* bound on the tasks spawned

VARIABLES
  enabled,      \* config.push_retry_enabled
  retry_count,
  retry_task,   \* {} or the id of the task whose handle is kept
  tasks,        \* tasks that sleep: records with id, attempt, delay, epoch
  spawned,      \* tasks spawned so far
  epoch,        \* number of resets
  triggered,    \* history: the retries triggered, with the epoch of each
  dropped

vars == <<enabled, retry_count, retry_task, tasks, spawned, epoch, triggered, dropped>>

(* The multiplier's powers, and VoIPConfig::retry_delay_secs.              *)
pow[e \in Nat] == IF e = 0 THEN 1 ELSE Multiplier * pow[e - 1]

retry_delay_secs_linear(attempt) == IF attempt = 0 THEN 0 ELSE Initial * attempt

retry_delay_secs(attempt) ==
  IF attempt = 0 THEN 0 ELSE Initial * pow[attempt - 1]

(* MigrationRetryHandler::next_delay, with its own counter from zero.      *)
next_delay(attempt) ==
  IF attempt >= MaxAttempts THEN {} ELSE {Initial * pow[attempt]}

Init ==
  /\ enabled \in BOOLEAN
  /\ retry_count = 0 /\ retry_task = {} /\ tasks = {}
  /\ spawned = 0 /\ epoch = 0 /\ triggered = <<>> /\ dropped = FALSE

can_retry == retry_count < MaxAttempts

(* The tasks left after cancel(): the kept handle's task is aborted.       *)
Cancelled_detached == tasks
Cancelled == {t \in tasks : t.id \notin retry_task}

(* An error, with nothing changed, when disabled, exhausted or unwarranted.*)
schedule_retry(reason) ==
  /\ ~dropped /\ spawned < MaxTasks
  /\ enabled /\ can_retry /\ should_retry(reason)
  /\ tasks' = Cancelled \cup
       {[id |-> spawned + 1, attempt |-> retry_count + 1, epoch |-> epoch,
         delay |-> retry_delay_secs(retry_count + 1)]}
  /\ retry_count' = retry_count + 1
  /\ retry_task' = {spawned + 1}
  /\ spawned' = spawned + 1
  /\ UNCHANGED <<enabled, epoch, triggered, dropped>>

(* The sleep of a task is over.  The handle stays in retry_task.           *)
Trigger(t) ==
  /\ tasks' = tasks \ {t}
  /\ triggered' = Append(triggered, [attempt |-> t.attempt, delay |-> t.delay,
                                     scheduled |-> t.epoch, at |-> epoch])
  /\ UNCHANGED <<enabled, retry_count, retry_task, spawned, epoch, dropped>>

cancel ==
  /\ ~dropped /\ retry_task # {}
  /\ tasks' = Cancelled /\ retry_task' = {}
  /\ UNCHANGED <<enabled, retry_count, spawned, epoch, triggered, dropped>>

reset ==
  /\ ~dropped /\ epoch < MaxResets
  /\ tasks' = Cancelled /\ retry_task' = {}
  /\ retry_count' = 0
  /\ epoch' = epoch + 1
  /\ UNCHANGED <<enabled, spawned, triggered, dropped>>

drop ==
  /\ ~dropped /\ dropped' = TRUE
  /\ tasks' = Cancelled /\ retry_task' = {}
  /\ epoch' = epoch + 1
  /\ UNCHANGED <<enabled, retry_count, spawned, triggered>>

Next ==
  \/ \E reason \in Members(CallEndReason) : schedule_retry(reason)
  \/ cancel \/ reset \/ drop
  \/ \E t \in tasks : Trigger(t)

Spec == Init /\ [][Next]_vars

----------------------------------------------------------------------------
Task == [id : Nat, attempt : Nat, epoch : Nat, delay : Nat]
Fired == [attempt : Nat, delay : Nat, scheduled : Nat, at : Nat]

TypeOK ==
  /\ enabled \in BOOLEAN /\ dropped \in BOOLEAN
  /\ retry_count \in 0 .. MaxAttempts
  /\ spawned \in Nat /\ retry_task \subseteq 1 .. spawned
  /\ tasks \subseteq Task
  /\ \A t \in tasks : t.id <= spawned /\ t.attempt \in 1 .. MaxAttempts
  /\ epoch \in 0 .. MaxResets + 1
  /\ triggered \in Seq(Fired)

InEpoch(e) == {i \in 1 .. Len(triggered) : triggered[i].at = e}

(* No retry is triggered after the scheduler was reset or dropped since it *)
(* was scheduled, and only the task whose handle is kept may sleep.        *)
NoStaleRetry ==
  /\ \A i \in 1 .. Len(triggered) : triggered[i].scheduled = triggered[i].at
  /\ \A t \in tasks : t.id \in retry_task

(* Between resets, retries come in order of attempt, each later than the   *)
(* one before by the multiplier per attempt, starting from Initial; so at  *)
(* most MaxAttempts are triggered.                                         *)
BackoffSchedule ==
  /\ \A i \in 1 .. Len(triggered) :
       /\ triggered[i].attempt = 1 => triggered[i].delay = Initial
       /\ {triggered[i].delay} = next_delay(triggered[i].attempt - 1)
  /\ \A i, j \in 1 .. Len(triggered) :
       (i < j /\ triggered[i].at = triggered[j].at) => triggered[i].attempt < triggered[j].attempt
  /\ \A e \in 0 .. epoch : Cardinality(InEpoch(e)) <= MaxAttempts

=============================================================================
