---------------------------- MODULE CallsProofs ----------------------------
(* Theorems about a call: the state machine, for any number of retries, and *)
(* the parts that MCCalls checks side by side, from the inductive           *)
(* invariants of PartsProofs and MoqProofs.                                 *)
EXTENDS MCCalls, PartsProofs, MoqProofs, FiniteSetTheorems

----------------------------------------------------------------------------
(* The call state machine *)

\* The inductive invariant.  AttemptsBounded alone says nothing of the counter of
\* an idle machine; ring() needs it to be 0.
CallInv ==
    /\ TypeOK
    /\ ReasonIffTerminal
    /\ AttemptsBounded
    /\ state = "Idle" => retry_count = 0

\* CallInv holds initially, and every transition method preserves it.
LEMMA CallInit ==
  Init => CallInv
  BY ReasonAssumption, NoneAssumption, RetriesAssumption, SMTT(30) DEF Init, CallInv, TypeOK, ReasonIffTerminal, AttemptsBounded, CallState

LEMMA CallStep ==
  ASSUME CallInv, [Next]_vars
  PROVE  CallInv'
  <1> USE ReasonAssumption, NoneAssumption, RetriesAssumption
      DEF CallInv, TypeOK, ReasonIffTerminal, AttemptsBounded, CallState
  <1>1. CASE ring
    BY <1>1, SMTT(30) DEF ring
  <1>2. CASE accept
    BY <1>2, SMTT(30) DEF accept
  <1>3. ASSUME NEW m \in Method, connect(m) PROVE CallInv'
    BY <1>3, SMTT(30) DEF connect
  <1>4. ASSUME NEW reason \in Reason, end(reason) PROVE CallInv'
    BY <1>4, SMTT(30) DEF end
  <1>5. ASSUME NEW reason \in Reason, fail(reason) PROVE CallInv'
    BY <1>5, SMTT(30) DEF fail
  <1>6. CASE reject
    BY <1>6, SMTT(30) DEF reject
  <1>7. CASE timeout
    BY <1>7, SMTT(30) DEF timeout
  <1>8. CASE retry
    BY <1>8, SMTT(30) DEF retry
  <1>9. CASE UNCHANGED vars
    BY <1>9, SMTT(30) DEF vars
  <1> QED
    BY <1>1, <1>2, <1>3, <1>4, <1>5, <1>6, <1>7, <1>8, <1>9, SMTT(30) DEF Next

\* Failed is left by a counted retry only, and Ended by nothing.
Leaving ==
  /\ state # "Ended"
  /\ state = "Failed" => state' = "Ringing" /\ retry_count' = retry_count + 1

LEMMA CallLeaves ==
  ASSUME [Next]_vars
  PROVE  [Leaving]_vars
  BY DEF Next, vars, ring, accept, connect, end, fail, reject, timeout, retry, Leaving

\* A call is tried at most MaxRetries + 1 times: retry() counts every attempt
\* after the first and refuses at the limit.
THEOREM RetriesBounded == Spec => []AttemptsBounded
  <1>1. CallInv => AttemptsBounded
    BY SMTT(30) DEF CallInv
  <1> QED
    BY <1>1, CallInit, CallStep, PTL DEF Spec

\* The machine has an end reason exactly in Failed and Ended.
THEOREM ReasonExact == Spec => []ReasonIffTerminal
  <1>1. CallInv => ReasonIffTerminal
    BY DEF CallInv
  <1> QED
    BY <1>1, CallInit, CallStep, PTL DEF Spec

\* No transition leaves Ended, and Failed is left by a counted retry only.
THEOREM EndedForGood == Spec => TerminalIsFinal
  <1>1. [Next]_vars => [Leaving]_vars
    BY CallLeaves, SMTT(30)
  <1> QED
    BY <1>1, PTL DEF Spec, TerminalIsFinal, Leaving

----------------------------------------------------------------------------
(* The parts *)

\* An attempt is triggered at most once between resets, so the attempts number
\* what was triggered.
LEMMA RetryCount ==
  ASSUME RetryInv, NEW e
  PROVE  Cardinality(Retry!InEpoch(e)) <= MaxAttempts
  <1> DEFINE S == Retry!InEpoch(e)
             f == [i \in S |-> triggered[i].attempt]
  <1>1. \A i \in S : i \in 1 .. Len(triggered) /\ triggered[i].at = e
    BY DEF Retry!InEpoch
  <1>2. \A i \in S : triggered[i].attempt \in 1 .. MaxAttempts
    BY <1>1, SMTT(30) DEF RetryInv, History, Delayed
  <1>3. ASSUME NEW i \in S, NEW j \in S, triggered[i].attempt = triggered[j].attempt
        PROVE  i = j
    <2>1. i \in Nat /\ j \in Nat
      BY <1>1, RetryAssumption, SMTT(30) DEF RetryInv, Retry!TypeOK
    <2>2. ~(i < j) /\ ~(j < i)
      BY <1>1, <1>2, <1>3, SMTT(30) DEF RetryInv, History
    <2> QED
      BY <2>1, <2>2, SMTT(30)
  <1> HIDE DEF S
  <1>4. f \in Injection(S, 1 .. MaxAttempts)
    BY <1>2, <1>3, SMTT(30) DEF Injection, IsInjective
  <1>5. IsFiniteSet(1 .. MaxAttempts) /\ Cardinality(1 .. MaxAttempts) = MaxAttempts
    BY FS_Interval, RetryAssumption, SMTT(30)
  <1> HIDE DEF f
  <1>6. Cardinality(S) <= Cardinality(1 .. MaxAttempts)
    BY <1>4, <1>5, FS_Injection, SMTT(30)
  <1> QED
    BY <1>5, <1>6, SMTT(30) DEF S

LEMMA RetryHolds ==
  RetryInv => Retry!NoStaleRetry /\ Retry!BackoffSchedule
  <1> SUFFICES ASSUME RetryInv PROVE Retry!NoStaleRetry /\ Retry!BackoffSchedule
    OBVIOUS
  <1>1. Retry!NoStaleRetry
    BY SMTT(30) DEF RetryInv, Sleepers, History, Retry!NoStaleRetry
  <1>2. ASSUME NEW i \in 1 .. Len(triggered)
        PROVE  /\ triggered[i].attempt = 1 => triggered[i].delay = Initial
               /\ {triggered[i].delay} = Retry!next_delay(triggered[i].attempt - 1)
    <2>1. Delayed(triggered[i])
      BY DEF RetryInv, History
    <2>2. Initial * Retry!pow[0] = Initial
      BY PowDef, RetryAssumption, SMTT(30)
    <2> QED
      BY <2>1, <2>2, RetryAssumption, SMTT(30) DEF Delayed, Retry!next_delay
  <1>3. \A i, j \in 1 .. Len(triggered) :
          (i < j /\ triggered[i].at = triggered[j].at) => triggered[i].attempt < triggered[j].attempt
    BY DEF RetryInv, History
  <1>4. \A e \in 0 .. epoch : Retry!Cardinality(Retry!InEpoch(e)) <= MaxAttempts
    <2>1. \A S : Retry!Cardinality(S) = Cardinality(S)
      BY Zenon DEF Retry!Cardinality, Cardinality
    <2> QED
      BY <2>1, RetryCount, SMTT(30)
  <1>5. Retry!BackoffSchedule
    BY <1>2, <1>3, <1>4, Zenon DEF Retry!BackoffSchedule
  <1> QED
    BY <1>1, <1>5, SMTT(30)

\* The invariant of whichever part runs.
Inv ==
  /\ part = "retry" => RetryInv
  /\ part = "wire" => WireInv
  /\ part = "migration" => MovingInv
  /\ part = "moq" => MoqInv

LEMMA InvInit ==
  PartsInit => Inv
  BY RetryInit, WireInit, MovingInit, MoqInit, Zenon DEF PartsInit, Inv

\* A step of a part is one of its own steps and keeps the name of the part.
LEMMA InvStep ==
  ASSUME Inv, [PartsNext]_all
  PROVE  Inv'
  <1>1. CASE IsRetry /\ Retry!Next
    <2>1. part = "retry" /\ part' = part
      BY <1>1, SMTT(30) DEF IsRetry
    <2> QED
      BY <1>1, <2>1, RetryStep, SMTT(30) DEF Inv
  <1>2. CASE IsWire /\ Trip!Next
    <2>1. part = "wire" /\ part' = part
      BY <1>2, SMTT(30) DEF IsWire
    <2> QED
      BY <1>2, <2>1, WireStep, SMTT(30) DEF Inv
  <1>3. CASE IsMigration /\ Moving!Next
    <2>1. part = "migration" /\ part' = part
      BY <1>3, SMTT(30) DEF IsMigration
    <2> QED
      BY <1>3, <2>1, MovingStep, SMTT(30) DEF Inv
  <1>4. CASE IsMoq /\ Moq!Next
    <2>1. part = "moq" /\ part' = part
      BY <1>4, SMTT(30) DEF IsMoq
    <2> QED
      BY <1>4, <2>1, MoqStep, SMTT(30) DEF Inv
  <1>5. CASE IsCall \/ IsTunnel \/ IsBytes
    <2>1. part \in {"call", "tunnel", "bytes"} /\ part' = part
      BY <1>5, SMTT(30) DEF IsCall, IsTunnel, IsBytes
    <2> QED
      BY <2>1, SMTT(30) DEF Inv
  <1>6. CASE UNCHANGED all
    <2>1. /\ part' = part /\ UNCHANGED Retry!vars /\ UNCHANGED Trip!vars
          /\ UNCHANGED Moving!vars /\ UNCHANGED Moq!vars
      BY <1>6, SMTT(30) DEF all, retryVars, tripVars, timeVars, movingVars, moqVars,
                  Retry!vars, Trip!vars, Moving!vars, Moq!vars
    <2> QED
      BY <2>1, RetryStutters, WireStutters, MovingStutters, MoqStutters, SMTT(30) DEF Inv
  <1> QED
    BY <1>1, <1>2, <1>3, <1>4, <1>5, <1>6, SMTT(30) DEF PartsNext

LEMMA InvHolds ==
  PartsSpec => []Inv
  <1>1. Inv /\ [PartsNext]_all => Inv'
    BY InvStep, SMTT(30)
  <1> QED
    BY <1>1, InvInit, PTL DEF PartsSpec

\* No retry is triggered after a reset or the drop of the scheduler that came
\* after it was scheduled, and only the task whose handle is kept sleeps
\* (RetryScheduler::schedule_retry, reset, cancel).
THEOREM RetriesNeverStale == PartsSpec => []NoStaleRetry
  <1>1. Inv => NoStaleRetry
    BY RetryHolds, SMTT(30) DEF Inv, NoStaleRetry
  <1> QED
    BY <1>1, InvHolds, PTL

\* Between resets the retries come in order, each with the delay of the backoff
\* formula, and at most push_retry_max_attempts of them (retry_delay_secs).
THEOREM RetriesOnSchedule == PartsSpec => []BackoffSchedule
  <1>1. Inv => BackoffSchedule
    BY RetryHolds, SMTT(30) DEF Inv, BackoffSchedule
  <1> QED
    BY <1>1, InvHolds, PTL

\* An enum value both versions know arrives unchanged after any number of hops,
\* any other is read as the zero value for good; NAT information keeps its
\* meaning, for any number of members a newer version adds.
THEOREM WireIsStable == PartsSpec => []WireKeepsMeaning
  <1>1. Inv => WireKeepsMeaning
    BY WireHolds, SMTT(30) DEF Inv, WireKeepsMeaning
  <1> QED
    BY <1>1, InvHolds, PTL

\* The peer is told a prediction only by a migration that succeeded, after a probe
\* of its own; only the loss or the timeout of the path fails a migration
\* (handle_network_change), for any number of handlers that run at once.
THEOREM MigrationsHonest == PartsSpec => []MigrationHonest
  <1>1. Inv => MigrationHonest
    BY MovingHolds, SMTT(30) DEF Inv, MigrationHonest
  <1> QED
    BY <1>1, InvHolds, PTL

\* A client's session is Active only after its CLIENT_SETUP was answered with a
\* SERVER_SETUP; what a session lists as announced or subscribed it has written
\* to the peer; and no two SUBSCRIBE messages of a session carry one number,
\* however the calls of setup, accept, announce, subscribe, the loops and close
\* interleave (MoqSession).
THEOREM SessionsHonest == PartsSpec => []MoqHonest
  <1>1. Inv => MoqHonest
    BY MoqHolds DEF Inv, MoqHonest
  <1> QED
    BY <1>1, InvHolds, PTL
=============================================================================
