---------------------------- MODULE PartsProofs ----------------------------
(* Proofs about parts of MCCalls, for every value of their constants: the    *)
(* retry scheduler, the migration and the wire format.  CallsProofs draws    *)
(* the theorems from them.                                                   *)
EXTENDS CallParts, Sequences, WellFoundedInduction, TLAPS

----------------------------------------------------------------------------
(* Powers *)

\* Induction over the naturals, for a set: the least number outside would have
\* its predecessor inside.
LEMMA SetInduction ==
  ASSUME NEW S, 0 \in S, \A n \in Nat : n \in S => n + 1 \in S
  PROVE  \A n \in Nat : n \in S
  <1> DEFINE T == {n \in Nat : n \notin S}
             R == {p \in Nat \X Nat : p[1] < p[2]}
  <1>1. IsWellFoundedOn(R, Nat)
    BY NatLessThanWellFounded DEF OpToRel
  <1> SUFFICES ASSUME T # {} PROVE FALSE
    OBVIOUS
  <1>2. T \subseteq Nat
    OBVIOUS
  <1> HIDE DEF T, R
  <1>3. PICK x \in T : \A y \in T : ~(<<y, x>> \in R)
    BY <1>1, <1>2, WFMin, Zenon
  <1>4. x \in Nat /\ x # 0 /\ x \notin S
    BY DEF T
  <1>5. x - 1 \in Nat /\ (x - 1) + 1 = x /\ <<x - 1, x>> \in R
    BY <1>4 DEF R
  <1>6. x - 1 \notin T
    BY <1>3, <1>5
  <1> QED
    BY <1>4, <1>5, <1>6 DEF T

\* f holds the powers of the multiplier up to n.
Powers(f, n) ==
  /\ f \in [0 .. n -> Nat] /\ f[0] = 1
  /\ \A i \in 1 .. n : f[i] = Multiplier * f[i - 1]

\* There are tables of powers of every length, and they agree.
LEMMA PowersExist ==
  /\ \A n \in Nat : \E f : Powers(f, n)
  /\ \A n, m \in Nat : \A f, g : Powers(f, n) /\ Powers(g, m) /\ n <= m => f[n] = g[n]
  <1> USE RetryAssumption
  <1>1. \A n \in Nat : \E f : Powers(f, n)
    <2> DEFINE S == {n \in Nat : \E f : Powers(f, n)}
    <2>1. 0 \in S
      <3>1. Powers([i \in 0 .. 0 |-> 1], 0)
        BY DEF Powers
      <3> QED
        BY <3>1
    <2>2. ASSUME NEW n \in Nat, n \in S PROVE n + 1 \in S
      <3>1. PICK f : Powers(f, n)
        BY <2>2
      <3> DEFINE g == [i \in 0 .. n + 1 |-> IF i = n + 1 THEN Multiplier * f[n] ELSE f[i]]
      <3>2. f[n] \in Nat /\ Multiplier * f[n] \in Nat /\ \A i \in 0 .. n : f[i] \in Nat
        BY <3>1 DEF Powers
      <3>3. \A i \in 0 .. n + 1 : i = n + 1 \/ i \in 0 .. n
        OBVIOUS
      <3>4. g \in [0 .. n + 1 -> Nat] /\ g[n + 1] = Multiplier * f[n] /\ \A i \in 0 .. n : g[i] = f[i]
        BY <3>2, <3>3
      <3> HIDE DEF g
      <3>5. ASSUME NEW i \in 1 .. n + 1 PROVE g[i] = Multiplier * g[i - 1]
        <4>1. CASE i = n + 1
          BY <3>4, <4>1
        <4>2. CASE i # n + 1
          <5>1. i \in 1 .. n /\ i \in 0 .. n /\ i - 1 \in 0 .. n
            BY <4>2
          <5>2. f[i] = Multiplier * f[i - 1]
            BY <3>1, <5>1 DEF Powers
          <5> QED
            BY <3>4, <5>1, <5>2
        <4> QED
          BY <4>1, <4>2
      <3>6. g[0] = 1
        BY <3>1, <3>4 DEF Powers
      <3>7. Powers(g, n + 1)
        BY <3>4, <3>5, <3>6 DEF Powers
      <3> QED
        BY <3>7
    <2> HIDE DEF S
    <2>3. \A n \in Nat : n \in S
      BY <2>1, <2>2, SetInduction
    <2> QED
      BY <2>3 DEF S
  <1>2. ASSUME NEW n \in Nat, NEW m \in Nat, NEW f, NEW g, Powers(f, n), Powers(g, m), n <= m
        PROVE  f[n] = g[n]
    <2> DEFINE S == {i \in Nat : i <= n => f[i] = g[i]}
    <2>1. 0 \in S
      BY <1>2 DEF Powers
    <2>2. ASSUME NEW i \in Nat, i \in S PROVE i + 1 \in S
      <3>1. CASE i + 1 <= n
        <4>1. i + 1 \in 1 .. n /\ i + 1 \in 1 .. m /\ (i + 1) - 1 = i /\ i <= n
          BY <1>2, <3>1
        <4>2. f[i + 1] = Multiplier * f[i] /\ g[i + 1] = Multiplier * g[i]
          BY <1>2, <4>1 DEF Powers
        <4> QED
          BY <2>2, <4>1, <4>2
      <3> QED
        BY <3>1
    <2> HIDE DEF S
    <2>3. n \in S
      BY <2>1, <2>2, SetInduction
    <2> QED
      BY <2>3 DEF S
  <1> QED
    BY <1>1, <1>2

\* The recursive definition of pow has a solution, so pow satisfies it.
LEMMA PowDef ==
  /\ Retry!pow \in [Nat -> Nat] /\ Retry!pow[0] = 1
  /\ \A e \in Nat \ {0} : Retry!pow[e] = Multiplier * Retry!pow[e - 1]
  <1> USE RetryAssumption
  <1> DEFINE Table(e) == CHOOSE f : Powers(f, e)
             F == [e \in Nat |-> Table(e)[e]]
             Step(p, e) == IF e = 0 THEN 1 ELSE Multiplier * p[e - 1]
  <1>1. ASSUME NEW e \in Nat PROVE Powers(Table(e), e)
    BY PowersExist
  <1> HIDE DEF Table
  <1>2. ASSUME NEW e \in Nat PROVE F[e] = Table(e)[e] /\ F[e] \in Nat
    <2> DEFINE f == Table(e)
    <2>1. F[e] = f[e] /\ Powers(f, e)
      BY <1>1
    <2> HIDE DEF f, F
    <2>2. f[e] \in Nat
      BY <2>1 DEF Powers
    <2> QED
      BY <2>1, <2>2 DEF f
  <1>3. F[0] = 1
    <2> DEFINE f == Table(0)
    <2>1. F[0] = f[0] /\ Powers(f, 0)
      BY <1>1
    <2> HIDE DEF f, F
    <2> QED
      BY <2>1 DEF Powers
  <1>4. ASSUME NEW e \in Nat, e # 0 PROVE F[e] = Multiplier * F[e - 1]
    <2> DEFINE f == Table(e)
               g == Table(e - 1)
    <2>1. e - 1 \in Nat /\ e \in 1 .. e /\ e - 1 <= e
      BY <1>4
    <2>2. Powers(f, e) /\ Powers(g, e - 1)
      BY <1>1, <2>1
    <2>3. F[e] = f[e] /\ F[e - 1] = g[e - 1]
      BY <1>2, <2>1
    <2> HIDE DEF f, g, F
    <2>4. f[e] = Multiplier * f[e - 1]
      BY <2>1, <2>2 DEF Powers
    <2>5. g[e - 1] = f[e - 1]
      BY <2>1, <2>2, PowersExist
    <2> QED
      BY <2>3, <2>4, <2>5
  <1>5. F = [e \in Nat |-> Step(F, e)]
    <2>1. F = [e \in Nat |-> F[e]]
      OBVIOUS
    <2> HIDE DEF F
    <2>2. \A e \in Nat : F[e] = Step(F, e)
      BY <1>3, <1>4
    <2> HIDE DEF Step
    <2> QED
      BY <2>1, <2>2
  <1> HIDE DEF F
  <1>6. Retry!pow = [e \in Nat |-> Step(Retry!pow, e)]
    BY <1>5 DEF Retry!pow
  <1> DEFINE p == Retry!pow
  <1> HIDE DEF p
  <1>7. p[0] = 1 /\ \A e \in Nat \ {0} : p[e] = Multiplier * p[e - 1]
    BY <1>6 DEF p
  <1>8. \A e \in Nat : p[e] \in Nat
    <2> DEFINE S == {e \in Nat : p[e] \in Nat}
    <2>1. 0 \in S
      BY <1>7
    <2>2. ASSUME NEW e \in Nat, e \in S PROVE e + 1 \in S
      <3>1. p[e + 1] = Multiplier * p[e] /\ p[e] \in Nat
        BY <1>7, <2>2
      <3> QED
        BY <3>1
    <2> HIDE DEF S
    <2>3. \A e \in Nat : e \in S
      BY <2>1, <2>2, SetInduction
    <2> QED
      BY <2>3 DEF S
  <1>9. p \in [Nat -> Nat]
    <2>1. p = [e \in Nat |-> p[e]]
      BY <1>6 DEF p
    <2> QED
      BY <1>8, <2>1
  <1> QED
    BY <1>7, <1>9 DEF p

----------------------------------------------------------------------------
(* Retries *)

\* What a task or a triggered retry of this attempt waits or waited.
Delayed(r) ==
  /\ r.attempt \in 1 .. MaxAttempts
  /\ r.delay = Initial * Retry!pow[r.attempt - 1]

\* The tasks that sleep: at most one, the last that was scheduled, since the
\* last reset, with its handle kept.
Sleepers ==
  /\ \A t \in tasks : t.id \in retry_task /\ t.epoch = epoch /\ t.attempt = retries /\ Delayed(t)
  /\ \A t, u \in tasks : t = u

\* The retries that were triggered: each since the reset before it was scheduled,
\* and before any of a higher attempt; those since the last reset are counted.
History ==
  /\ \A i \in 1 .. Len(triggered) :
       /\ triggered[i].scheduled = triggered[i].at /\ triggered[i].at <= epoch
       /\ Delayed(triggered[i])
       /\ triggered[i].at = epoch =>
            /\ triggered[i].attempt <= retries
            /\ \A t \in tasks : triggered[i].attempt < t.attempt
  /\ \A i, j \in 1 .. Len(triggered) :
       (i < j /\ triggered[i].at = triggered[j].at) => triggered[i].attempt < triggered[j].attempt

RetryInv ==
  /\ Retry!TypeOK /\ Sleepers /\ History
  /\ ~dropped => epoch <= MaxResets

\* The formula of a delay gives a number.
LEMMA DelayType ==
  ASSUME NEW n \in Nat \ {0}
  PROVE  Initial * Retry!pow[n - 1] \in Nat
  <1>1. Retry!pow[n - 1] \in Nat
    BY PowDef
  <1> QED
    BY <1>1, RetryAssumption

LEMMA RetryInit ==
  Retry!Init => RetryInv
  <1> SUFFICES ASSUME Retry!Init PROVE RetryInv
    OBVIOUS
  <1>1. /\ retries = 0 /\ retry_task = {} /\ tasks = {} /\ spawned = 0 /\ epoch = 0
        /\ triggered = << >> /\ enabled \in BOOLEAN /\ dropped \in BOOLEAN
    BY Zenon DEF Retry!Init
  <1>2. Retry!TypeOK
    <2>1. retries \in 0 .. MaxAttempts /\ epoch \in 0 .. MaxResets + 1 /\ spawned \in Nat
      BY <1>1, RetryAssumption
    <2>2. triggered \in Seq(Retry!Fired)
      BY <1>1
    <2> QED
      BY <1>1, <2>1, <2>2 DEF Retry!TypeOK
  <1>3. Sleepers
    BY <1>1 DEF Sleepers
  <1>4. History
    BY <1>1 DEF History
  <1>5. epoch <= MaxResets
    BY <1>1, RetryAssumption
  <1> QED
    BY <1>2, <1>3, <1>4, <1>5 DEF RetryInv

\* cancel, reset and drop abort the task whose handle is kept, so none sleeps on.
LEMMA CancelledNone ==
  RetryInv => Retry!Cancelled = {}
  BY DEF RetryInv, Sleepers, Retry!Cancelled

LEMMA RetrySchedule ==
  ASSUME RetryInv, NEW reason, Retry!schedule_retry(reason)
  PROVE  RetryInv'
  <1> DEFINE new == [id |-> spawned + 1, attempt |-> retries + 1, epoch |-> epoch,
                     delay |-> Retry!retry_delay_secs(retries + 1)]
  <1>1. tasks' = {new} /\ retries' = retries + 1 /\ retry_task' = {spawned + 1} /\ spawned' = spawned + 1
        /\ UNCHANGED <<enabled, epoch, triggered, dropped>>
    BY CancelledNone DEF Retry!schedule_retry
  <1>2. retries + 1 \in 1 .. MaxAttempts /\ spawned \in Nat /\ retries \in Nat /\ epoch \in Nat
    BY RetryAssumption DEF RetryInv, Retry!TypeOK, Retry!schedule_retry, Retry!can_retry
  <1>3. Retry!retry_delay_secs(retries + 1) = Initial * Retry!pow[(retries + 1) - 1]
    BY <1>2 DEF Retry!retry_delay_secs
  <1>4. Retry!retry_delay_secs(retries + 1) \in Nat
    BY <1>2, <1>3, DelayType
  <1>5. /\ new \in Retry!Task /\ new.id = spawned + 1 /\ new.attempt = retries + 1
        /\ new.epoch = epoch /\ new.delay = Initial * Retry!pow[(retries + 1) - 1]
    BY <1>2, <1>3, <1>4 DEF Retry!Task
  <1> HIDE DEF new
  <1>6. Retry!TypeOK'
    BY <1>1, <1>2, <1>5 DEF RetryInv, Retry!TypeOK
  <1>7. Sleepers'
    <2>1. Delayed(new)
      BY <1>2, <1>5 DEF Delayed
    <2> QED
      BY <1>1, <1>2, <1>5, <2>1 DEF Sleepers, Delayed
  <1>8. History'
    <2>1. ASSUME NEW i \in 1 .. Len(triggered), triggered[i].at = epoch
          PROVE  triggered[i].attempt <= retries + 1 /\ triggered[i].attempt < retries + 1
      BY <1>2, <2>1 DEF RetryInv, History, Delayed
    <2> QED
      BY <1>1, <1>5, <2>1 DEF RetryInv, History, Delayed
  <1> QED
    BY <1>1, <1>6, <1>7, <1>8 DEF RetryInv

\* cancel, reset and drop: no task is left, and a new epoch starts with or without
\* a count of zero.
LEMMA RetryStop ==
  ASSUME RetryInv, Retry!cancel \/ Retry!reset \/ Retry!drop
  PROVE  RetryInv'
  <1>1. tasks' = {} /\ retry_task' = {} /\ UNCHANGED <<enabled, spawned, triggered>>
    BY CancelledNone DEF Retry!cancel, Retry!reset, Retry!drop
  <1>2. epoch \in Nat /\ epoch <= MaxResets /\ retries \in 0 .. MaxAttempts
    BY RetryAssumption DEF RetryInv, Retry!TypeOK, Retry!cancel, Retry!reset, Retry!drop
  <1>3. /\ epoch' \in 0 .. MaxResets + 1 /\ retries' \in 0 .. MaxAttempts
        /\ (epoch' = epoch /\ retries' = retries) \/ epoch' = epoch + 1
    BY <1>2, RetryAssumption DEF Retry!cancel, Retry!reset, Retry!drop
  <1>4. enabled' \in BOOLEAN /\ dropped' \in BOOLEAN
    BY <1>1, Zenon DEF RetryInv, Retry!TypeOK, Retry!cancel, Retry!reset, Retry!drop
  <1>5. ~dropped' => epoch' <= MaxResets
    <2>1. CASE Retry!cancel
      BY <1>2, <2>1 DEF Retry!cancel
    <2>2. CASE Retry!reset
      BY <1>2, <2>2, RetryAssumption DEF Retry!reset
    <2>3. CASE Retry!drop
      BY <2>3, Zenon DEF Retry!drop
    <2> QED
      BY <2>1, <2>2, <2>3
  <1>6. Retry!TypeOK'
    BY <1>1, <1>3, <1>4 DEF RetryInv, Retry!TypeOK
  <1>7. Sleepers'
    BY <1>1 DEF Sleepers
  <1>8. \A i \in 1 .. Len(triggered) : triggered[i].at \in Nat
    <2>1. ASSUME NEW i \in 1 .. Len(triggered) PROVE triggered[i] \in Retry!Fired
      BY DEF RetryInv, Retry!TypeOK
    <2> QED
      BY <2>1 DEF Retry!Fired
  <1>9. History'
    <2>1. History
      BY DEF RetryInv
    <2>2. CASE epoch' = epoch /\ retries' = retries
      BY <1>1, <2>1, <2>2 DEF History, Delayed
    <2>3. CASE epoch' = epoch + 1
      <3>1. ASSUME NEW i \in 1 .. Len(triggered)
            PROVE  triggered[i].at <= epoch' /\ triggered[i].at # epoch'
        <4>1. triggered[i].at \in Nat /\ triggered[i].at <= epoch
          BY <1>8, <2>1 DEF History
        <4> QED
          BY <1>2, <2>3, <4>1
      <3> QED
        BY <1>1, <2>1, <3>1 DEF History, Delayed
    <2> QED
      BY <1>3, <2>2, <2>3
  <1> QED
    BY <1>5, <1>6, <1>7, <1>9 DEF RetryInv

LEMMA RetryTrigger ==
  ASSUME RetryInv, NEW t \in tasks, Retry!Trigger(t)
  PROVE  RetryInv'
  <1> DEFINE new == [attempt |-> t.attempt, delay |-> t.delay, scheduled |-> t.epoch, at |-> epoch]
             n == Len(triggered)
  <1>1. tasks' = {} /\ triggered' = Append(triggered, new)
        /\ UNCHANGED <<enabled, retries, retry_task, spawned, epoch, dropped>>
    BY DEF RetryInv, Sleepers, Retry!Trigger
  <1>2. t \in Retry!Task /\ triggered \in Seq(Retry!Fired) /\ epoch \in Nat
    BY DEF RetryInv, Retry!TypeOK
  <1>3. /\ new \in Retry!Fired /\ new.attempt = t.attempt /\ new.delay = t.delay
        /\ new.scheduled = t.epoch /\ new.at = epoch
    BY <1>2 DEF Retry!Fired, Retry!Task
  <1>4. t.epoch = epoch /\ t.attempt = retries /\ Delayed(t)
    BY DEF RetryInv, Sleepers
  <1> HIDE DEF new
  <1>5. /\ n \in Nat /\ Len(triggered') = n + 1 /\ triggered'[n + 1] = new
        /\ \A i \in 1 .. n : triggered'[i] = triggered[i]
        /\ triggered' \in Seq(Retry!Fired)
    BY <1>1, <1>2, <1>3
  <1>6. 1 .. n + 1 = (1 .. n) \cup {n + 1}
    BY <1>5
  <1> HIDE DEF n
  <1>7. Retry!TypeOK'
    BY <1>1, <1>5 DEF RetryInv, Retry!TypeOK
  <1>8. Sleepers'
    BY <1>1 DEF Sleepers
  <1>9. Delayed(new)
    BY <1>3, <1>4 DEF Delayed
  <1>10. \A i \in 1 .. n : triggered[i].at = epoch => triggered[i].attempt < t.attempt
    BY DEF RetryInv, History, n
  <1>11. History'
    <2>1. ASSUME NEW i \in 1 .. n + 1
          PROVE  /\ triggered'[i].scheduled = triggered'[i].at /\ triggered'[i].at <= epoch
                 /\ Delayed(triggered'[i])
                 /\ triggered'[i].at = epoch => triggered'[i].attempt <= retries
      <3>1. CASE i \in 1 .. n
        BY <1>5, <3>1 DEF RetryInv, History, n
      <3>2. CASE i = n + 1
        BY <1>2, <1>3, <1>4, <1>5, <1>9, <3>2 DEF Delayed
      <3> QED
        BY <1>6, <3>1, <3>2
    <2>2. ASSUME NEW i \in 1 .. n + 1, NEW j \in 1 .. n + 1, i < j, triggered'[i].at = triggered'[j].at
          PROVE  triggered'[i].attempt < triggered'[j].attempt
      <3>1. i \in 1 .. n
        BY <1>5, <2>2
      <3>2. CASE j \in 1 .. n
        BY <1>5, <2>2, <3>1, <3>2 DEF RetryInv, History, n
      <3>3. CASE j = n + 1
        BY <1>3, <1>5, <1>10, <2>2, <3>1, <3>3
      <3> QED
        BY <1>6, <3>2, <3>3
    <2> QED
      BY <1>1, <1>5, <2>1, <2>2, Zenon DEF History, Delayed
  <1> QED
    BY <1>1, <1>7, <1>8, <1>11 DEF RetryInv

LEMMA RetryStep ==
  RetryInv /\ Retry!Next => RetryInv'
  BY RetrySchedule, RetryStop, RetryTrigger DEF Retry!Next

LEMMA RetryStutters ==
  ASSUME RetryInv, UNCHANGED Retry!vars
  PROVE  RetryInv'
  <1>1. /\ enabled' = enabled /\ retries' = retries /\ retry_task' = retry_task /\ tasks' = tasks
        /\ spawned' = spawned /\ epoch' = epoch /\ triggered' = triggered /\ dropped' = dropped
    BY Zenon DEF Retry!vars
  <1> QED
    BY <1>1, Zenon DEF RetryInv, Sleepers, History, Retry!TypeOK

----------------------------------------------------------------------------
(* Migration *)

\* What is known of a handler's state q while the path is c: it has NAT
\* information only from a probe of its own, on a network no older than its event's.
HandlerOK(q, c) ==
  /\ q \in Moving!Task /\ q.net <= c.net
  /\ q.pc \in {"none", "wait", "reprobe", "probing"} => q.nat = 0
  /\ q.pc = "probing" => Moving!requires_nat_reprobe(q.event)
  /\ q.nat # 0 => Moving!requires_nat_reprobe(q.event) /\ q.nat >= q.net
  /\ q.pc = "failed" => c.lost
  /\ q.pc = "timedOut" => q.ended - q.began > Timeout

Told ==
  \A m \in heard : task[m.by].pc = "success" /\ m.nat = task[m.by].nat

MovingInv ==
  /\ Moving!TypeOK /\ Told
  /\ \A h \in Handlers : HandlerOK(task[h], conn) /\ task[h].nat <= conn.net

LEMMA MovingInit ==
  Moving!Init => MovingInv
  <1> SUFFICES ASSUME Moving!Init PROVE MovingInv
    OBVIOUS
  <1> DEFINE q == Moving!NoTask
             c == [net |-> 1, ip |-> TRUE, lost |-> FALSE]
  <1>1. now = 0 /\ conn = c /\ cache = 1 /\ heard = {} /\ task = [h \in Handlers |-> q]
    BY DEF Moving!Init
  <1>2. /\ q \in Moving!Task /\ q.pc = "none" /\ q.net = 0 /\ q.nat = 0
    BY DEF Moving!NoTask, Moving!Task
  <1>3. c \in [net : Nat, ip : BOOLEAN, lost : BOOLEAN] /\ c.net = 1
    OBVIOUS
  <1> HIDE DEF q, c
  <1>4. HandlerOK(q, c)
    BY <1>2, <1>3 DEF HandlerOK
  <1>5. cache \in 0 .. conn.net /\ now \in 0 .. MaxTime
    BY <1>1, <1>3, MovingAssumption
  <1>6. Moving!TypeOK
    BY <1>1, <1>2, <1>3, <1>5 DEF Moving!TypeOK
  <1> QED
    BY <1>1, <1>2, <1>3, <1>4, <1>6 DEF MovingInv, Told

\* Only the network moves on, or the path is lost.
LEMMA HandlerKept ==
  ASSUME NEW q, NEW c, NEW d, HandlerOK(q, c), c.net \in Nat, d.net \in Nat, c.net <= d.net,
         c.lost => d.lost
  PROVE  HandlerOK(q, d)
  <1>1. q.net \in Nat
    BY DEF HandlerOK, Moving!Task
  <1> QED
    BY <1>1 DEF HandlerOK

\* A handler h goes on to the state r, and the peer hears of it or not.
LEMMA MovingMove ==
  ASSUME MovingInv, NEW h \in Handlers, NEW r,
         HandlerOK(r, conn'), r.nat <= conn'.net, task' = [task EXCEPT ![h] = r],
         now' = now, cache' \in 0 .. conn'.net,
         conn' \in [net : Nat, ip : BOOLEAN, lost : BOOLEAN],
         conn.net <= conn'.net, conn.lost => conn'.lost,
         task[h].pc # "success",
         \/ heard' = heard
         \/ heard' = heard \cup {[by |-> h, nat |-> r.nat]} /\ r.pc = "success"
  PROVE  MovingInv'
  <1>1. /\ task \in [Handlers -> Moving!Task] /\ heard \subseteq [by : Handlers, nat : 0 .. conn.net]
        /\ conn.net \in Nat /\ conn'.net \in Nat /\ now \in 0 .. MaxTime
    BY DEF MovingInv, Moving!TypeOK
  <1>2. r \in Moving!Task /\ r.nat \in Nat
    BY DEF HandlerOK, Moving!Task
  <1>3. /\ task' \in [Handlers -> Moving!Task] /\ task'[h] = r
        /\ \A k \in Handlers \ {h} : task'[k] = task[k]
    BY <1>1, <1>2
  <1>4. ASSUME NEW k \in Handlers PROVE HandlerOK(task'[k], conn') /\ task'[k].nat <= conn'.net
    <2>1. CASE k = h
      BY <1>3, <2>1
    <2>2. CASE k # h
      <3>1. HandlerOK(task[k], conn) /\ task[k].nat <= conn.net /\ task[k].nat \in Nat
        BY <1>1 DEF MovingInv, Moving!Task
      <3>2. HandlerOK(task[k], conn')
        BY <1>1, <3>1, HandlerKept
      <3> QED
        BY <1>1, <1>3, <2>2, <3>1, <3>2
    <2> QED
      BY <2>1, <2>2
  <1>5. heard' \subseteq [by : Handlers, nat : 0 .. conn'.net]
    <2>1. 0 .. conn.net \subseteq 0 .. conn'.net /\ r.nat \in 0 .. conn'.net
      BY <1>1, <1>2
    <2> QED
      BY <1>1, <2>1
  <1>6. Moving!TypeOK'
    BY <1>1, <1>3, <1>5 DEF Moving!TypeOK
  <1>7. Told'
    <2>1. ASSUME NEW m \in heard PROVE task'[m.by].pc = "success" /\ m.nat = task'[m.by].nat
      BY <1>1, <1>3 DEF MovingInv, Told
    <2>2. ASSUME NEW m, m = [by |-> h, nat |-> r.nat], r.pc = "success"
          PROVE  task'[m.by].pc = "success" /\ m.nat = task'[m.by].nat
      BY <1>3, <2>2
    <2> QED
      BY <2>1, <2>2 DEF Told
  <1> QED
    BY <1>4, <1>6, <1>7 DEF MovingInv

\* The same, while the path stays as it is.
LEMMA MovingOwn ==
  ASSUME MovingInv, NEW h \in Handlers, NEW r,
         HandlerOK(r, conn), r.nat <= conn.net, task' = [task EXCEPT ![h] = r],
         now' = now, conn' = conn, cache' \in 0 .. conn.net, task[h].pc # "success",
         \/ heard' = heard
         \/ heard' = heard \cup {[by |-> h, nat |-> r.nat]} /\ r.pc = "success"
  PROVE  MovingInv'
  <1>1. /\ HandlerOK(r, conn') /\ r.nat <= conn'.net /\ cache' \in 0 .. conn'.net
        /\ conn' \in [net : Nat, ip : BOOLEAN, lost : BOOLEAN] /\ (conn.lost => conn'.lost)
    BY DEF MovingInv, Moving!TypeOK
  <1>2. conn.net <= conn'.net
    BY DEF MovingInv, Moving!TypeOK
  <1> QED
    BY <1>1, <1>2, MovingMove, Zenon

LEMMA MovingStep ==
  MovingInv /\ Moving!Next => MovingInv'
  <1> SUFFICES ASSUME MovingInv, Moving!Next PROVE MovingInv'
    OBVIOUS
  <1>1. /\ now \in 0 .. MaxTime /\ conn \in [net : Nat, ip : BOOLEAN, lost : BOOLEAN]
        /\ task \in [Handlers -> Moving!Task] /\ cache \in 0 .. conn.net /\ conn.net \in Nat
        /\ now \in Nat
    BY DEF MovingInv, Moving!TypeOK
  <1>2. CASE Moving!Tick
    <2>1. now' \in 0 .. MaxTime /\ UNCHANGED <<conn, task, cache, heard>>
      BY <1>1, <1>2, MovingAssumption DEF Moving!Tick
    <2> QED
      BY <1>1, <2>1 DEF MovingInv, Moving!TypeOK, Told, HandlerOK
  <1>3. CASE Moving!Quinn
    <2>1. UNCHANGED <<now, task, cache, heard>>
      BY <1>3 DEF Moving!Quinn
    <2>2. /\ conn' \in [net : Nat, ip : BOOLEAN, lost : BOOLEAN] /\ conn'.net = conn.net
          /\ conn.lost => conn'.lost
      BY <1>1, <1>3, Zenon DEF Moving!Quinn
    <2>3. \A h \in Handlers : HandlerOK(task[h], conn')
      BY <1>1, <2>2, HandlerKept DEF MovingInv
    <2>4. Moving!TypeOK'
      BY <1>1, <2>1, <2>2 DEF MovingInv, Moving!TypeOK
    <2> QED
      BY <2>1, <2>2, <2>3, <2>4 DEF MovingInv, Told
  <1>4. ASSUME NEW h \in Handlers, Moving!NetworkChange(h) \/ Moving!Handle(h) PROVE MovingInv'
    <2> DEFINE q == task[h]
    <2>1. /\ HandlerOK(q, conn) /\ q.nat <= conn.net /\ q \in Moving!Task /\ q.nat \in Nat
          /\ q.net \in Nat /\ q.began \in Nat /\ q.event \in Moving!NetworkChangeEvent \cup {"none"}
      BY <1>1 DEF MovingInv, Moving!Task
    <2>2. CASE Moving!NetworkChange(h)
      <3>1. PICK e \in Events, known \in BOOLEAN :
              /\ task' = [task EXCEPT ![h].pc = "wait", ![h].event = e, ![h].began = now,
                                      ![h].net = conn.net + 1]
              /\ conn' = [conn EXCEPT !.net = @ + 1, !.ip = known]
        BY <2>2, Zenon DEF Moving!NetworkChange
      <3> DEFINE r == [q EXCEPT !.pc = "wait", !.event = e, !.began = now, !.net = conn.net + 1]
      <3>2. task' = [task EXCEPT ![h] = r] /\ UNCHANGED <<now, cache, heard>> /\ q.pc = "none"
        BY <1>1, <2>2, <3>1, Zenon DEF Moving!NetworkChange
      <3>3. e \in Moving!NetworkChangeEvent /\ conn.net + 1 \in Nat
        BY <1>1, MovingAssumption
      <3>4. /\ r \in Moving!Task /\ r.pc = "wait" /\ r.net = conn.net + 1 /\ r.nat = q.nat
        BY <1>1, <2>1, <3>3, Zenon DEF Moving!Task
      <3>5. /\ conn' \in [net : Nat, ip : BOOLEAN, lost : BOOLEAN] /\ conn'.net = conn.net + 1
            /\ conn'.lost = conn.lost
        BY <1>1, <3>1, <3>3, Zenon
      <3> HIDE DEF q, r
      <3>6. q.nat = 0
        BY <2>1, <3>2 DEF HandlerOK
      <3>7. HandlerOK(r, conn') /\ r.nat <= conn'.net
        BY <1>1, <3>4, <3>5, <3>6 DEF HandlerOK
      <3>8. cache' \in 0 .. conn'.net /\ conn.net <= conn'.net /\ (conn.lost => conn'.lost)
        BY <1>1, <3>2, <3>5
      <3> QED
        BY <3>2, <3>5, <3>7, <3>8, MovingMove, Zenon DEF q
    <2>3. CASE Moving!Poll(h)
      <3>1. /\ q.pc = "wait" /\ UNCHANGED <<now, conn, cache, heard>>
        BY <2>3 DEF Moving!Poll
      <3>2. CASE task' = task
        BY <1>1, <3>1, <3>2 DEF MovingInv, Moving!TypeOK, Told, HandlerOK
      <3>3. CASE task' # task
        <4>1. PICK p, t :
                /\ task' = [task EXCEPT ![h] = [q EXCEPT !.pc = p, !.ended = t]] /\ t \in Nat
                /\ \/ p = "reprobe"
                   \/ p = "failed" /\ conn.lost
                   \/ p = "timedOut" /\ t - q.began > Timeout
          <5>1. CASE task' = [task EXCEPT ![h].pc = "reprobe"]
            <6>1. q.ended \in Nat /\ [q EXCEPT !.pc = "reprobe"] = [q EXCEPT !.pc = "reprobe", !.ended = q.ended]
              BY <2>1, Zenon DEF Moving!Task
            <6> QED
              BY <1>1, <5>1, <6>1, Zenon
          <5>2. CASE Moving!Finish(h, "failed") /\ conn.lost
            BY <1>1, <5>2, Zenon DEF Moving!Finish
          <5>3. CASE Moving!Finish(h, "timedOut") /\ now - q.began > Timeout
            BY <1>1, <5>3, Zenon DEF Moving!Finish
          <5> QED
            BY <2>3, <3>3, <5>1, <5>2, <5>3, Zenon DEF Moving!Poll
        <4> DEFINE r == [q EXCEPT !.pc = p, !.ended = t]
        <4>2. /\ r \in Moving!Task /\ r.pc = p /\ r.ended = t /\ r.nat = q.nat /\ r.net = q.net
              /\ r.began = q.began /\ r.event = q.event
          BY <2>1, <4>1, Zenon DEF Moving!Task, Moving!Ended
        <4>3. task' = [task EXCEPT ![h] = r]
          BY <4>1
        <4> HIDE DEF q, r
        <4>4. HandlerOK(r, conn)
          BY <2>1, <3>1, <4>1, <4>2 DEF HandlerOK
        <4> QED
          <5>1. task[h].pc # "success" /\ r.nat <= conn.net
            BY <2>1, <3>1, <4>2 DEF q
          <5> QED
            BY <1>1, <3>1, <4>3, <4>4, <5>1, MovingOwn, ZenonT(40)
      <3> QED
        BY <3>2, <3>3
    <2>4. CASE Moving!invalidate_cache(h)
      <3> DEFINE p == IF Moving!requires_nat_reprobe(q.event) THEN "probing" ELSE "notify"
                 r == [q EXCEPT !.pc = p]
      <3>1. /\ q.pc = "reprobe" /\ task' = [task EXCEPT ![h] = r] /\ UNCHANGED <<now, conn, heard>>
            /\ cache' \in {0, cache}
        BY <1>1, <2>4 DEF Moving!invalidate_cache
      <3>2. p \in {"probing", "notify"} /\ (p = "probing" => Moving!requires_nat_reprobe(q.event))
        OBVIOUS
      <3> HIDE DEF p
      <3>3. /\ r \in Moving!Task /\ r.pc = p /\ r.nat = q.nat /\ r.net = q.net /\ r.event = q.event
        BY <2>1, <3>2 DEF Moving!Task
      <3> HIDE DEF q, r
      <3>4. HandlerOK(r, conn) /\ cache' \in 0 .. conn.net
        BY <1>1, <2>1, <3>1, <3>2, <3>3 DEF HandlerOK
      <3> QED
        <4>1. task[h].pc # "success" /\ r.nat <= conn.net
          BY <2>1, <3>1, <3>3 DEF q
        <4> QED
          BY <3>1, <3>4, <4>1, MovingOwn, ZenonT(40)
    <2>5. CASE Moving!probe(h)
      <3>1. PICK n \in {conn.net, q.nat} :
              /\ task' = [task EXCEPT ![h] = [q EXCEPT !.pc = "notify", !.nat = n]]
              /\ cache' \in {conn.net, cache}
        <4>1. [q EXCEPT !.pc = "notify"] = [q EXCEPT !.pc = "notify", !.nat = q.nat]
          BY <2>1, Zenon DEF Moving!Task
        <4> QED
          BY <1>1, <2>5, <4>1 DEF Moving!probe
      <3> DEFINE r == [q EXCEPT !.pc = "notify", !.nat = n]
      <3>2. q.pc = "probing" /\ UNCHANGED <<now, conn, heard>>
        BY <2>5 DEF Moving!probe
      <3>3. /\ r \in Moving!Task /\ r.pc = "notify" /\ r.nat = n /\ r.net = q.net /\ r.event = q.event
        BY <1>1, <2>1, <3>1, Zenon DEF Moving!Task
      <3>4. task' = [task EXCEPT ![h] = r]
        BY <3>1
      <3> HIDE DEF q, r
      <3>5. HandlerOK(r, conn) /\ cache' \in 0 .. conn.net /\ r.nat <= conn.net
        BY <1>1, <2>1, <3>1, <3>2, <3>3 DEF HandlerOK
      <3> QED
        <4>1. task[h].pc # "success"
          BY <3>2 DEF q
        <4> QED
          BY <3>2, <3>4, <3>5, <4>1, MovingOwn, ZenonT(40)
    <2>6. CASE Moving!send_migration_notification(h)
      <3> DEFINE r == [q EXCEPT !.pc = "success", !.ended = now]
      <3>1. /\ q.pc = "notify" /\ task' = [task EXCEPT ![h] = r] /\ UNCHANGED <<now, conn, cache>>
            /\ (heard' = heard \/ heard' = heard \cup {[by |-> h, nat |-> q.nat]})
        BY <1>1, <2>6, Zenon DEF Moving!send_migration_notification, Moving!Finish
      <3>2. /\ r \in Moving!Task /\ r.pc = "success" /\ r.nat = q.nat /\ r.net = q.net
            /\ r.event = q.event
        BY <1>1, <2>1, Zenon DEF Moving!Task, Moving!Ended
      <3> HIDE DEF q, r
      <3>3. HandlerOK(r, conn)
        BY <1>1, <2>1, <3>1, <3>2 DEF HandlerOK
      <3> QED
        <4>1. task[h].pc # "success" /\ r.nat <= conn.net
          BY <2>1, <3>1, <3>2, Zenon DEF q
        <4> QED
          BY <1>1, <3>1, <3>2, <3>3, <4>1, MovingOwn, ZenonT(40)
    <2> QED
      BY <1>4, <2>2, <2>3, <2>4, <2>5, <2>6 DEF Moving!Handle
  <1> QED
    BY <1>2, <1>3, <1>4 DEF Moving!Next

LEMMA MovingStutters ==
  ASSUME MovingInv, UNCHANGED Moving!vars
  PROVE  MovingInv'
  <1>1. now' = now /\ conn' = conn /\ task' = task /\ cache' = cache /\ heard' = heard
    BY Zenon DEF Moving!vars
  <1> QED
    BY <1>1, Zenon DEF MovingInv, Told, Moving!TypeOK

LEMMA MovingHolds ==
  MovingInv => Moving!ToldWhatWasProbed /\ Moving!FailsOnlyWithPath
  <1> SUFFICES ASSUME MovingInv PROVE Moving!ToldWhatWasProbed /\ Moving!FailsOnlyWithPath
    OBVIOUS
  <1>1. \A m \in heard : m.by \in Handlers
    BY DEF MovingInv, Moving!TypeOK
  <1> QED
    BY <1>1, Zenon DEF MovingInv, HandlerOK, Told, Moving!ToldWhatWasProbed, Moving!FailsOnlyWithPath

----------------------------------------------------------------------------
(* The wire format *)

\* What is read of a member of the enum E, now and after every further hop.
Meant(E, i) == IF i < Len(E) THEN E[i + 1] ELSE E[1]

\* Encoding a member and decoding it gives the member.
LEMMA RoundTrip ==
  ASSUME NEW E, Len(E) \in Nat \ {0}, NEW v \in Trip!Members(E)
  PROVE  Trip!ToWire(E, v) \in 0 .. Len(E) - 1 /\ Trip!FromWire(E, Trip!ToWire(E, v)) = v
  <1>1. PICK i \in 1 .. Len(E) : E[i] = v
    BY Zenon DEF Trip!Members
  <1>2. i - 1 \in 0 .. Len(E) - 1 /\ E[(i - 1) + 1] = v
    BY <1>1
  <1> DEFINE w == Trip!ToWire(E, v)
  <1>3. w \in 0 .. Len(E) - 1 /\ E[w + 1] = v
    BY <1>2, Zenon DEF Trip!ToWire
  <1> HIDE DEF w
  <1>4. Trip!FromWire(E, w) = v
    BY <1>3 DEF Trip!FromWire
  <1> QED
    BY <1>3, <1>4 DEF w

LEMMA MeantMember ==
  ASSUME NEW E, Len(E) \in Nat \ {0}, NEW i \in Nat
  PROVE  Meant(E, i) \in Trip!Members(E) /\ Trip!FromWire(E, i) = Meant(E, i)
  <1>1. i < Len(E) => i + 1 \in 1 .. Len(E)
    OBVIOUS
  <1>2. 1 \in 1 .. Len(E)
    OBVIOUS
  <1>3. Meant(E, i) \in Trip!Members(E)
    BY <1>1, <1>2 DEF Meant, Trip!Members
  <1>4. i \in 0 .. Len(E) - 1 <=> i < Len(E)
    OBVIOUS
  <1> QED
    BY <1>3, <1>4 DEF Meant, Trip!FromWire

\* Every table has members, and NATInfo is not one of the tables.
LEMMA Tables ==
  /\ \A k \in DOMAIN Trip!Enums : Len(Trip!Enums[k]) \in Nat \ {0}
  /\ "NATInfo" \notin DOMAIN Trip!Enums
  <1> DEFINE N == Nat \ {0}
  <1>1. /\ Len(Trip!NATType) \in N /\ Len(Trip!PredictionConfidence) \in N
        /\ Len(Trip!ProbeMethod) \in N /\ Len(Trip!DiscoveryMethod) \in N /\ Len(Trip!MediaType) \in N
    BY DEF Trip!NATType, Trip!PredictionConfidence, Trip!ProbeMethod, Trip!DiscoveryMethod,
           Trip!MediaType
  <1>2. /\ Len(Trip!CallState) \in N /\ Len(Trip!SubscriptionState) \in N
        /\ Len(Trip!PeerStatus) \in N /\ Len(Trip!ConnectionMethod) \in N
        /\ Len(Trip!CallEndReason) \in N
    BY DEF Trip!CallState, Trip!SubscriptionState, Trip!PeerStatus, Trip!ConnectionMethod,
           Trip!CallEndReason
  <1>3. "NATInfo" \notin DOMAIN Trip!Enums
    BY DEF Trip!Enums
  <1>4. ASSUME NEW k \in DOMAIN Trip!Enums PROVE Len(Trip!Enums[k]) \in N
    <2> DEFINE E == Trip!Enums
    <2>1. k \in {"NATType", "PredictionConfidence", "ProbeMethod", "DiscoveryMethod", "MediaType",
                 "CallState", "SubscriptionState", "PeerStatus", "ConnectionMethod", "CallEndReason"}
      BY DEF Trip!Enums
    <2>2. /\ E["NATType"] = Trip!NATType /\ E["PredictionConfidence"] = Trip!PredictionConfidence
          /\ E["ProbeMethod"] = Trip!ProbeMethod /\ E["DiscoveryMethod"] = Trip!DiscoveryMethod
          /\ E["MediaType"] = Trip!MediaType
      BY DEF Trip!Enums
    <2>3. /\ E["CallState"] = Trip!CallState /\ E["SubscriptionState"] = Trip!SubscriptionState
          /\ E["PeerStatus"] = Trip!PeerStatus /\ E["ConnectionMethod"] = Trip!ConnectionMethod
          /\ E["CallEndReason"] = Trip!CallEndReason
      BY DEF Trip!Enums
    <2> HIDE DEF E, N
    <2>4. Len(E[k]) \in N
      BY <1>1, <1>2, <2>1, <2>2, <2>3, Zenon
    <2> QED
      BY <2>4 DEF E
  <1> QED
    BY <1>3, <1>4

\* The NAT information the constructors make.
LEMMA ConstructedNat ==
  ASSUME NEW n \in Trip!Constructed
  PROVE  /\ Trip!NatInfoFromWire(Trip!NatInfoToWire(n)) = n
         /\ Trip!is_predictable(n.nat_type) <=> n.prediction \in {"Sequential", "PseudoSequential"}
  <1> DEFINE P == Trip!PredictionConfidence
             T == Trip!NATType
  <1>1. /\ Len(P) = 3 /\ P[1] = "Sequential" /\ P[2] = "PseudoSequential" /\ P[3] = "Random"
        /\ Len(T) = 5 /\ T[1] = "None" /\ T[2] = "Cone" /\ T[3] = "SymmetricSequential"
        /\ T[4] = "SymmetricPseudo" /\ T[5] = "SymmetricRandom"
    BY DEF Trip!PredictionConfidence, Trip!NATType
  <1> HIDE DEF P, T
  <1>2. \A c \in Trip!Members(P) : c \in {"Sequential", "PseudoSequential", "Random"}
    BY <1>1 DEF Trip!Members
  <1>3. {"Sequential", "PseudoSequential", "Random"} \subseteq Trip!Members(P)
    <2>1. P[1] \in Trip!Members(P) /\ P[2] \in Trip!Members(P) /\ P[3] \in Trip!Members(P)
      BY <1>1 DEF Trip!Members
    <2> QED
      BY <1>1, <2>1
  <1>4. {"None", "Cone", "SymmetricSequential", "SymmetricPseudo", "SymmetricRandom"} \subseteq Trip!Members(T)
    <2>1. /\ T[1] \in Trip!Members(T) /\ T[2] \in Trip!Members(T) /\ T[3] \in Trip!Members(T)
          /\ T[4] \in Trip!Members(T) /\ T[5] \in Trip!Members(T)
      BY <1>1 DEF Trip!Members
    <2> QED
      BY <1>1, <2>1
  <1>5. PICK a \in Trip!Members(T), b \in Trip!Members(P) \cup {"absent"} :
          /\ n = [nat_type |-> a, prediction |-> b]
          /\ Trip!is_predictable(a) <=> b \in {"Sequential", "PseudoSequential"}
    <2>1. n \in {Trip!no_nat, Trip!cone_nat} \/ \E c \in Trip!Members(P) : n = Trip!symmetric_with_prediction(c)
      BY DEF Trip!Constructed, P
    <2>2. CASE n = Trip!no_nat
      BY <1>4, <2>2, Zenon DEF Trip!no_nat, Trip!NoPrediction, Trip!is_predictable
    <2>3. CASE n = Trip!cone_nat
      BY <1>4, <2>3, Zenon DEF Trip!cone_nat, Trip!NoPrediction, Trip!is_predictable
    <2>4. CASE n = Trip!symmetric_with_prediction("Sequential")
      BY <1>3, <1>4, <2>4 DEF Trip!symmetric_with_prediction, Trip!is_predictable
    <2>5. CASE n = Trip!symmetric_with_prediction("PseudoSequential")
      BY <1>3, <1>4, <2>5 DEF Trip!symmetric_with_prediction, Trip!is_predictable
    <2>6. CASE n = Trip!symmetric_with_prediction("Random")
      BY <1>3, <1>4, <2>6 DEF Trip!symmetric_with_prediction, Trip!is_predictable
    <2> QED
      BY <1>2, <2>1, <2>2, <2>3, <2>4, <2>5, <2>6
  <1> DEFINE w == Trip!NatInfoToWire(n)
  <1>6. n.nat_type = a /\ n.prediction = b
    BY <1>5
  <1>7. /\ w.nat_type = Trip!ToWire(T, a)
        /\ w.prediction = IF b = "absent" THEN {} ELSE {Trip!ToWire(P, b)}
    <2>1. w = [nat_type |-> Trip!ToWire(T, a),
               prediction |-> IF b = "absent" THEN {} ELSE {Trip!ToWire(P, b)}]
      BY <1>6, Zenon DEF Trip!NatInfoToWire, Trip!NoPrediction, P, T
    <2> HIDE DEF w
    <2> QED
      BY <2>1
  <1> HIDE DEF w
  <1>8. Trip!FromWire(T, w.nat_type) = a
    BY <1>1, <1>5, <1>7, RoundTrip
  <1>9. (IF w.prediction = {} THEN "absent" ELSE Trip!FromWire(P, CHOOSE i \in w.prediction : TRUE)) = b
    <2>1. CASE b = "absent"
      BY <1>7, <2>1
    <2>2. CASE b # "absent"
      <3>1. Trip!FromWire(P, Trip!ToWire(P, b)) = b
        <4>1. Len(P) \in Nat \ {0} /\ b \in Trip!Members(P)
          BY <1>1, <2>2
        <4> QED
          BY <4>1, RoundTrip, Zenon
      <3>2. w.prediction = {Trip!ToWire(P, b)} /\ (CHOOSE i \in w.prediction : TRUE) = Trip!ToWire(P, b)
        BY <1>7, <2>2
      <3> QED
        BY <3>1, <3>2
    <2> QED
      BY <2>1, <2>2
  <1>10. Trip!NatInfoFromWire(w) = [nat_type |-> a, prediction |-> b]
    BY <1>8, <1>9 DEF Trip!NatInfoFromWire, Trip!NoPrediction, P, T
  <1> QED
    BY <1>5, <1>6, <1>10 DEF w

\* What is on its way, and what was read of it last.
WireInv ==
  /\ hops \in 0 .. 4
  /\ \/ /\ kind = "NATInfo" /\ sent \in Trip!Constructed
        /\ hops \in {0, 2, 4} => wire = Trip!NatInfoToWire(sent)
        /\ hops # 0 => read = sent
     \/ /\ kind \in DOMAIN Trip!Enums /\ sent \in Nat
        /\ hops = 0 => wire = sent
        /\ hops \in {2, 4} => wire = Trip!ToWire(Trip!Enums[kind], Meant(Trip!Enums[kind], sent))
        /\ hops # 0 => read = Meant(Trip!Enums[kind], sent)

LEMMA WireInit ==
  Trip!Init => WireInv
  <1> SUFFICES ASSUME Trip!Init PROVE WireInv
    OBVIOUS
  <1>1. CASE kind = "NATInfo" /\ sent \in Trip!Constructed /\ wire = Trip!NatInfoToWire(sent)
    BY <1>1 DEF Trip!Init, WireInv
  <1>2. CASE kind \in DOMAIN Trip!Enums /\ sent \in Trip!Codes(kind) /\ wire = sent
    <2>1. sent \in Nat
      BY <1>2, Tables, WireAssumption DEF Trip!Codes
    <2> QED
      BY <1>2, <2>1 DEF Trip!Init, WireInv
  <1> QED
    BY <1>1, <1>2 DEF Trip!Init

LEMMA WireStep ==
  WireInv /\ Trip!Next => WireInv'
  <1> SUFFICES ASSUME WireInv, Trip!Next PROVE WireInv'
    OBVIOUS
  <1> DEFINE E == Trip!Enums[kind]
  <1>1. CASE Trip!Decode
    <2>1. hops \in {0, 2} /\ hops' = hops + 1 /\ UNCHANGED <<kind, sent, wire>>
      BY <1>1 DEF WireInv, Trip!Decode
    <2>2. CASE kind = "NATInfo"
      <3>1. sent \in Trip!Constructed /\ wire = Trip!NatInfoToWire(sent)
        BY <2>1, <2>2, Tables DEF WireInv
      <3>2. read' = sent
        BY <1>1, <2>2, <3>1, ConstructedNat DEF Trip!Decode
      <3> QED
        BY <2>1, <2>2, <3>1, <3>2 DEF WireInv
    <2>3. CASE kind # "NATInfo"
      <3>1. /\ kind \in DOMAIN Trip!Enums /\ sent \in Nat
            /\ wire = sent \/ wire = Trip!ToWire(E, Meant(E, sent))
        BY <2>1, <2>3 DEF WireInv
      <3>2. Len(E) \in Nat \ {0}
        BY <3>1, Tables
      <3> HIDE DEF E
      <3>3. Trip!FromWire(E, wire) = Meant(E, sent)
        BY <3>1, <3>2, MeantMember, RoundTrip
      <3>4. read' = Meant(E, sent)
        BY <1>1, <2>3, <3>3 DEF Trip!Decode, E
      <3> QED
        BY <2>1, <3>1, <3>4 DEF WireInv, E
    <2> QED
      BY <2>2, <2>3
  <1>2. CASE Trip!Encode
    <2>1. hops \in {1, 3} /\ hops' = hops + 1 /\ UNCHANGED <<kind, sent, read>>
      BY <1>2 DEF WireInv, Trip!Encode
    <2>2. CASE kind = "NATInfo"
      <3>1. sent \in Trip!Constructed /\ read = sent
        BY <2>1, <2>2, Tables DEF WireInv
      <3>2. wire' = Trip!NatInfoToWire(sent)
        BY <1>2, <2>2, <3>1 DEF Trip!Encode
      <3> QED
        BY <2>1, <2>2, <3>1, <3>2 DEF WireInv
    <2>3. CASE kind # "NATInfo"
      <3>1. kind \in DOMAIN Trip!Enums /\ sent \in Nat /\ read = Meant(E, sent)
        BY <2>1, <2>3 DEF WireInv
      <3>2. wire' = Trip!ToWire(E, Meant(E, sent))
        BY <1>2, <2>3, <3>1 DEF Trip!Encode
      <3> QED
        BY <2>1, <3>1, <3>2 DEF WireInv
    <2> QED
      BY <2>2, <2>3
  <1> QED
    BY <1>1, <1>2 DEF Trip!Next

LEMMA WireStutters ==
  ASSUME WireInv, UNCHANGED Trip!vars
  PROVE  WireInv'
  <1>1. kind' = kind /\ sent' = sent /\ wire' = wire /\ read' = read /\ hops' = hops
    BY Zenon DEF Trip!vars
  <1> QED
    BY <1>1, Zenon DEF WireInv

LEMMA WireHolds ==
  WireInv => Trip!KnownSurvives /\ Trip!NatInfoKeepsMeaning
  <1> SUFFICES ASSUME WireInv PROVE Trip!KnownSurvives /\ Trip!NatInfoKeepsMeaning
    OBVIOUS
  <1>1. Trip!KnownSurvives
    BY DEF WireInv, Trip!KnownSurvives, Meant
  <1>2. Trip!NatInfoKeepsMeaning
    BY Tables, ConstructedNat DEF WireInv, Trip!NatInfoKeepsMeaning
  <1> QED
    BY <1>1, <1>2
=============================================================================
