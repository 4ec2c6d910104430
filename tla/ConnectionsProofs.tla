-------------------------- MODULE ConnectionsProofs --------------------------
(***************************************************************************)
(* Theorems about the parts of MCConnections, for any sets of addresses,   *)
(* ports, peers and tasks.  A lemma shows that a part's steps preserve an  *)
(* invariant of that part; a theorem then follows for every behaviour of   *)
(* the composition, since a behaviour takes steps of one part only.        *)
(***************************************************************************)
EXTENDS MCConnections, TLAPS, Sequences

----------------------------------------------------------------------------
(* The two races *)

EyeballsInv == Eyeballs!TypeOK /\ Eyeballs!ResultOnReturn /\ Eyeballs!NothingLeftBehind

\* A race starts with its IPv6 attempts running and no result.
LEMMA EyeballsInit ==
  ASSUME IPv6 \cap IPv4 = {}, Eyeballs!Init
  PROVE  EyeballsInv
  BY Zenon DEF Eyeballs!Init, EyeballsInv, Eyeballs!TypeOK, Eyeballs!ResultOnReturn,
         Eyeballs!NothingLeftBehind, Eyeballs!Addrs, Eyeballs!States

\* No step of happy_eyeballs_connect leaves an attempt behind.
LEMMA EyeballsStep ==
  ASSUME IPv6 \cap IPv4 = {}, EyeballsInv, Eyeballs!Next
  PROVE  EyeballsInv'
  <1> USE DEF EyeballsInv, Eyeballs!TypeOK, Eyeballs!ResultOnReturn,
              Eyeballs!NothingLeftBehind, Eyeballs!Addrs, Eyeballs!States
  <1>1. CASE Eyeballs!HeadStartOver
    BY <1>1 DEF Eyeballs!HeadStartOver
  <1>2. CASE Eyeballs!JoinNone
    BY <1>2 DEF Eyeballs!JoinNone
  <1>3. ASSUME NEW a \in Eyeballs!Addrs, Eyeballs!connect_with_timeout(a) PROVE EyeballsInv'
    BY <1>3 DEF Eyeballs!connect_with_timeout
  <1>4. ASSUME NEW a \in Eyeballs!Addrs, Eyeballs!JoinOk(a) PROVE EyeballsInv'
    BY <1>4 DEF Eyeballs!JoinOk, Eyeballs!Aborted
  <1>5. ASSUME NEW a \in Eyeballs!Addrs, Eyeballs!JoinErr(a) PROVE EyeballsInv'
    BY <1>5 DEF Eyeballs!JoinErr
  <1> QED
    BY <1>1, <1>2, <1>3, <1>4, <1>5 DEF Eyeballs!Next

\* Every step of happy_eyeballs_connect is a step of the abstract race, or
\* changes neither the fate of an attempt nor the result.
LEMMA EyeballsRefines ==
  ASSUME EyeballsInv, part = "eyeballs", part' = part, Eyeballs!Next
  PROVE  [EyeballsRace!Next]_(EyeballsRace!vars)
  <1> DEFINE Fate(s) == Eyeballs!Fate(s)
             Addrs == IPv6 \cup IPv4
  <1>0. /\ attempt \in [Addrs -> Eyeballs!States]
        /\ EyeballsFates = [a \in Addrs |-> Fate(attempt[a])]
        /\ EyeballsFates' = [a \in Addrs |-> Fate(attempt'[a])]
        /\ EyeballsResult = result /\ EyeballsResult' = result'
        /\ pc # "returned" => result = "none"
    BY DEF EyeballsInv, Eyeballs!TypeOK, Eyeballs!ResultOnReturn, Eyeballs!Addrs,
           Eyeballs!Fates, EyeballsFates, EyeballsResult
  <1>1. EyeballsFates' \in [Addrs -> {"pending", "ok", "failed"}]
    BY <1>0 DEF Eyeballs!Fate
  <1>2. CASE Eyeballs!HeadStartOver
    BY <1>0, <1>2 DEF Eyeballs!HeadStartOver, Eyeballs!Fate, EyeballsInv, Eyeballs!TypeOK,
                      Eyeballs!Addrs, EyeballsRace!vars
  <1>3. CASE Eyeballs!JoinNone
    BY <1>0, <1>1, <1>3 DEF Eyeballs!JoinNone, Eyeballs!Addrs, Eyeballs!Fate,
             EyeballsRace!Next, EyeballsRace!Fail, EyeballsRace!GivesUpPending
  <1>4. ASSUME NEW a \in Addrs, Eyeballs!connect_with_timeout(a)
        PROVE  EyeballsRace!Settle
    <2>1. PICK r \in {"ok", "err"} : attempt' = [attempt EXCEPT ![a] = r]
      BY <1>4, Zenon DEF Eyeballs!connect_with_timeout
    <2>2. attempt[a] = "running" /\ UNCHANGED <<pc, result>>
      BY <1>4 DEF Eyeballs!connect_with_timeout
    <2>3. EyeballsResult = "none" /\ EyeballsResult' = EyeballsResult
      BY <1>0, <2>2 DEF EyeballsInv, Eyeballs!NothingLeftBehind, Eyeballs!Addrs
    <2>4. EyeballsFates[a] = "pending" /\ Fate(r) \in {"ok", "failed"}
      BY <1>0, <2>2 DEF Eyeballs!Fate
    <2>5. EyeballsFates' = [EyeballsFates EXCEPT ![a] = Fate(r)]
      BY <1>0, <2>1, Zenon
    <2> QED
      BY <2>3, <2>4, <2>5, Zenon DEF EyeballsRace!Settle
  <1>5. ASSUME NEW a \in Addrs, Eyeballs!JoinOk(a)
        PROVE  EyeballsRace!Win(a)
    BY <1>0, <1>1, <1>5 DEF Eyeballs!JoinOk, Eyeballs!Aborted, Eyeballs!Addrs, Eyeballs!Fate,
            EyeballsRace!Win, EyeballsRace!GivesUpPending
  <1>6. ASSUME NEW a \in Addrs, Eyeballs!JoinErr(a)
        PROVE  UNCHANGED EyeballsRace!vars
    BY <1>0, <1>6 DEF Eyeballs!JoinErr, Eyeballs!Fate, EyeballsRace!vars
  <1> QED
    BY <1>2, <1>3, <1>4, <1>5, <1>6 DEF Eyeballs!Next, Eyeballs!Addrs, EyeballsRace!Next

ProbingInv == Probing!TypeOK /\ Probing!ResultOnReturn /\ Probing!ErrorMeansExhausted

\* The probe starts with every port's attempt running.
LEMMA ProbingInit ==
  ASSUME Probing!Init
  PROVE  ProbingInv
  BY Zenon DEF Probing!Init, ProbingInv, Probing!TypeOK, Probing!ResultOnReturn,
         Probing!ErrorMeansExhausted, Probing!States

\* No step of probe_range gives an error for ports it has not tried, or leaves an
\* attempt running.
LEMMA ProbingStep ==
  ASSUME "error" \notin Ports, ProbingInv, Probing!Next
  PROVE  ProbingInv'
  <1> USE DEF ProbingInv, Probing!TypeOK, Probing!ResultOnReturn,
              Probing!ErrorMeansExhausted, Probing!States
  <1>1. CASE Probing!Elapse
    BY <1>1 DEF Probing!Elapse
  <1>2. CASE Probing!AllPortsExhausted
    BY <1>2 DEF Probing!AllPortsExhausted
  <1>3. CASE Probing!PollPending
    BY <1>3 DEF Probing!PollPending
  <1>4. CASE Probing!ProbeTimeout
    BY <1>4 DEF Probing!ProbeTimeout, Probing!abort_all
  <1>5. ASSUME NEW p \in Ports, Probing!Attempt(p) PROVE ProbingInv'
    BY <1>5 DEF Probing!Attempt
  <1>6. ASSUME NEW p \in Ports, Probing!JoinSome(p) PROVE ProbingInv'
    BY <1>6 DEF Probing!JoinSome, Probing!abort_all
  <1>7. ASSUME NEW p \in Ports, Probing!JoinNone(p) PROVE ProbingInv'
    BY <1>7 DEF Probing!JoinNone
  <1> QED
    BY <1>1, <1>2, <1>3, <1>4, <1>5, <1>6, <1>7 DEF Probing!Next

\* Every step of probe_range is a step of the abstract race with a deadline, or
\* changes neither the fate of an attempt nor the result.
LEMMA ProbingRefines ==
  ASSUME ProbingInv, part = "probing", part' = part, Probing!Next
  PROVE  [ProbingRace!Next]_(ProbingRace!vars)
  <1> DEFINE Fate(s) == Probing!Fate(s)
  <1>0. /\ attempt \in [Ports -> Probing!States]
        /\ ProbingFates = [p \in Ports |-> Fate(attempt[p])]
        /\ ProbingFates' = [p \in Ports |-> Fate(attempt'[p])]
        /\ ProbingResult = result /\ ProbingResult' = result'
        /\ pc # "returned" => result = "none"
    BY DEF ProbingInv, Probing!TypeOK, Probing!ResultOnReturn,
           Probing!Fates, ProbingFates, ProbingResult
  <1>1. ProbingFates' \in [Ports -> {"pending", "ok", "failed"}]
    BY <1>0 DEF Probing!Fate
  <1>2. CASE Probing!Elapse \/ Probing!PollPending
    BY <1>0, <1>2 DEF Probing!Elapse, Probing!PollPending, ProbingRace!vars
  <1>3. CASE Probing!AllPortsExhausted
    BY <1>0, <1>1, <1>3 DEF Probing!AllPortsExhausted, Probing!Fate,
             ProbingRace!Next, ProbingRace!Fail, ProbingRace!GivesUpPending
  <1>4. CASE Probing!ProbeTimeout
    BY <1>0, <1>1, <1>4 DEF Probing!ProbeTimeout, Probing!abort_all, Probing!Fate,
             ProbingRace!vars, ProbingRace!Next, ProbingRace!Fail, ProbingRace!GivesUpPending
  <1>5. ASSUME NEW p \in Ports, Probing!Attempt(p)
        PROVE  ProbingRace!Settle
    <2>1. PICK r \in {"some", "none"} : attempt' = [attempt EXCEPT ![p] = r]
      BY <1>5, Zenon DEF Probing!Attempt
    <2>2. attempt[p] = "running" /\ UNCHANGED <<pc, result>>
      BY <1>5 DEF Probing!Attempt
    <2>3. ProbingResult = "none" /\ ProbingResult' = ProbingResult
      BY <1>0, <2>2 DEF ProbingInv, Probing!ErrorMeansExhausted
    <2>4. ProbingFates[p] = "pending" /\ Fate(r) \in {"ok", "failed"}
      BY <1>0, <2>2 DEF Probing!Fate
    <2>5. ProbingFates' = [ProbingFates EXCEPT ![p] = Fate(r)]
      BY <1>0, <2>1
    <2> QED
      BY <2>3, <2>4, <2>5, Zenon DEF ProbingRace!Settle
  <1>6. ASSUME NEW p \in Ports, Probing!JoinSome(p)
        PROVE  ProbingRace!Win(p)
    BY <1>0, <1>1, <1>6 DEF Probing!JoinSome, Probing!abort_all, Probing!Fate,
            ProbingRace!Win, ProbingRace!GivesUpPending
  <1>7. ASSUME NEW p \in Ports, Probing!JoinNone(p)
        PROVE  UNCHANGED ProbingRace!vars
    BY <1>0, <1>7 DEF Probing!JoinNone, Probing!Fate, ProbingRace!vars
  <1> QED
    BY <1>2, <1>3, <1>4, <1>5, <1>6, <1>7 DEF Probing!Next, ProbingRace!Next

----------------------------------------------------------------------------
(* The NAT prober *)

NatInv == Nat_!TypeOK /\ Nat_!StoresEnough /\ Nat_!NeverFromTooFew

\* What NatInv says of one task.
NatTaskOK(r) ==
  /\ r \in Nat_!TaskState
  /\ r.got <= r.asked
  /\ r.pc \in {"clear", "paths", "storeLocal"} => r.asked <= Paths
  /\ r.pc = "storeLocal" => r.got >= 3

\* The caches start empty and the tasks idle.
LEMMA NatInit ==
  ASSUME Nat_!Init
  PROVE  NatInv
  BY CountsAssumption
  DEF Nat_!Init, NatInv, Nat_!TypeOK, Nat_!TaskState, Nat_!StoresEnough,
      Nat_!NeverFromTooFew, Nat_!Idle, Nat_!NoResult, Nat_!Operations

\* A step that moves task t to a good state and stores nothing from too few
\* answers.
LEMMA NatMove ==
  ASSUME NatInv, NEW t \in Probers, NEW r, NatTaskOK(r), task' = [task EXCEPT ![t] = r],
         writer' \subseteq Probers,
         \A c \in {cache', local'} : c \in {cache, local, 0} \/ (c \in 0 .. Paths /\ c >= 3)
  PROVE  NatInv'
  <1>1. /\ cache' \in 0 .. Paths /\ local' \in 0 .. Paths
        /\ \A c \in {cache', local'} : c = 0 \/ c >= 3
    BY CountsAssumption DEF NatInv, Nat_!TypeOK, Nat_!NeverFromTooFew, Nat_!NoResult
  <1>2. task' \in [Probers -> Nat_!TaskState]
    BY DEF NatInv, Nat_!TypeOK, NatTaskOK
  <1>3. \A s \in Probers : NatTaskOK(task'[s])
    BY DEF NatInv, Nat_!TypeOK, Nat_!StoresEnough, NatTaskOK
  <1> QED
    BY <1>1, <1>2, <1>3
    DEF NatInv, Nat_!TypeOK, Nat_!StoresEnough, Nat_!NeverFromTooFew, Nat_!NoResult, NatTaskOK

\* No step of a task stores a conclusion from fewer than three answers.
LEMMA NatStep ==
  ASSUME NatInv, NEW t \in Probers,
         Nat_!Step(t) \/ \E op \in Nat_!Operations : Nat_!Start(t, op)
  PROVE  NatInv'
  <1> USE CountsAssumption
  <1> DEFINE q == task[t]
  <1>0. q \in Nat_!TaskState /\ NatTaskOK(q) /\ writer \subseteq Probers
    BY DEF NatInv, Nat_!TypeOK, Nat_!StoresEnough, NatTaskOK
  <1>1. q.asked \in Nat /\ q.got \in Nat /\ q.got <= q.asked
    BY <1>0 DEF NatTaskOK, Nat_!TaskState
  <1>2. ASSUME Nat_!Finish(t), UNCHANGED writer,
               \A c \in {cache', local'} : c \in {cache, local, 0} \/ (c \in 0 .. Paths /\ c >= 3)
        PROVE  NatInv'
    <2>1. NatTaskOK(Nat_!Idle)
      BY DEF NatTaskOK, Nat_!Idle, Nat_!TaskState
    <2> QED
      BY <1>0, <1>2, <2>1, NatMove, Zenon DEF Nat_!Finish
  <1>3. ASSUME NEW p \in {"paths", "storeLocal", "extend", "readBack"}, Nat_!Goto(t, p),
               p = "paths" => q.asked <= Paths,
               p = "storeLocal" => q.asked <= Paths /\ q.got >= 3,
               writer' \subseteq Probers, UNCHANGED local,
               cache' \in {cache, 0} \/ (cache' \in 0 .. Paths /\ cache' >= 3)
        PROVE  NatInv'
    <2> DEFINE r == [q EXCEPT !.pc = p]
    <2>1. r \in Nat_!TaskState /\ r.pc = p /\ r.asked = q.asked /\ r.got = q.got
      BY <1>0 DEF Nat_!TaskState
    <2>2. task' = [task EXCEPT ![t] = r]
      BY <1>3 DEF Nat_!Goto
    <2> HIDE DEF r
    <2>3. NatTaskOK(r)
      BY <1>1, <1>3, <2>1 DEF NatTaskOK
    <2> HIDE DEF q
    <2> QED
      BY <1>3, <2>2, <2>3, NatMove, Zenon
  <1>4. ASSUME Nat_!StartPaths(t, "paths"), UNCHANGED <<cache, writer, local>> PROVE NatInv'
    <2> DEFINE r == [q EXCEPT !.pc = "paths", !.asked = 0, !.got = 0]
    <2>1. r \in Nat_!TaskState /\ r.pc = "paths" /\ r.asked = 0 /\ r.got = 0
      BY <1>0, Zenon DEF Nat_!TaskState
    <2>2. task' = [task EXCEPT ![t] = r]
      BY <1>4, Zenon DEF Nat_!StartPaths
    <2> HIDE DEF r
    <2>3. NatTaskOK(r)
      BY <2>1 DEF NatTaskOK
    <2> HIDE DEF q
    <2> QED
      BY <1>0, <1>4, <2>2, <2>3, NatMove, Zenon
  <1>5. ASSUME NEW op \in Nat_!Operations, Nat_!Start(t, op) PROVE NatInv'
    <2> DEFINE p == Nat_!FirstPc[op]
               r == [Nat_!Idle EXCEPT !.op = op, !.pc = p]
    <2>1. p \in {"read", "paths", "refreshPaths", "clear"}
      BY DEF Nat_!FirstPc, Nat_!Operations
    <2> HIDE DEF p
    <2>2. r \in Nat_!TaskState /\ r.pc = p /\ r.asked = 0 /\ r.got = 0
      BY <2>1, Zenon DEF Nat_!TaskState, Nat_!Idle
    <2> HIDE DEF q
    <2>3. task' = [task EXCEPT ![t] = r] /\ UNCHANGED <<cache, writer, local>>
      BY <1>5, Zenon DEF Nat_!Start, p
    <2> HIDE DEF r
    <2>4. NatTaskOK(r)
      BY <2>1, <2>2 DEF NatTaskOK
    <2> QED
      BY <1>0, <2>3, <2>4, NatMove, Zenon
  <1>6. CASE Nat_!cached_nat_info(t)
    BY <1>2, <1>6 DEF Nat_!cached_nat_info
  <1>7. CASE Nat_!invalidate_cache(t)
    BY <1>0, <1>2, <1>3, <1>7 DEF Nat_!invalidate_cache, Nat_!NoResult, NatTaskOK
  <1>8. ASSUME NEW ok \in BOOLEAN, NEW p \in {"paths", "refreshPaths"}, NEW limit \in Nat,
               p = "paths" => limit = Paths, Nat_!probe_single_path(t, p, limit, ok)
        PROVE  NatInv'
    <2> DEFINE g == IF ok THEN q.got + 1 ELSE q.got
               r == [q EXCEPT !.asked = q.asked + 1, !.got = g]
    <2>1. g \in Nat /\ g <= q.asked + 1 /\ q.asked + 1 \in Nat /\ q.pc = p /\ q.asked < limit
      BY <1>1, <1>8 DEF Nat_!probe_single_path
    <2>2. task' = [task EXCEPT ![t] = r] /\ UNCHANGED <<cache, writer, local>>
      BY <1>8, Zenon DEF Nat_!probe_single_path
    <2> HIDE DEF g
    <2>3. r \in Nat_!TaskState /\ r.pc = p /\ r.asked = q.asked + 1 /\ r.got = g
      BY <1>0, <2>1, Zenon DEF Nat_!TaskState
    <2>4. p # "storeLocal" /\ p # "clear" /\ (p = "paths" => q.asked + 1 <= Paths)
      BY <1>1, <1>8, <2>1
    <2> HIDE DEF r, q
    <2>5. NatTaskOK(r)
      BY <2>1, <2>3, <2>4 DEF NatTaskOK
    <2> QED
      BY <1>0, <2>2, <2>5, NatMove, Zenon
  <1>9. CASE Nat_!probe(t)
    <2>1. q.got \in 0 .. Paths /\ q.asked <= Paths
      <3>1. q.asked = Paths
        BY <1>9 DEF Nat_!probe
      <3> HIDE DEF q
      <3> QED
        BY <1>1, <3>1
    <2>2. CASE Nat_!Finish(t)
      BY <1>2, <1>9, <2>1, <2>2 DEF Nat_!probe, Nat_!Enough, Nat_!Result
    <2>3. CASE Nat_!Enough(t) /\ Nat_!Goto(t, "storeLocal") /\ cache' = q.got
      <3>1. q.got >= 3 /\ UNCHANGED <<writer, local>>
        BY <1>9, <2>3 DEF Nat_!probe, Nat_!Enough
      <3> DEFINE r == [q EXCEPT !.pc = "storeLocal"]
      <3>2. /\ r \in Nat_!TaskState /\ r.pc = "storeLocal"
            /\ r.asked = q.asked /\ r.got = q.got
        BY <1>0 DEF Nat_!TaskState
      <3>3. task' = [task EXCEPT ![t] = r]
        BY <2>3 DEF Nat_!Goto
      <3>4. cache' \in 0 .. Paths /\ cache' >= 3 /\ writer' = writer /\ local' = local
        BY <2>1, <2>3, <3>1
      <3> HIDE DEF q, r
      <3>5. NatTaskOK(r)
        BY <1>1, <2>1, <3>1, <3>2 DEF NatTaskOK
      <3> QED
        BY <1>0, <3>3, <3>4, <3>5, NatMove, Zenon
    <2> QED
      BY <1>9, <2>2, <2>3 DEF Nat_!probe, Nat_!Result
  <1>10. CASE Nat_!store_local(t)
    <2>1. q.got \in 0 .. Paths /\ q.got >= 3
      <3>1. q.pc = "storeLocal"
        BY <1>10 DEF Nat_!store_local
      <3> HIDE DEF q
      <3> QED
        BY <1>0, <1>1, <3>1 DEF NatTaskOK
    <2> QED
      BY <1>2, <1>10, <2>1 DEF Nat_!store_local, Nat_!Result
  <1>11. ASSUME NEW matches \in BOOLEAN, Nat_!quick_refresh(t, matches) PROVE NatInv'
    BY <1>0, <1>3, <1>4, <1>11 DEF Nat_!quick_refresh
  <1>12. CASE Nat_!extend_ttl(t)
    BY <1>3, <1>12 DEF Nat_!extend_ttl
  <1> QED
    BY <1>5, <1>6, <1>7, <1>8, <1>9, <1>10, <1>11, <1>12 DEF Nat_!Step

----------------------------------------------------------------------------
(* The simultaneous open *)

\* The strengthening of LostOnlyAfterFailure, for a peer with accept task a,
\* connect task c and main function m: the loop takes the output of a failed task
\* only, it falls back only after a failure, and a task past its accept has a
\* connection.
PeerOK(a, c, m) ==
  /\ a \in Open!AccState /\ c \in Open!ConState /\ m \in Open!MainState
  /\ a.st \in {"handshake", "ok"} => a.conn # Open!NoConn
  /\ m.pc = "select" => /\ "accept" \in m.taken => a.st = "err"
                        /\ "connect" \in m.taken => c.st = "err"
  /\ m.pc = "fallback" => (a.st = "err" \/ c.st = "err") /\ m.n > NumAddrs
  /\ (m.pc = "panicked" \/ m.lost \/ (m.pc = "returned" /\ m.result = Open!NoConn))
       => a.st = "err" \/ c.st = "err"

OpenInv == Open!TypeOK /\ \A p \in Peers : PeerOK(acc[p], con[p], main[p])

\* A step that moves the tasks of peer p to good states.
LEMMA OpenMove ==
  ASSUME OpenInv, NEW p \in Peers, NEW a, NEW c, NEW m, PeerOK(a, c, m),
         acc' = [acc EXCEPT ![p] = a], con' = [con EXCEPT ![p] = c],
         main' = [main EXCEPT ![p] = m], conn' \in [Open!Conns -> Open!ConnState]
  PROVE  OpenInv'
  <1>1. /\ acc \in [Peers -> Open!AccState] /\ con \in [Peers -> Open!ConState]
        /\ main \in [Peers -> Open!MainState]
        /\ \A q \in Peers : PeerOK(acc[q], con[q], main[q])
    BY DEF OpenInv, Open!TypeOK
  <1>2. \A q \in Peers : PeerOK(acc'[q], con'[q], main'[q])
    BY <1>1
  <1>3. /\ acc' \in [Peers -> Open!AccState] /\ con' \in [Peers -> Open!ConState]
        /\ main' \in [Peers -> Open!MainState]
    BY <1>1 DEF PeerOK
  <1> QED
    BY <1>2, <1>3 DEF OpenInv, Open!TypeOK

\* A dial gives a connection one of its states, and so does dropping one.
LEMMA OpenConn ==
  ASSUME NEW k \in [Open!Conns -> Open!ConnState], NEW d, NEW p, NEW n
  PROVE  /\ Open!Dialed(p, n) \in Open!ConnState
         /\ [k EXCEPT ![d] = IF @ \in Open!Unsettled THEN "closed" ELSE @]
              \in [Open!Conns -> Open!ConnState]
  BY Zenon DEF Open!Dialed, Open!ConnState, Open!Unsettled

\* Both peers start with their two tasks.
LEMMA OpenInit ==
  ASSUME Open!Init
  PROVE  OpenInv
  <1>1. conn \in [Open!Conns -> Open!ConnState]
    BY DEF Open!Init, Open!Dialed, Open!ConnState, Open!Unsettled
  <1>2. ASSUME NEW p \in Peers PROVE PeerOK(acc[p], con[p], main[p])
    <2> DEFINE m == [pc |-> "select", taken |-> {}, aborted |-> {}, n |-> 0,
                     result |-> Open!NoConn, lost |-> FALSE]
               a == [st |-> "waiting", conn |-> Open!NoConn]
               c == [st |-> "dialing", n |-> 1]
    <2>0. 0 \in 0 .. 2 * NumAddrs /\ 1 \in 1 .. NumAddrs
      BY CountsAssumption
    <2>1. m \in Open!MainState
      BY <2>0 DEF Open!MainState
    <2>2. a \in Open!AccState /\ c \in Open!ConState
      BY <2>0 DEF Open!AccState, Open!ConState
    <2>3. /\ m.pc = "select" /\ m.taken = {} /\ m.lost = FALSE
          /\ a.st = "waiting" /\ c.st = "dialing"
      OBVIOUS
    <2>4. acc[p] = a /\ con[p] = c /\ main[p] = m
      BY DEF Open!Init
    <2> HIDE DEF m, a, c
    <2> QED
      BY <2>1, <2>2, <2>3, <2>4 DEF PeerOK
  <1> QED
    BY <1>1, <1>2, Zenon DEF OpenInv, Open!TypeOK, Open!Init, PeerOK

\* Steps that move only the accept task of p, only its connect task, or only the
\* function itself.
LEMMA OpenMoveOne ==
  ASSUME OpenInv, NEW p \in Peers, conn' \in [Open!Conns -> Open!ConnState],
         NEW r,
         \/ PeerOK(r, con[p], main[p]) /\ acc' = [acc EXCEPT ![p] = r] /\ UNCHANGED <<con, main>>
         \/ PeerOK(acc[p], r, main[p]) /\ con' = [con EXCEPT ![p] = r] /\ UNCHANGED <<acc, main>>
         \/ PeerOK(acc[p], con[p], r) /\ main' = [main EXCEPT ![p] = r] /\ UNCHANGED <<acc, con>>
  PROVE  OpenInv'
  <1>1. /\ acc = [acc EXCEPT ![p] = acc[p]] /\ con = [con EXCEPT ![p] = con[p]]
        /\ main = [main EXCEPT ![p] = main[p]]
    BY DEF OpenInv, Open!TypeOK
  <1>2. CASE PeerOK(r, con[p], main[p]) /\ acc' = [acc EXCEPT ![p] = r] /\ UNCHANGED <<con, main>>
    BY <1>1, <1>2, OpenMove, Zenon
  <1>3. CASE PeerOK(acc[p], r, main[p]) /\ con' = [con EXCEPT ![p] = r] /\ UNCHANGED <<acc, main>>
    BY <1>1, <1>3, OpenMove, Zenon
  <1>4. CASE PeerOK(acc[p], con[p], r) /\ main' = [main EXCEPT ![p] = r] /\ UNCHANGED <<acc, con>>
    BY <1>1, <1>4, OpenMove
  <1> QED
    BY <1>2, <1>3, <1>4

\* The steps of the two tasks of a peer preserve OpenInv.
LEMMA OpenTasks ==
  ASSUME OpenInv, NEW p \in Peers, Open!Tasks(p)
  PROVE  OpenInv'
  <1> USE CountsAssumption
  <1> DEFINE a == acc[p]  c == con[p]  m == main[p]
  <1>0. /\ PeerOK(a, c, m)
        /\ conn \in [Open!Conns -> Open!ConnState]
        /\ a \in Open!AccState /\ c \in Open!ConState
    BY DEF OpenInv, Open!TypeOK
  <1>1. \A d : Open!Drop(d) \in [Open!Conns -> Open!ConnState]
    BY <1>0, OpenConn DEF Open!Drop
  <1>2. CASE Open!AcceptTake(p)
    <2>1. PICK n \in 1 .. 2 * NumAddrs :
             /\ conn' = [conn EXCEPT ![<<Open!Other(p), n>>] = "accepted"]
             /\ acc' = [acc EXCEPT ![p] = [st |-> "handshake", conn |-> <<Open!Other(p), n>>]]
      BY <1>2, Zenon DEF Open!AcceptTake
    <2> DEFINE r == [st |-> "handshake", conn |-> <<Open!Other(p), n>>]
    <2>2. Open!Other(p) \in Peers
      BY PeersAssumption DEF Open!Other
    <2>3. <<Open!Other(p), n>> \in Open!Conns /\ <<Open!Other(p), n>> # Open!NoConn
      BY <2>2 DEF Open!Conns, Open!NoConn
    <2>4. r \in Open!AccState /\ r.st = "handshake" /\ r.conn # Open!NoConn
      BY <2>3 DEF Open!AccState
    <2>5. a.st = "waiting" /\ UNCHANGED <<con, main>>
      BY <1>2 DEF Open!AcceptTake
    <2>6. conn' \in [Open!Conns -> Open!ConnState]
      BY <1>0, <2>1, Zenon DEF Open!ConnState, Open!Unsettled
    <2> HIDE DEF r
    <2>7. PeerOK(r, c, m)
      BY <1>0, <2>4, <2>5 DEF PeerOK
    <2> HIDE DEF a, c, m
    <2> QED
      BY <2>1, <2>5, <2>6, <2>7, OpenMoveOne, Zenon DEF r, c, m
  <1>3. ASSUME NEW st \in {"ok", "err", "aborted"}, a.st \in {"waiting", "handshake"},
               st = "ok" => a.st = "handshake",
               acc' = [acc EXCEPT ![p].st = st], UNCHANGED <<con, main>>,
               conn' \in [Open!Conns -> Open!ConnState]
        PROVE  OpenInv'
    <2> DEFINE r == [a EXCEPT !.st = st]
    <2>1. r \in Open!AccState /\ r.st = st /\ r.conn = a.conn
      BY <1>0 DEF Open!AccState
    <2>2. acc' = [acc EXCEPT ![p] = r]
      BY <1>3
    <2> HIDE DEF r
    <2>3. PeerOK(r, c, m)
      BY <1>0, <1>3, <2>1 DEF PeerOK
    <2> HIDE DEF a, c, m
    <2> QED
      BY <1>3, <2>2, <2>3, OpenMoveOne, Zenon DEF c, m
  <1>4. ASSUME NEW st \in {"ok", "err", "aborted"}, c.st = "dialing",
               con' = [con EXCEPT ![p].st = st], UNCHANGED <<acc, main>>,
               conn' \in [Open!Conns -> Open!ConnState]
        PROVE  OpenInv'
    <2> DEFINE r == [c EXCEPT !.st = st]
    <2>1. r \in Open!ConState /\ r.st = st
      BY <1>0 DEF Open!ConState
    <2>2. con' = [con EXCEPT ![p] = r]
      BY <1>4
    <2> HIDE DEF r
    <2>3. PeerOK(a, r, m)
      BY <1>0, <1>4, <2>1 DEF PeerOK
    <2> HIDE DEF a, c, m
    <2> QED
      BY <1>4, <2>2, <2>3, OpenMoveOne DEF a, m
  <1>5. CASE Open!AcceptDone(p)
    BY <1>0, <1>1, <1>3, <1>5 DEF Open!AcceptDone
  <1>6. CASE Open!AcceptFails(p)
    BY <1>0, <1>1, <1>3, <1>6 DEF Open!AcceptFails
  <1>7. CASE Open!ConnectOk(p)
    BY <1>0, <1>1, <1>4, <1>7 DEF Open!ConnectOk
  <1>8. CASE Open!ConnectFails(p)
    <2>1. CASE c.n < NumAddrs
      <3> DEFINE r == [c EXCEPT !.n = c.n + 1]
      <3>1. r \in Open!ConState /\ r.st = c.st
        BY <1>0, <2>1 DEF Open!ConState
      <3>2. /\ con' = [con EXCEPT ![p] = r] /\ UNCHANGED <<acc, main>>
            /\ conn' = [Open!Drop(<<p, c.n>>) EXCEPT ![<<p, c.n + 1>>] = Open!Dialed(p, c.n + 1)]
        BY <1>8, <2>1 DEF Open!ConnectFails
      <3>3. conn' \in [Open!Conns -> Open!ConnState]
        BY <1>1, <3>2, OpenConn
      <3> HIDE DEF r
      <3>4. PeerOK(a, r, m)
        BY <1>0, <3>1 DEF PeerOK
      <3> HIDE DEF a, c, m
      <3> QED
        BY <3>2, <3>3, <3>4, OpenMoveOne, Zenon DEF a, m
    <2>2. CASE ~(c.n < NumAddrs)
      BY <1>1, <1>4, <1>8, <2>2 DEF Open!ConnectFails
    <2> QED
      BY <2>1, <2>2
  <1>9. ASSUME NEW h \in Open!Handles, Open!Cancelled(p, h) PROVE OpenInv'
    <2>1. conn' \in [Open!Conns -> Open!ConnState]
      BY <1>0, <1>1, <1>9 DEF Open!Cancelled, Open!DropOf
    <2>2. CASE h = "accept"
      <3>1. /\ acc' = [acc EXCEPT ![p].st = "aborted"] /\ UNCHANGED <<con, main>>
            /\ a.st \in {"waiting", "handshake"}
        BY <1>0, <1>9, <2>2 DEF Open!Cancelled, Open!TaskState, Open!AccState
      <3> QED
        BY <1>3, <2>1, <3>1
    <2>3. CASE h = "connect"
      <3>1. /\ con' = [con EXCEPT ![p].st = "aborted"] /\ UNCHANGED <<acc, main>>
            /\ c.st = "dialing"
        BY <1>0, <1>9, <2>3 DEF Open!Cancelled, Open!TaskState, Open!ConState
      <3> QED
        BY <1>4, <2>1, <3>1
    <2> QED
      BY <2>2, <2>3 DEF Open!Handles
  <1> QED
    BY <1>2, <1>5, <1>6, <1>7, <1>8, <1>9 DEF Open!Tasks

\* The steps of the function itself preserve OpenInv.
LEMMA OpenMain ==
  ASSUME OpenInv, NEW p \in Peers, Open!Main(p)
  PROVE  OpenInv'
  <1> USE CountsAssumption
  <1> DEFINE a == acc[p]  c == con[p]  m == main[p]
  <1>0. /\ PeerOK(a, c, m)
        /\ conn \in [Open!Conns -> Open!ConnState]
        /\ a \in Open!AccState /\ c \in Open!ConState /\ m \in Open!MainState
    BY DEF OpenInv, Open!TypeOK
  <1>1. /\ \A d : Open!Drop(d) \in [Open!Conns -> Open!ConnState]
        /\ \A h : Open!DropOf(p, h) \in [Open!Conns -> Open!ConnState]
    BY <1>0, OpenConn DEF Open!Drop, Open!DropOf
  <1>2. ASSUME NEW h \in Open!Handles, Open!SelectOk(p, h) PROVE OpenInv'
    <2> DEFINE d == Open!ConnOf(p, h)
               r == [m EXCEPT !.pc = "returned", !.result = d, !.aborted = {Open!Loser(h)}]
    <2>1. h = "accept" \/ h = "connect"
      BY DEF Open!Handles
    <2>2. d \in Open!Conns /\ d # Open!NoConn
      <3>1. Open!TaskState(p, h) = "ok"
        BY <1>2 DEF Open!SelectOk
      <3>2. CASE h = "accept"
        <4>1. d = a.conn /\ a.st = "ok"
          BY <3>1, <3>2 DEF Open!TaskState, Open!ConnOf
        <4>2. a.conn \in Open!Conns \cup {Open!NoConn}
          BY <1>0 DEF Open!AccState
        <4> HIDE DEF a, c, m, d
        <4> QED
          BY <1>0, <4>1, <4>2 DEF PeerOK
      <3>3. CASE h = "connect"
        <4>1. d = <<p, c.n>>
          BY <3>3 DEF Open!ConnOf
        <4>2. c.n \in 1 .. NumAddrs
          BY <1>0 DEF Open!ConState
        <4>3. c.n \in 1 .. 2 * NumAddrs /\ c.n # 0
          BY <4>2
        <4> HIDE DEF a, c, m, d
        <4> QED
          BY <4>1, <4>3 DEF Open!Conns, Open!NoConn
      <3> QED
        BY <2>1, <3>2, <3>3
    <2>3. {Open!Loser(h)} \subseteq Open!Handles
      BY <2>1 DEF Open!Loser, Open!Handles
    <2>4. main' = [main EXCEPT ![p] = r] /\ UNCHANGED <<acc, con>> /\ m.pc = "select"
      BY <1>2, Zenon DEF Open!SelectOk
    <2>5. conn' \in [Open!Conns -> Open!ConnState]
      BY <1>0, <1>1, <1>2 DEF Open!SelectOk
    <2> HIDE DEF d
    <2>6. r \in Open!MainState /\ r.pc = "returned" /\ r.result = d /\ r.lost = m.lost
      BY <1>0, <2>2, <2>3, Zenon DEF Open!MainState
    <2> HIDE DEF r
    <2>7. PeerOK(a, c, r)
      BY <1>0, <2>2, <2>6 DEF PeerOK
    <2> HIDE DEF a, c, m
    <2> QED
      BY <2>4, <2>5, <2>7, OpenMoveOne, Zenon DEF a, c
  <1>3. ASSUME NEW h \in Open!Handles, Open!SelectErr(p, h) PROVE OpenInv'
    <2>1. h = "accept" \/ h = "connect"
      BY DEF Open!Handles
    <2>2. /\ m.pc = "select" /\ UNCHANGED <<acc, con>>
          /\ h = "accept" => a.st = "err"
          /\ h = "connect" => c.st = "err"
      BY <1>3 DEF Open!SelectErr, Open!TaskState
    <2>3. CASE Open!is_finished(p, Open!Loser(h))
      <3> DEFINE lost == Open!TaskState(p, Open!Loser(h)) = "ok"
                 r == [m EXCEPT !.pc = "fallback", !.taken = Open!Handles, !.lost = lost,
                                !.n = NumAddrs + 1]
      <3>1. main' = [main EXCEPT ![p] = r]
        BY <1>3, <2>3 DEF Open!SelectErr
      <3>2. conn' \in [Open!Conns -> Open!ConnState]
        BY <1>1, <1>3, <2>3, OpenConn DEF Open!SelectErr
      <3>3. lost \in BOOLEAN /\ NumAddrs + 1 \in 0 .. 2 * NumAddrs
        OBVIOUS
      <3> HIDE DEF lost
      <3>4. r \in Open!MainState /\ r.pc = "fallback" /\ r.n = NumAddrs + 1
        BY <1>0, <3>3, Zenon DEF Open!MainState
      <3> HIDE DEF r, a, c, m
      <3>5. PeerOK(a, c, r)
        <4>1. NumAddrs + 1 > NumAddrs /\ (a.st = "err" \/ c.st = "err")
          BY <2>1, <2>2
        <4> QED
          BY <1>0, <3>4, <4>1 DEF PeerOK
      <3> QED
        BY <2>2, <3>1, <3>2, <3>5, OpenMoveOne, Zenon DEF a, c
    <2>4. CASE ~Open!is_finished(p, Open!Loser(h))
      <3> DEFINE r == [m EXCEPT !.taken = @ \cup {h}]
      <3>1. main' = [main EXCEPT ![p] = r] /\ UNCHANGED conn
        BY <1>3, <2>4 DEF Open!SelectErr
      <3>2. /\ r \in Open!MainState /\ r.taken = m.taken \cup {h} /\ r.pc = m.pc
            /\ r.lost = m.lost
        BY <1>0 DEF Open!MainState
      <3> HIDE DEF r
      <3>3. PeerOK(a, c, r)
        BY <1>0, <2>1, <2>2, <3>2, Zenon DEF PeerOK
      <3> HIDE DEF a, c, m
      <3> QED
        BY <1>0, <2>2, <3>1, <3>3, OpenMoveOne DEF a, c
    <2> QED
      BY <2>3, <2>4
  <1>4. ASSUME NEW h \in Open!Handles, Open!SelectPanics(p, h) PROVE OpenInv'
    <2> DEFINE r == [m EXCEPT !.pc = "panicked"]
    <2>1. h = "accept" \/ h = "connect"
      BY DEF Open!Handles
    <2>2. /\ main' = [main EXCEPT ![p] = r] /\ UNCHANGED <<acc, con>>
          /\ m.pc = "select" /\ h \in m.taken
          /\ conn' \in [Open!Conns -> Open!ConnState]
      BY <1>0, <1>1, <1>4 DEF Open!SelectPanics
    <2>3. r \in Open!MainState /\ r.pc = "panicked"
      BY <1>0 DEF Open!MainState
    <2> HIDE DEF r
    <2>4. PeerOK(a, c, r)
      BY <1>0, <2>1, <2>2, <2>3 DEF PeerOK
    <2> HIDE DEF a, c, m
    <2> QED
      BY <2>2, <2>4, OpenMoveOne DEF a, c
  <1>5. CASE Open!FallbackOk(p)
    <2> DEFINE d == <<p, m.n>>
               r == [m EXCEPT !.pc = "returned", !.result = d]
    <2>1. main' = [main EXCEPT ![p] = r] /\ UNCHANGED <<acc, con, conn>> /\ m.pc = "fallback"
      BY <1>5, Zenon DEF Open!FallbackOk
    <2>2. m.n \in 1 .. 2 * NumAddrs
      BY <1>0, <2>1 DEF PeerOK, Open!MainState
    <2>3. d \in Open!Conns /\ d # Open!NoConn
      BY <2>2 DEF Open!Conns, Open!NoConn
    <2> HIDE DEF d
    <2>4. r \in Open!MainState /\ r.pc = "returned" /\ r.result = d /\ r.lost = m.lost
      BY <1>0, <2>3 DEF Open!MainState
    <2> HIDE DEF r
    <2>5. PeerOK(a, c, r)
      BY <1>0, <2>3, <2>4 DEF PeerOK
    <2> HIDE DEF a, c, m
    <2> QED
      BY <1>0, <2>1, <2>5, OpenMoveOne, Zenon DEF a, c
  <1>6. CASE Open!FallbackFails(p)
    <2>0. m.n \in 0 .. 2 * NumAddrs
      <3> HIDE DEF a, c, m
      <3> QED
        BY <1>0 DEF Open!MainState
    <2>1. m.pc = "fallback" /\ UNCHANGED <<acc, con>>
      BY <1>6 DEF Open!FallbackFails
    <2>2. CASE m.n < 2 * NumAddrs
      <3> DEFINE r == [m EXCEPT !.n = m.n + 1]
      <3>1. /\ main' = [main EXCEPT ![p] = r]
            /\ conn' = [Open!Drop(<<p, m.n>>) EXCEPT ![<<p, m.n + 1>>] = Open!Dialed(p, m.n + 1)]
        BY <1>6, <2>2 DEF Open!FallbackFails
      <3>2. conn' \in [Open!Conns -> Open!ConnState]
        BY <1>1, <3>1, OpenConn
      <3>3. r \in Open!MainState /\ r.pc = "fallback" /\ r.lost = m.lost /\ r.n = m.n + 1
        <4> HIDE DEF a, c, m
        <4>2. m.n + 1 \in 0 .. 2 * NumAddrs
          BY <2>0, <2>2
        <4> QED
          BY <1>0, <2>1, <4>2 DEF Open!MainState
      <3> HIDE DEF r, a, c, m
      <3>4. m.n \in Nat
        BY <2>0
      <3>5. PeerOK(a, c, r)
        <4>1. m.n > NumAddrs /\ (a.st = "err" \/ c.st = "err")
          BY <1>0, <2>1, Zenon DEF PeerOK
        <4>2. m.n + 1 > NumAddrs
          BY <3>4, <4>1
        <4> QED
          BY <1>0, <3>3, <4>1, <4>2 DEF PeerOK
      <3> QED
        BY <2>1, <3>1, <3>2, <3>5, OpenMoveOne DEF a, c
    <2>3. CASE ~(m.n < 2 * NumAddrs)
      <3> DEFINE r == [m EXCEPT !.pc = "returned"]
      <3>1. main' = [main EXCEPT ![p] = r] /\ conn' = Open!Drop(<<p, m.n>>)
        BY <1>6, <2>3 DEF Open!FallbackFails
      <3>2. r \in Open!MainState /\ r.pc = "returned"
        BY <1>0 DEF Open!MainState
      <3> HIDE DEF r
      <3>3. PeerOK(a, c, r)
        BY <1>0, <2>1, <3>2 DEF PeerOK
      <3> HIDE DEF a, c, m
      <3> QED
        BY <1>1, <2>1, <3>1, <3>3, OpenMoveOne, Zenon DEF a, c
    <2> QED
      BY <2>2, <2>3
  <1> QED
    BY <1>2, <1>3, <1>4, <1>5, <1>6 DEF Open!Main

\* Every step of the two peers preserves OpenInv.
LEMMA OpenStep ==
  ASSUME OpenInv, Open!Next
  PROVE  OpenInv'
  <1>1. CASE Open!Handshake
    <2>1. conn' \in [Open!Conns -> Open!ConnState] /\ UNCHANGED <<acc, con, main>>
      BY <1>1 DEF Open!Handshake, OpenInv, Open!TypeOK, Open!ConnState, Open!Unsettled
    <2> QED
      BY <2>1 DEF OpenInv, Open!TypeOK
  <1> QED
    BY <1>1, OpenTasks, OpenMain DEF Open!Next

----------------------------------------------------------------------------
(* The DHT node *)

\* What a task of the node is doing, with what its type needs: a request that is
\* sent has an operation, and a refresh task inside a round has a record left.
CallOK(t, r) ==
  /\ r \in Dht!CallState
  /\ r.pc = "sending" => r.op # "none"
  /\ t \in Refreshers /\ r.pc \in {"sending", "waiting"} => r.left >= 1

\* The loop's own state has its type.
DhtRest ==
  /\ node \in [loop : {"running", "stopped"}, handle : {"new", "open", "dropped"},
               refresh : Refreshers \cup {None}, routed : BOOLEAN]
  /\ chan \in Seq(Dht!Commands) /\ Len(chan) <= ChannelCap
  /\ pending \subseteq Dht!Queries /\ queries \subseteq Dht!Queries

DhtCalls ==
  /\ call \in [Dht!Tasks -> Dht!CallState]
  /\ \A t \in Dht!Tasks : CallOK(t, call[t])

DhtInv == DhtRest /\ DhtCalls

\* An idle task's record has its type.
LEMMA DhtIdle == Dht!Idle \in Dht!CallState
  <1>1. 0 \in 0 .. MaxCalls /\ 0 \in 0 .. NumRecords
    BY DhtAssumption
  <1> QED
    BY <1>1 DEF Dht!CallState, Dht!Idle

\* The node starts with an empty channel and nobody waiting.
LEMMA DhtInit ==
  ASSUME Dht!Init
  PROVE  DhtInv
  <1> USE DhtAssumption
  <1>1. Dht!Idle \in Dht!CallState /\ Dht!Unborn \in Dht!CallState
    BY DhtIdle DEF Dht!CallState, Dht!Unborn
  <1>2. Dht!Idle.pc = "idle" /\ Dht!Unborn.pc = "unborn"
    BY DEF Dht!Idle, Dht!Unborn
  <1>3. \A t \in Dht!Tasks : call[t] \in {Dht!Idle, Dht!Unborn}
    BY DEF Dht!Init
  <1>4. call \in [Dht!Tasks -> Dht!CallState]
    BY <1>1 DEF Dht!Init
  <1>5. DhtCalls
    BY <1>1, <1>2, <1>3, <1>4 DEF DhtCalls, CallOK
  <1>6. DhtRest
    <2>1. node \in [loop : {"running", "stopped"}, handle : {"new", "open", "dropped"},
                    refresh : Refreshers \cup {None}, routed : BOOLEAN]
      BY DEF Dht!Init
    <2>2. chan = << >> /\ pending = {} /\ queries = {}
      BY DEF Dht!Init
    <2>3. chan \in Seq(Dht!Commands) /\ Len(chan) <= ChannelCap
      BY <2>2
    <2> QED
      BY <2>1, <2>2, <2>3 DEF DhtRest
  <1> QED
    BY <1>5, <1>6 DEF DhtInv

\* A step that gives one task a good state keeps those of the others.
LEMMA DhtMove ==
  ASSUME DhtCalls, NEW t \in Dht!Tasks, NEW r, CallOK(t, r), call' = [call EXCEPT ![t] = r]
  PROVE  DhtCalls'
  <1>1. call' \in [Dht!Tasks -> Dht!CallState]
    BY DEF DhtCalls, CallOK
  <1>2. \A s \in Dht!Tasks : CallOK(s, call'[s])
    BY DEF DhtCalls
  <1> QED
    BY <1>1, <1>2 DEF DhtCalls

\* The loop answers a task that waits; the others are as they were.
LEMMA DhtRespond ==
  ASSUME DhtCalls, NEW cmd, cmd.from \in Dht!Tasks, NEW how \in {"ok", "err"},
         call' = Dht!Respond(cmd, how)
  PROVE  DhtCalls'
  <1> DEFINE t == cmd.from
             q == call[t]
             r == [q EXCEPT !.reply = how]
  <1>1. q \in Dht!CallState /\ CallOK(t, q)
    BY DEF DhtCalls
  <1>2. r \in Dht!CallState /\ r.pc = q.pc /\ r.op = q.op /\ r.left = q.left
    BY <1>1 DEF Dht!CallState
  <1>3. CallOK(t, r)
    <2> HIDE DEF r, q, t
    <2> QED
      BY <1>1, <1>2 DEF CallOK
  <1>4. call' = [call EXCEPT ![t] = r] \/ call' = call
    BY DEF Dht!Respond, DhtCalls
  <1>5. CASE call' = call
    BY <1>5 DEF DhtCalls
  <1>6. CASE call' = [call EXCEPT ![t] = r]
    <2> HIDE DEF r
    <2> QED
      BY <1>3, <1>6, DhtMove, Zenon
  <1> QED
    BY <1>4, <1>5, <1>6

\* A command goes to the end of a channel that has room.
LEMMA DhtAppend ==
  ASSUME DhtRest, Dht!HasRoom, NEW c \in Dht!Commands, chan' = Append(chan, c),
         UNCHANGED <<node, pending, queries>>
  PROVE  DhtRest'
  <1>1. chan' \in Seq(Dht!Commands) /\ Len(chan') = Len(chan) + 1
    BY DEF DhtRest
  <1>2. Len(chan) < ChannelCap /\ Len(chan) \in Nat
    BY DEF DhtRest, Dht!HasRoom
  <1>3. Len(chan') <= ChannelCap
    BY <1>1, <1>2, DhtAssumption
  <1> QED
    BY <1>1, <1>3 DEF DhtRest

\* A call that starts has an operation, and its caller's count stays bounded.
LEMMA DhtStart ==
  ASSUME DhtInv, NEW c \in Callers, NEW op \in {"put", "get", "bootstrap"}, Dht!Start(c, op)
  PROVE  DhtInv'
  <1> DEFINE q == call[c]
             r == [q EXCEPT !.pc = "sending", !.op = op, !.n = q.n + 1]
  <1>1. c \in Dht!Tasks /\ c \notin Refreshers
    BY DhtAssumption DEF Dht!Tasks
  <1>2. q \in Dht!CallState /\ q.n < MaxCalls
    BY <1>1 DEF DhtInv, DhtCalls, Dht!Start
  <1>3. q.n + 1 \in 0 .. MaxCalls
    <2>1. q.n \in 0 .. MaxCalls
      BY <1>2 DEF Dht!CallState
    <2> HIDE DEF q
    <2> QED
      BY <1>2, <2>1, DhtAssumption
  <1>4. r \in Dht!CallState /\ r.pc = "sending" /\ r.op = op
    BY <1>2, <1>3, Zenon DEF Dht!CallState
  <1>5. call' = [call EXCEPT ![c] = r]
    BY <1>1, Zenon DEF Dht!Start, DhtInv, DhtCalls
  <1> HIDE DEF r, q
  <1>6. CallOK(c, r)
    BY <1>1, <1>4 DEF CallOK
  <1>7. DhtCalls'
    BY <1>1, <1>5, <1>6, DhtMove, Zenon DEF DhtInv
  <1> QED
    BY <1>7 DEF DhtInv, DhtRest, Dht!Start

\* A caller that returns is idle again.
LEMMA DhtReturn ==
  ASSUME DhtCalls, NEW c \in Dht!Tasks, Dht!Return(c)
  PROVE  DhtCalls'
  <1> DEFINE q == call[c]
             r == [q EXCEPT !.pc = "idle", !.op = "none", !.reply = "none"]
  <1>1. q \in Dht!CallState
    BY DEF DhtCalls
  <1>2. r \in Dht!CallState /\ r.pc = "idle"
    BY <1>1, Zenon DEF Dht!CallState
  <1>3. call' = [call EXCEPT ![c] = r]
    BY Zenon DEF Dht!Return, DhtCalls
  <1> HIDE DEF r, q
  <1>4. CallOK(c, r)
    BY <1>2 DEF CallOK
  <1> QED
    BY <1>3, <1>4, DhtMove, Zenon

\* A task that ends is in no round.
LEMMA DhtEnd ==
  ASSUME DhtInv, NEW t \in Dht!Tasks, Dht!End(t)
  PROVE  DhtInv'
  <1> DEFINE r == [Dht!Idle EXCEPT !.pc = "ended"]
  <1>1. r \in Dht!CallState /\ r.pc = "ended"
    BY DhtIdle DEF Dht!CallState
  <1>2. call' = [call EXCEPT ![t] = r]
    BY DEF Dht!End
  <1> HIDE DEF r
  <1>3. CallOK(t, r)
    BY <1>1 DEF CallOK
  <1>4. DhtCalls'
    BY <1>2, <1>3, DhtMove, Zenon DEF DhtInv
  <1> QED
    BY <1>4 DEF DhtInv, DhtRest, Dht!End

\* A task that sends waits, and its command is of the channel's type.
LEMMA DhtSend ==
  ASSUME DhtInv, NEW t \in Dht!Tasks, Dht!Send(t)
  PROVE  DhtInv'
  <1> DEFINE q == call[t]
             r == [q EXCEPT !.pc = "waiting"]
  <1>1. q \in Dht!CallState /\ CallOK(t, q) /\ q.pc = "sending"
    BY DEF DhtInv, DhtCalls, Dht!Send
  <1>2. r \in Dht!CallState /\ r.pc = "waiting" /\ r.left = q.left
    BY <1>1 DEF Dht!CallState
  <1>3. call' = [call EXCEPT ![t] = r]
    BY DEF Dht!Send, DhtInv, DhtCalls
  <1>4. Dht!Command(q.op, t) \in Dht!Commands
    BY <1>1 DEF CallOK, Dht!CallState, Dht!Command, Dht!Commands
  <1>5. DhtRest'
    BY <1>4, DhtAppend DEF Dht!Send, DhtInv
  <1> HIDE DEF r, q
  <1>6. CallOK(t, r)
    BY <1>1, <1>2 DEF CallOK
  <1>7. DhtCalls'
    BY <1>3, <1>6, DhtMove, Zenon DEF DhtInv
  <1> QED
    BY <1>5, <1>7 DEF DhtInv

\* Aborting the refresh task, when there is one, changes nothing else of it.
LEMMA DhtAbort ==
  ASSUME DhtInv, NEW mid, mid = Dht!Aborted(node.refresh)
  PROVE  mid \in [Dht!Tasks -> Dht!CallState] /\ \A s \in Dht!Tasks : CallOK(s, mid[s])
  <1> DEFINE t == node.refresh
             q == call[t]
             r == [q EXCEPT !.aborted = TRUE]
  <1>1. CASE t = None
    BY <1>1 DEF Dht!Aborted, DhtInv, DhtCalls
  <1>2. CASE t # None
    <2>1. t \in Dht!Tasks
      BY <1>2 DEF DhtInv, DhtRest, Dht!Tasks
    <2>2. q \in Dht!CallState /\ CallOK(t, q)
      BY <2>1 DEF DhtInv, DhtCalls
    <2>3. r \in Dht!CallState /\ r.pc = q.pc /\ r.op = q.op /\ r.left = q.left
      BY <2>2, Zenon DEF Dht!CallState
    <2>4. mid = [call EXCEPT ![t] = r]
      BY <1>2, <2>1 DEF Dht!Aborted, DhtInv, DhtCalls
    <2> HIDE DEF r, q, t
    <2>5. CallOK(t, r)
      BY <2>2, <2>3 DEF CallOK
    <2> QED
      BY <2>1, <2>3, <2>4, <2>5 DEF DhtInv, DhtCalls
  <1> QED
    BY <1>1, <1>2

\* A new refresh task replaces the one that the node knows of.
LEMMA DhtStartRefresh ==
  ASSUME DhtInv, NEW t \in Refreshers, Dht!start_record_refresh(t)
  PROVE  DhtInv'
  <1> DEFINE r == [Dht!Idle EXCEPT !.pc = "ticking"]
             mid == Dht!Aborted(node.refresh)
  <1>1. t \in Dht!Tasks
    BY DEF Dht!Tasks
  <1>2. r \in Dht!CallState /\ r.pc = "ticking"
    BY DhtIdle DEF Dht!CallState
  <1>3. call' = [mid EXCEPT ![t] = r]
    BY DEF Dht!start_record_refresh
  <1>4. mid \in [Dht!Tasks -> Dht!CallState] /\ \A s \in Dht!Tasks : CallOK(s, mid[s])
    BY DhtAbort
  <1> HIDE DEF mid, r
  <1>5. CallOK(t, r)
    BY <1>2 DEF CallOK
  <1>6. call' \in [Dht!Tasks -> Dht!CallState] /\ \A s \in Dht!Tasks : CallOK(s, call'[s])
    BY <1>1, <1>2, <1>3, <1>4, <1>5
  <1>7. DhtRest'
    BY DEF DhtInv, DhtRest, Dht!start_record_refresh
  <1> QED
    BY <1>6, <1>7 DEF DhtInv, DhtCalls

\* A refresh task that starts a round, or goes on in one, has a record left.
LEMMA DhtRefresh ==
  ASSUME DhtInv, NEW t \in Refreshers, Dht!RefreshStep(t)
  PROVE  DhtInv'
  <1> DEFINE q == call[t]
  <1>1. t \in Dht!Tasks
    BY DEF Dht!Tasks
  <1>2. q \in Dht!CallState /\ CallOK(t, q)
    BY <1>1 DEF DhtInv, DhtCalls
  <1>3. CASE Dht!Tick(t)
    <2> DEFINE r == [q EXCEPT !.pc = "sending", !.op = "put", !.left = NumRecords]
    <2>1. NumRecords \in 0 .. NumRecords /\ NumRecords >= 1
      BY DhtAssumption
    <2>2. r \in Dht!CallState /\ r.pc = "sending" /\ r.op = "put" /\ r.left = NumRecords
      BY <1>2, <2>1, Zenon DEF Dht!CallState
    <2>3. call' = [call EXCEPT ![t] = r]
      BY <1>1, <1>3, Zenon DEF Dht!Tick, DhtInv, DhtCalls
    <2> HIDE DEF r, q
    <2>4. CallOK(t, r)
      BY <2>1, <2>2 DEF CallOK
    <2>5. DhtCalls'
      BY <1>1, <2>3, <2>4, DhtMove, Zenon DEF DhtInv
    <2> QED
      BY <1>3, <2>5 DEF DhtInv, DhtRest, Dht!Tick
  <1>4. CASE Dht!Refreshed(t) /\ Dht!Answer(t) # "closed"
    <2> DEFINE r == [q EXCEPT !.pc = IF q.left = 1 THEN "ticking" ELSE "sending",
                              !.op = IF q.left = 1 THEN "none" ELSE "put",
                              !.left = q.left - 1, !.reply = "none"]
    <2>1. q.left >= 1 /\ q.left \in 0 .. NumRecords
      BY <1>2, <1>4 DEF CallOK, Dht!Refreshed, Dht!Answered, Dht!CallState
    <2>2. q.left - 1 \in 0 .. NumRecords /\ (q.left # 1 => q.left - 1 >= 1)
      <3> HIDE DEF q
      <3> QED
        BY <2>1, DhtAssumption
    <2>3. /\ r \in Dht!CallState /\ r.left = q.left - 1
          /\ r.pc = (IF q.left = 1 THEN "ticking" ELSE "sending")
          /\ r.op = (IF q.left = 1 THEN "none" ELSE "put")
      BY <1>2, <2>2, Zenon DEF Dht!CallState
    <2>4. call' = [call EXCEPT ![t] = r]
      BY <1>1, <1>4, Zenon DEF Dht!Refreshed, DhtInv, DhtCalls
    <2> HIDE DEF r, q
    <2>5. CallOK(t, r)
      BY <2>2, <2>3 DEF CallOK
    <2>6. DhtCalls'
      BY <1>1, <2>4, <2>5, DhtMove, Zenon DEF DhtInv
    <2> QED
      BY <1>4, <2>6 DEF DhtInv, DhtRest, Dht!Refreshed
  <1>5. CASE Dht!End(t)
    BY <1>1, <1>5, DhtEnd
  <1> QED
    BY <1>3, <1>4, <1>5 DEF Dht!RefreshStep, Dht!Refreshed, Dht!RefreshSendFails

\* The loop takes the channel's first command: it ends, starts a query, or
\* refuses one.
LEMMA DhtLoop ==
  ASSUME DhtInv, Dht!Loop
  PROVE  DhtInv'
  <1>1. CASE Dht!Stop
    <2>1. DhtRest'
      BY <1>1, DhtAssumption DEF Dht!Stop, DhtInv, DhtRest
    <2> QED
      BY <1>1, <2>1 DEF Dht!Stop, DhtInv, DhtCalls
  <1>2. CASE Dht!Recv /\ Head(chan).op # "shutdown"
    <2> DEFINE cmd == Head(chan)
    <2>1. cmd \in Dht!Commands /\ chan' \in Seq(Dht!Commands) /\ Len(chan') <= ChannelCap
      <3>1. chan \in Seq(Dht!Commands) /\ chan # << >> /\ chan' = Tail(chan)
        BY <1>2 DEF Dht!Recv, DhtInv, DhtRest
      <3>2. cmd \in Dht!Commands /\ chan' \in Seq(Dht!Commands) /\ Len(chan') = Len(chan) - 1
        BY <3>1
      <3>3. Len(chan) \in Nat /\ Len(chan) <= ChannelCap
        BY <3>1 DEF DhtInv, DhtRest
      <3> QED
        BY <3>2, <3>3, DhtAssumption
    <2>2. node' \in [loop : {"running", "stopped"}, handle : {"new", "open", "dropped"},
                     refresh : Refreshers \cup {None}, routed : BOOLEAN]
      BY <1>2 DEF Dht!Recv, DhtInv, DhtRest
    <2> HIDE DEF cmd
    <2>3. Dht!Started(cmd)
      BY <1>2 DEF Dht!Recv, cmd
    <2>4. CASE Dht!StartQuery(cmd) /\ cmd.op \in {"put", "get", "bootstrap"}
      <3>1. cmd \in Dht!Queries
        BY <2>1, <2>4 DEF Dht!Commands, Dht!Queries
      <3>2. DhtRest'
        BY <2>1, <2>2, <2>4, <3>1 DEF DhtInv, DhtRest, Dht!StartQuery
      <3> QED
        BY <2>4, <3>2 DEF DhtInv, DhtCalls, Dht!StartQuery
    <2>5. CASE Dht!QueryRefused(cmd)
      <3>1. cmd.from \in Dht!Tasks
        BY <2>1 DEF Dht!Commands
      <3>2. DhtCalls'
        BY <2>5, <3>1, DhtRespond DEF DhtInv, Dht!QueryRefused
      <3> QED
        BY <2>1, <2>2, <2>5, <3>2 DEF DhtInv, DhtRest, Dht!QueryRefused
    <2>6. CASE UNCHANGED <<pending, queries, call>>
      BY <2>1, <2>2, <2>6 DEF DhtInv, DhtRest, DhtCalls
    <2> QED
      BY <2>3, <2>4, <2>5, <2>6 DEF Dht!Started
  <1> QED
    BY <1>1, <1>2 DEF Dht!Loop, Dht!Recv, Dht!RecvNone

\* Every step of the node, its callers and its refresh tasks keeps the types.
LEMMA DhtStep ==
  ASSUME DhtInv, Dht!Next
  PROVE  DhtInv'
  <1> DEFINE Node == [loop : {"running", "stopped"}, handle : {"new", "open", "dropped"},
                      refresh : Refreshers \cup {None}, routed : BOOLEAN]
  <1>0. node \in Node /\ Creator \in Dht!Tasks /\ Callers \subseteq Dht!Tasks
    BY DhtAssumption DEF DhtInv, DhtRest, Dht!Tasks
  <1>a. \A c \in Dht!Tasks, op \in {"add", "shutdown"} : Dht!Command(op, c) \in Dht!Commands
    BY DEF Dht!Command, Dht!Commands, DhtInv, DhtCalls, Dht!CallState
  <1>1. CASE Dht!AddBootstrapNode
    <2>1. DhtRest'
      BY <1>0, <1>1, <1>a, DhtAppend DEF Dht!AddBootstrapNode, DhtInv
    <2> QED
      BY <1>1, <2>1 DEF Dht!AddBootstrapNode, DhtInv, DhtCalls
  <1>2. CASE Dht!New
    BY <1>2, DhtStart, DhtAssumption DEF Dht!New
  <1>3. CASE Dht!Drop
    <2>1. node' \in Node
      BY <1>0, <1>3 DEF Dht!Drop
    <2> QED
      BY <1>3, <2>1 DEF Dht!Drop, DhtInv, DhtRest, DhtCalls
  <1>4. CASE Dht!stop_record_refresh
    <2>1. node' \in Node
      BY <1>0, <1>4 DEF Dht!stop_record_refresh
    <2>2. DhtRest'
      BY <1>4, <2>1 DEF Dht!stop_record_refresh, DhtInv, DhtRest
    <2>3. DhtCalls'
      BY <1>4, DhtAbort DEF Dht!stop_record_refresh, DhtCalls
    <2> QED
      BY <2>2, <2>3 DEF DhtInv
  <1>5. CASE \E c \in Callers : Dht!Call(c) \/ Dht!shutdown(c) \/ Dht!Abandon(c) \/ Dht!CallerStep(c)
    <2> PICK c \in Callers : Dht!Call(c) \/ Dht!shutdown(c) \/ Dht!Abandon(c) \/ Dht!CallerStep(c)
      BY <1>5
    <2>0. c \in Dht!Tasks
      BY <1>0
    <2>1. CASE Dht!Call(c)
      BY <2>1, DhtStart DEF Dht!Call
    <2>2. CASE Dht!shutdown(c)
      <3>1. DhtRest'
        BY <1>a, <2>0, <2>2, DhtAppend DEF Dht!shutdown, DhtInv
      <3> QED
        BY <2>2, <3>1 DEF Dht!shutdown, DhtInv, DhtCalls
    <2>3. CASE Dht!Abandon(c)
      <3>1. DhtCalls'
        BY <2>0, <2>3, DhtReturn DEF Dht!Abandon, DhtInv
      <3> QED
        BY <2>3, <3>1 DEF Dht!Abandon, DhtInv, DhtRest
    <2>4. CASE Dht!CallerStep(c)
      <3>1. PICK how : Dht!Return(c) /\ Dht!AfterNew(c, how) /\ UNCHANGED <<chan, pending, queries>>
        BY <2>4, Zenon DEF Dht!CallerStep, Dht!SendFails, Dht!Receive
      <3>2. node' \in Node
        BY <1>0, <3>1 DEF Dht!AfterNew
      <3>3. DhtCalls'
        BY <2>0, <3>1, DhtReturn DEF DhtInv
      <3> QED
        BY <3>1, <3>2, <3>3 DEF DhtInv, DhtRest
    <2> QED
      BY <2>1, <2>2, <2>3, <2>4
  <1>6. CASE \E t \in Dht!Tasks : Dht!Send(t)
    BY <1>6, DhtSend
  <1>7. CASE \E r \in Refreshers : Dht!start_record_refresh(r) \/ Dht!RefreshStep(r) \/ Dht!Cancelled(r)
    <2>1. \A r \in Refreshers : r \in Dht!Tasks
      BY DEF Dht!Tasks
    <2> QED
      BY <1>7, <2>1, DhtStartRefresh, DhtRefresh, DhtEnd DEF Dht!Cancelled
  <1>8. CASE Dht!Loop
    BY <1>8, DhtLoop
  <1>9. CASE \E q \in queries : Dht!Reports(q)
    <2> PICK q \in queries, how \in {"ok", "err"} : Dht!handle_event(q, how)
      BY <1>9 DEF Dht!Reports
    <2>1. q.from \in Dht!Tasks
      BY DEF DhtInv, DhtRest, Dht!Queries
    <2>2. DhtCalls'
      BY <2>1, DhtRespond DEF Dht!handle_event, DhtInv
    <2> QED
      BY <2>2 DEF DhtInv, DhtRest, Dht!handle_event
  <1> QED
    BY <1>1, <1>2, <1>3, <1>4, <1>5, <1>6, <1>7, <1>8, <1>9 DEF Dht!Next

----------------------------------------------------------------------------
(* The parts together *)

Inv ==
  /\ part = "eyeballs" => EyeballsInv
  /\ part = "probing" => ProbingInv
  /\ part = "open" => OpenInv
  /\ part = "nat" => NatInv
  /\ part = "dht" => DhtInv

\* The first state of each part satisfies that part's invariant.
LEMMA ConnectionsInit ==
  ASSUME Init
  PROVE  Inv
  BY EyeballsInit, ProbingInit, OpenInit, NatInit, DhtInit, FamiliesAssumption DEF Init, Inv

\* A step is one of the part that the behaviour is of.
LEMMA ConnectionsStep ==
  ASSUME Inv, [Next]_all
  PROVE  Inv'
  <1>1. CASE IsEyeballs /\ Eyeballs!Next
    BY <1>1, EyeballsStep, FamiliesAssumption DEF IsEyeballs, Inv
  <1>2. CASE IsProbing /\ Probing!Next
    BY <1>2, ProbingStep, FamiliesAssumption DEF IsProbing, Inv
  <1>3. CASE IsOpen /\ Open!Next
    BY <1>3, OpenStep DEF IsOpen, Inv
  <1>4. CASE IsNat /\ Nat_!Next
    <2>1. NatInv'
      BY <1>4, NatStep DEF IsNat, Inv, Nat_!Next
    <2> QED
      BY <1>4, <2>1 DEF IsNat, Inv
  <1>5. CASE IsDht /\ Dht!Next
    BY <1>5, DhtStep DEF IsDht, Inv
  <1>6. CASE UNCHANGED all
    <2>1. UNCHANGED <<part, pc, attempt, timer, result, conn, acc, con, main, cache, writer, local,
                      task, node, chan, pending, queries, call>>
      BY <1>6 DEF all, raceVars, openVars, natVars, dhtVars
    <2>2. EyeballsInv => EyeballsInv'
      BY <2>1 DEF EyeballsInv, Eyeballs!TypeOK, Eyeballs!ResultOnReturn, Eyeballs!NothingLeftBehind
    <2>3. ProbingInv => ProbingInv'
      BY <2>1 DEF ProbingInv, Probing!TypeOK, Probing!ResultOnReturn, Probing!ErrorMeansExhausted
    <2>4. OpenInv => OpenInv'
      BY <2>1 DEF OpenInv, Open!TypeOK
    <2>5. NatInv => NatInv'
      BY <2>1 DEF NatInv, Nat_!TypeOK, Nat_!StoresEnough, Nat_!NeverFromTooFew
    <2>6. DhtInv => DhtInv'
      BY <2>1 DEF DhtInv, DhtRest, DhtCalls
    <2> QED
      BY <2>1, <2>2, <2>3, <2>4, <2>5, <2>6 DEF Inv
  <1> QED
    BY <1>1, <1>2, <1>3, <1>4, <1>5, <1>6 DEF Next

\* The invariant holds throughout.
LEMMA ConnectionsInv == Spec => []Inv
  <1>1. Init => Inv
    BY ConnectionsInit
  <1>2. Inv /\ [Next]_all => Inv'
    BY ConnectionsStep
  <1> QED
    BY <1>1, <1>2, PTL DEF Spec

\* The variables of every part keep their types.
THEOREM ConnectionsTypes == Spec => []TypeOK
  <1>1. DhtInv => Dht!TypeOK
    BY DEF DhtInv, DhtRest, DhtCalls, Dht!TypeOK
  <1>2. Inv => TypeOK
    BY <1>1 DEF Inv, TypeOK, EyeballsInv, ProbingInv, OpenInv, NatInv
  <1> QED
    BY <1>2, ConnectionsInv, PTL

\* Neither race of connection.rs leaves an attempt running or unspawned when it
\* returns, whatever addresses and ports there are, and probe_range reports
\* exhaustion only when it is exhausted.
THEOREM RacesLeaveNothingBehind == Spec => []NothingLeftBehind
  <1>1. Inv => NothingLeftBehind
    BY DEF Inv, NothingLeftBehind, EyeballsInv, ProbingInv
  <1> QED
    BY <1>1, ConnectionsInv, PTL

\* However many paths are probed and whatever tasks run: no NAT type is concluded
\* from fewer than three answers (NatProber::probe, quick_refresh).
THEOREM NatNeverFromTooFew == Spec => []NeverFromTooFew
  <1>1. Inv => NeverFromTooFew
    BY DEF Inv, NeverFromTooFew, NatInv
  <1> QED
    BY <1>1, ConnectionsInv, PTL

\* try_simultaneous_open loses a connection, fails or panics only if one of its
\* two tasks has failed, for any number of addresses.
THEOREM OpenLostOnlyAfterFailure == Spec => []LostOnlyAfterFailure
  <1>1. OpenInv => Open!LostOnlyAfterFailure
    BY DEF OpenInv, PeerOK, Open!LostOnlyAfterFailure, Open!Failed
  <1>2. Inv => LostOnlyAfterFailure
    BY <1>1 DEF Inv, LostOnlyAfterFailure
  <1> QED
    BY <1>2, ConnectionsInv, PTL

\* happy_eyeballs_connect implements the abstract race without a deadline, and
\* probe_range the one with a deadline.
THEOREM RacesImplementRace == Spec => ImplementsRace
  <1>1. Init => EyeballsRace!Init /\ ProbingRace!Init
    <2> SUFFICES ASSUME Init PROVE EyeballsRace!Init /\ ProbingRace!Init
      OBVIOUS
    <2>1. CASE part = "eyeballs"
      <3>1. Eyeballs!Init
        BY <2>1 DEF Init
      <3> QED
        BY <2>1, <3>1, Zenon DEF Eyeballs!Init, Eyeballs!Fates, Eyeballs!Fate, Eyeballs!Addrs, EyeballsFates,
           EyeballsResult, ProbingFates, ProbingResult, EyeballsRace!Init, ProbingRace!Init
    <2>2. CASE part = "probing"
      <3>1. Probing!Init
        BY <2>2 DEF Init
      <3> QED
        BY <2>2, <3>1 DEF Probing!Init, Probing!Fates, Probing!Fate, EyeballsFates,
           EyeballsResult, ProbingFates, ProbingResult, EyeballsRace!Init, ProbingRace!Init
    <2>3. CASE part # "eyeballs" /\ part # "probing"
      BY <2>3 DEF EyeballsFates, EyeballsResult, ProbingFates, ProbingResult,
                  EyeballsRace!Init, ProbingRace!Init
    <2> QED
      BY <2>1, <2>2, <2>3
  <1>2. Inv /\ [Next]_all =>
          [EyeballsRace!Next]_(EyeballsRace!vars) /\ [ProbingRace!Next]_(ProbingRace!vars)
    <2> SUFFICES ASSUME Inv, [Next]_all
                 PROVE  [EyeballsRace!Next]_(EyeballsRace!vars) /\ [ProbingRace!Next]_(ProbingRace!vars)
      OBVIOUS
    <2>1. part' = part
      BY DEF Next, IsEyeballs, IsProbing, IsOpen, IsNat, IsDht, all
    <2>2. part # "eyeballs" => UNCHANGED EyeballsRace!vars
      BY <2>1 DEF EyeballsRace!vars, EyeballsFates, EyeballsResult
    <2>3. part # "probing" => UNCHANGED ProbingRace!vars
      BY <2>1 DEF ProbingRace!vars, ProbingFates, ProbingResult
    <2>4. UNCHANGED all => UNCHANGED EyeballsRace!vars /\ UNCHANGED ProbingRace!vars
      BY DEF all, raceVars, EyeballsRace!vars, EyeballsFates, EyeballsResult, Eyeballs!Fates,
             ProbingRace!vars, ProbingFates, ProbingResult, Probing!Fates
    <2>5. CASE part = "eyeballs" /\ ~UNCHANGED all
      <3>1. Eyeballs!Next /\ EyeballsInv
        BY <2>5 DEF Next, IsEyeballs, IsProbing, IsOpen, IsNat, IsDht, Inv
      <3> QED
        BY <2>1, <2>3, <2>5, <3>1, EyeballsRefines
    <2>6. CASE part = "probing" /\ ~UNCHANGED all
      <3>1. Probing!Next /\ ProbingInv
        BY <2>6 DEF Next, IsEyeballs, IsProbing, IsOpen, IsNat, IsDht, Inv
      <3> QED
        BY <2>1, <2>2, <2>6, <3>1, ProbingRefines
    <2> QED
      BY <2>2, <2>3, <2>4, <2>5, <2>6
  <1> QED
    BY <1>1, <1>2, ConnectionsInv, PTL DEF Spec, ImplementsRace, EyeballsRace!Spec, ProbingRace!Spec
=============================================================================
