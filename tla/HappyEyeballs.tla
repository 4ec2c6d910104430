--------------------------- MODULE HappyEyeballs ---------------------------
(***************************************************************************)
(* happy_eyeballs_connect (connection.rs): the IPv6 attempts start at      *)
(* once, the IPv4 attempts after the head start, and the caller joins the  *)
(* tasks of a JoinSet until one has a connection.  join_next returns some  *)
(* finished task; leaving the function drops the JoinSet, which aborts     *)
(* what still runs and drops what nobody joined.                           *)
(***************************************************************************)
CONSTANTS IPv6, IPv4    \* the addresses of the peer that parsed

VARIABLES
  pc,           \* "headStart", "race", "returned"
  attempt,      \* address -> state of its task
  result        \* "none", "error" or the address that connected

vars == <<pc, attempt, result>>

Addrs == IPv6 \cup IPv4
States == {"unspawned", "running", "ok", "err", "joined", "aborted"}

Init ==
  /\ pc = "headStart"
  /\ attempt = [a \in Addrs |-> IF a \in IPv6 THEN "running" ELSE "unspawned"]
  /\ result = "none"

(* The 25 ms sleep is over: the IPv4 attempts are spawned.                 *)
HeadStartOver ==
  /\ pc = "headStart"
  /\ pc' = "race"
  /\ attempt' = [a \in Addrs |-> IF a \in IPv4 THEN "running" ELSE attempt[a]]
  /\ UNCHANGED result

(* connect_with_timeout ends with a connection, an error or the timeout.   *)
connect_with_timeout(a) ==
  /\ attempt[a] = "running"
  /\ \E r \in {"ok", "err"} : attempt' = [attempt EXCEPT ![a] = r]
  /\ UNCHANGED <<pc, result>>

Aborted == [a \in Addrs |-> IF attempt[a] = "running" THEN "aborted" ELSE attempt[a]]

JoinOk(a) ==
  /\ pc = "race" /\ attempt[a] = "ok"
  /\ result' = a
  /\ pc' = "returned"
  /\ attempt' = Aborted

JoinErr_returns(a) ==
  /\ pc = "race" /\ attempt[a] = "err"
  /\ result' = "error" /\ pc' = "returned"
  /\ attempt' = Aborted

JoinErr(a) ==
  /\ pc = "race" /\ attempt[a] = "err"
  /\ attempt' = [attempt EXCEPT ![a] = "joined"]
  /\ UNCHANGED <<pc, result>>

(* join_next returns None: the last error is returned.                     *)
JoinNone ==
  /\ pc = "race" /\ \A a \in Addrs : attempt[a] = "joined"
  /\ result' = "error"
  /\ pc' = "returned"
  /\ UNCHANGED attempt

Next ==
  \/ HeadStartOver \/ JoinNone
  \/ \E a \in Addrs : connect_with_timeout(a) \/ JoinOk(a) \/ JoinErr(a)

(* The sleep and every attempt end (timers); the caller is polled.         *)
Spec == Init /\ [][Next]_vars /\ WF_vars(Next)

----------------------------------------------------------------------------
TypeOK ==
  /\ pc \in {"headStart", "race", "returned"}
  /\ attempt \in [Addrs -> States]
  /\ result \in {"none", "error"} \cup Addrs
  /\ \A a \in Addrs : attempt[a] = "unspawned" <=> pc = "headStart" /\ a \in IPv4

(* The result comes with the return.                                       *)
ResultOnReturn == pc # "returned" => result = "none"

(* No attempt goes on, and no attempt's task is left unspawned, once the   *)
(* caller has its result.                                                  *)
NothingLeftBehind ==
  pc = "returned" => \A a \in Addrs : attempt[a] \notin {"running", "unspawned"}

Fate(s) ==
  IF s \in {"unspawned", "running"} THEN "pending" ELSE IF s = "ok" THEN "ok" ELSE "failed"

Fates == [a \in Addrs |-> Fate(attempt[a])]

(* The function keeps the promise of a race without a deadline:            *)
(* connection.rs:144 "The first successful QUIC connection, or an error if *)
(* all attempts fail".                                                     *)
Race == INSTANCE ConnectRace WITH
  Attempts <- Addrs, Deadline <- FALSE, fate <- Fates, result <- result

ImplementsRace == Race!Spec
=============================================================================
