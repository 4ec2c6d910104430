------------------------------ MODULE Migration ------------------------------
(***************************************************************************)
(* ConnectionMigrator::handle_network_change (migration.rs), running for   *)
(* several network changes of one QUIC connection.  Time is in ticks of    *)
(* 100 ms, the poll interval of wait_for_path_validation.  quinn decides   *)
(* when the local address of a new path is known, which is all the code    *)
(* looks at, and when the connection is lost.                              *)
(***************************************************************************)
EXTENDS Naturals

CONSTANTS
  Handlers,     \* one per network change
  Events,       \* the kinds of change that happen
  Timeout,      \* migration_path_timeout_ms, in ticks
  MaxTime       \* bound on time

NetworkChangeEvent ==
  {"WifiToCellular", "CellularToWifi", "NewWifiNetwork", "Ipv6PrefixChange", "NatRebinding"}

VARIABLES
  now,
  conn,         \* network the path is to leave from, address known, lost
  task,         \* handler -> its state; net is the network of its event
  cache,        \* network the NAT prober's cache is about, 0 if invalidated
  heard         \* networks of the predictions the peer was told, in order

vars == <<now, conn, task, cache, heard>>

requires_nat_reprobe(e) == e # "Ipv6PrefixChange"

NoTask == [pc |-> "none", event |-> "none", began |-> 0, net |-> 0, nat |-> 0, ended |-> 0]

Init ==
  /\ now = 0
  /\ conn = [net |-> 1, ip |-> TRUE, lost |-> FALSE]
  /\ task = [h \in Handlers |-> NoTask]
  /\ cache = 1
  /\ heard = {}

(* The event, and the call that handles it.                                *)
NetworkChange(h) ==
  /\ task[h].pc = "none" /\ ~conn.lost
  /\ \E e \in Events, known \in BOOLEAN :
       /\ task' = [task EXCEPT ![h].pc = "wait", ![h].event = e, ![h].began = now,
                               ![h].net = conn.net + 1]
       /\ conn' = [conn EXCEPT !.net = @ + 1, !.ip = known]
  /\ UNCHANGED <<now, cache, heard>>

Quinn ==
  /\ \/ ~conn.ip /\ conn' = [conn EXCEPT !.ip = TRUE]
     \/ ~conn.lost /\ conn' = [conn EXCEPT !.lost = TRUE]
  /\ UNCHANGED <<now, task, cache, heard>>

Finish(h, pc) ==
  task' = [task EXCEPT ![h].pc = pc, ![h].ended = now]

(* One poll of wait_for_path_validation under the outer timeout.           *)
Poll(h) ==
  /\ task[h].pc = "wait"
  /\ IF now - task[h].began > Timeout THEN Finish(h, "timedOut")
     ELSE IF conn.lost THEN Finish(h, "failed")
     ELSE IF conn.ip THEN task' = [task EXCEPT ![h].pc = "reprobe"]
     ELSE UNCHANGED task
  /\ UNCHANGED <<now, conn, cache, heard>>

invalidate_cache_all(h) ==
  /\ task[h].pc = "reprobe"
  /\ cache' = 0 /\ task' = [task EXCEPT ![h].pc = "probing"]
  /\ UNCHANGED <<now, conn, heard>>

(* Step 2: invalidate_cache, then probe, which takes its own time and may  *)
(* fail; a failure is not fatal.                                           *)
invalidate_cache(h) ==
  /\ task[h].pc = "reprobe"
  /\ IF requires_nat_reprobe(task[h].event)
     THEN cache' = 0 /\ task' = [task EXCEPT ![h].pc = "probing"]
     ELSE task' = [task EXCEPT ![h].pc = "notify"] /\ UNCHANGED cache
  /\ UNCHANGED <<now, conn, heard>>

probe(h) ==
  /\ task[h].pc = "probing"
  /\ \/ /\ cache' = conn.net
        /\ task' = [task EXCEPT ![h].pc = "notify", ![h].nat = conn.net]
     \/ task' = [task EXCEPT ![h].pc = "notify"] /\ UNCHANGED cache
  /\ UNCHANGED <<now, conn, heard>>

(* Step 3: the notification; a failure to send it is not fatal either.  It *)
(* carries the prediction of the new NAT information if there is one.      *)
send_migration_notification(h) ==
  /\ task[h].pc = "notify"
  /\ \/ ~conn.lost /\ heard' = heard \cup {[by |-> h, nat |-> task[h].nat]}
     \/ UNCHANGED heard
  /\ Finish(h, "success")
  /\ UNCHANGED <<now, conn, cache>>

Tick == /\ now < MaxTime /\ now' = now + 1
        /\ UNCHANGED <<conn, task, cache, heard>>

Handle(h) ==
  \/ Poll(h) \/ invalidate_cache(h) \/ probe(h) \/ send_migration_notification(h)

Next == Tick \/ Quinn \/ \E h \in Handlers : NetworkChange(h) \/ Handle(h)

Spec == Init /\ [][Next]_vars

----------------------------------------------------------------------------
Ended == {"success", "failed", "timedOut"}
Task ==
  [pc : Ended \cup {"none", "wait", "reprobe", "probing", "notify"},
   event : NetworkChangeEvent \cup {"none"}, began : Nat, net : Nat, nat : Nat, ended : Nat]

TypeOK ==
  /\ now \in 0 .. MaxTime
  /\ conn \in [net : Nat, ip : BOOLEAN, lost : BOOLEAN]
  /\ task \in [Handlers -> Task]
  /\ cache \in 0 .. conn.net
  /\ heard \subseteq [by : Handlers, nat : 0 .. conn.net]

(* The peer is told a prediction only by a migration that succeeded, after *)
(* a probe of its own on a network at least as new as its event's; an IPv6 *)
(* prefix change tells none.  A migration that failed told nothing.        *)
ToldWhatWasProbed ==
  \A m \in heard :
    /\ task[m.by].pc = "success"
    /\ m.nat = task[m.by].nat
    /\ (m.nat # 0) => (requires_nat_reprobe(task[m.by].event) /\ m.nat >= task[m.by].net)

(* Only the loss or the timeout of the path fails a migration; a failed    *)
(* probe or notification does not.                                         *)
FailsOnlyWithPath ==
  \A h \in Handlers :
    /\ task[h].pc = "failed" => conn.lost
    /\ task[h].pc = "timedOut" => task[h].ended - task[h].began > Timeout

=============================================================================
