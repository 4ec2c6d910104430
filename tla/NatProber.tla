----------------------------- MODULE NatProber -----------------------------
(***************************************************************************)
(* The NAT prober's cache (nat_probe.rs) and the connection manager's copy *)
(* of its result (connection.rs), used by several tasks.                   *)
(*                                                                         *)
(* A probe awaits one answer per server address; tasks interleave there    *)
(* and at the cache's RwLock.  What a probe concludes is modelled in       *)
(* PortPrediction: here a result is the number of answers it comes from.   *)
(* How old a result is changes no step, so the timestamp is left out.  A   *)
(* guard that is dropped before the next await is part of one action; the  *)
(* only guard held across an await is quick_refresh's write guard.         *)
(***************************************************************************)
EXTENDS Naturals

CONSTANTS
  Tasks,        \* callers of the prober
  Paths,        \* addresses a full probe asks: min(path_probe_count, ips)
  RefreshPaths  \* addresses a quick refresh asks

Operations == {"cached", "probe", "reprobe", "invalidate", "refresh"}

VARIABLES
  cache,        \* NATProber.cache: NoResult or a result
  writer,       \* the task, if any, whose write guard on the cache is alive
  local,        \* ConnectionManager.local_nat_info
  task          \* what each task is doing

vars == <<cache, writer, local, task>>

NoResult == 0
Idle == [op |-> "none", pc |-> "idle", asked |-> 0, got |-> 0]

Init ==
  /\ cache = NoResult /\ local = NoResult
  /\ writer = {}
  /\ task = [t \in Tasks |-> Idle]

Unlocked == writer = {}
Goto(t, pc) == task' = [task EXCEPT ![t].pc = pc]
Finish(t) == task' = [task EXCEPT ![t] = Idle]
StartPaths(t, pc) ==
  task' = [task EXCEPT ![t].pc = pc, ![t].asked = 0, ![t].got = 0]

(* Where each operation begins.                                            *)
FirstPc ==
  [cached |-> "read", probe |-> "paths", refresh |-> "refreshPaths",
   reprobe |-> "clear", invalidate |-> "clear"]

----------------------------------------------------------------------------
Start(t, op) ==
  /\ task[t].pc = "idle"
  /\ task' = [task EXCEPT ![t] = [Idle EXCEPT !.op = op, !.pc = FirstPc[op]]]
  /\ UNCHANGED <<cache, writer, local>>

(* cached_nat_info, and has_valid_cache: take the read lock and return.    *)
(* quick_refresh calls it too, at "readBack", with its write guard alive.  *)
cached_nat_info(t) ==
  /\ task[t].pc \in {"read", "readBack"} /\ Unlocked
  /\ Finish(t)
  /\ UNCHANGED <<cache, writer, local>>

(* invalidate_cache; reprobe_nat goes on with a probe.                     *)
invalidate_cache(t) ==
  /\ task[t].pc = "clear" /\ Unlocked
  /\ cache' = NoResult
  /\ IF task[t].op = "reprobe" THEN Goto(t, "paths") ELSE Finish(t)
  /\ UNCHANGED <<writer, local>>

(* One probe_single_path: the answer, or a timeout or error that the loop  *)
(* skips.                                                                  *)
probe_single_path(t, pc, limit, ok) ==
  /\ task[t].pc = pc /\ task[t].asked < limit
  /\ task' = [task EXCEPT ![t].asked = @ + 1,
                          ![t].got = IF ok THEN @ + 1 ELSE @]
  /\ UNCHANGED <<cache, writer, local>>

Result(t) == task[t].got

Enough_any(t) == task[t].got > 0

(* results.len() < 3 is an error.                                          *)
Enough(t) == task[t].got >= 3

probe_retries(t) ==
  /\ task[t].pc = "paths" /\ task[t].asked = Paths
  /\ \/ ~Enough(t) /\ StartPaths(t, "paths") /\ UNCHANGED cache
     \/ /\ Enough(t) /\ Unlocked
        /\ cache' = Result(t)
        /\ Finish(t)
  /\ UNCHANGED <<writer, local>>

(* The end of probe(): too few answers is an error, otherwise the result   *)
(* is cached.                                                              *)
probe(t) ==
  /\ task[t].pc = "paths" /\ task[t].asked = Paths
  /\ \/ ~Enough(t) /\ Finish(t) /\ UNCHANGED cache
     \/ /\ Enough(t) /\ Unlocked
        /\ cache' = Result(t)
        /\ IF task[t].op \in {"probe", "reprobe"}
           THEN Goto(t, "storeLocal") ELSE Finish(t)
  /\ UNCHANGED <<writer, local>>

(* probe_nat and reprobe_nat keep the result in local_nat_info, under a    *)
(* lock of its own.                                                        *)
store_local(t) ==
  /\ task[t].pc = "storeLocal"
  /\ local' = Result(t)
  /\ Finish(t)
  /\ UNCHANGED <<cache, writer>>

----------------------------------------------------------------------------
(* After the two refresh paths: fewer than two answers, no cache, or       *)
(* deltas that differ from the cached average mean a full probe.  The      *)
(* comparison of two deltas is free: it depends on the ports alone.        *)
quick_refresh(t, matches) ==
  /\ task[t].pc = "refreshPaths" /\ task[t].asked = RefreshPaths
  /\ IF task[t].got < 2 THEN StartPaths(t, "paths")
     ELSE /\ Unlocked
          /\ IF cache # NoResult /\ matches THEN Goto(t, "extend")
             ELSE StartPaths(t, "paths")
  /\ UNCHANGED <<cache, writer, local>>

(* The read guard is dropped and the write guard taken to move the         *)
(* timestamp; it is still alive when cached_nat_info is awaited.           *)
extend_ttl(t) ==
  /\ task[t].pc = "extend" /\ Unlocked
  /\ writer' = {t}
  /\ Goto(t, "readBack")
  /\ UNCHANGED <<cache, local>>

----------------------------------------------------------------------------
Step(t) ==
  \/ cached_nat_info(t)
  \/ invalidate_cache(t)
  \/ \E ok \in BOOLEAN : probe_single_path(t, "paths", Paths, ok)
  \/ \E ok \in BOOLEAN : probe_single_path(t, "refreshPaths", RefreshPaths, ok)
  \/ probe(t)
  \/ store_local(t)
  \/ \E matches \in BOOLEAN : quick_refresh(t, matches)
  \/ extend_ttl(t)

Next ==
  \E t \in Tasks : Step(t) \/ \E op \in Operations : Start(t, op)

Spec == Init /\ [][Next]_vars

(* Every await of a probe has a timeout and the runtime polls woken tasks. *)
FairSpec == Spec /\ \A t \in Tasks : WF_vars(Step(t)) /\ SF_vars(Unlocked /\ Step(t))

----------------------------------------------------------------------------
TaskState ==
  [op : Operations \cup {"none"}, asked : Nat, got : Nat,
   pc : {"idle", "read", "readBack", "clear", "paths", "storeLocal", "refreshPaths", "extend"}]

TypeOK ==
  /\ cache \in 0 .. Paths /\ local \in 0 .. Paths
  /\ writer \subseteq Tasks
  /\ task \in [Tasks -> TaskState]
  /\ \A t \in Tasks : /\ task[t].got <= task[t].asked
                      /\ task[t].pc \in {"clear", "paths", "storeLocal"} => task[t].asked <= Paths

(* What waits to be stored comes from enough answers.                      *)
StoresEnough == \A t \in Tasks : task[t].pc = "storeLocal" => task[t].got >= 3

(* Whatever probes fail and whenever caches are dropped, neither the cache *)
(* nor local_nat_info ever holds a conclusion from fewer than three        *)
(* answers; a failed probe leaves the earlier conclusion in place.         *)
NeverFromTooFew ==
  \A r \in {cache, local} : r = NoResult \/ r >= 3

(* Every operation returns, however the tasks interleave at the lock,      *)
(* unless a quick_refresh that extends the cache's lifetime has the write  *)
(* guard: that one waits for itself in cached_nat_info, and everybody      *)
(* waits for it.                                                           *)
OpsReturn ==
  \A t \in Tasks : task[t].pc # "idle" ~> (task[t].pc = "idle" \/ writer # {})
=============================================================================
