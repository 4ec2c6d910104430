------------------------------ MODULE DhtNode ------------------------------
(***************************************************************************)
(* A DHT node (node.rs): the handle that callers share, the task that runs *)
(* the event loop and owns the libp2p swarm, and the tasks that publish    *)
(* records again and again.  Callers send commands over a bounded channel  *)
(* and wait for a oneshot; the loop starts queries and keeps the oneshot's *)
(* sender in a pending table until the swarm reports on the query.         *)
(*                                                                         *)
(* The swarm is external: a query that was started reports one or more     *)
(* times, and ends (Kademlia's query timeout).  What a query finds is left *)
(* open.                                                                   *)
(***************************************************************************)
EXTENDS Naturals, Sequences, FiniteSets

CONSTANTS
  Callers,      \* tasks that call the handle's methods
  Refreshers,   \* the tasks start_record_refresh spawns, one each
  Creator,      \* the caller that runs DhtNode::new
  None,         \* no refresh task
  ChannelCap,   \* mpsc::channel(64)
  NumRecords,   \* records of a refresh task
  MaxCalls      \* bound on the calls of a caller

VARIABLES
  node,         \* the loop, the handle, its refresh_handle, the routing table
  chan,         \* the commands in the channel
  pending,      \* the commands whose sender is in a pending table
  queries,      \* the commands whose query the swarm runs
  call          \* what each task is doing

vars == <<node, chan, pending, queries, call>>

Tasks == Callers \cup Refreshers

(* n tells a caller's requests apart; a refresh task has one at a time.    *)
Command(op, t) == [op |-> op, from |-> t, n |-> call[t].n]

Idle == [pc |-> "idle", op |-> "none", n |-> 0, reply |-> "none", left |-> 0, aborted |-> FALSE]
Unborn == [Idle EXCEPT !.pc = "unborn"]

Init ==
  /\ node = [loop |-> "running", handle |-> "new", refresh |-> None, routed |-> FALSE]
  /\ chan = << >> /\ pending = {} /\ queries = {}
  /\ call = [t \in Tasks |-> IF t \in Refreshers THEN Unborn ELSE Idle]

----------------------------------------------------------------------------
(* A task sends a command, or waits for room; the channel is closed once   *)
(* the loop has ended.                                                     *)
HasRoom == node.loop = "running" /\ Len(chan) < ChannelCap

Return(t) ==
  call' = [call EXCEPT ![t].pc = "idle", ![t].op = "none", ![t].reply = "none"]

Start(t, op) ==
  /\ call[t].pc = "idle" /\ call[t].n < MaxCalls
  /\ call' = [call EXCEPT ![t].pc = "sending", ![t].op = op,
                          ![t].n = call[t].n + 1]
  /\ UNCHANGED <<node, chan, pending, queries>>

(* DhtNode::new: the nodes that have a peer id are added, then bootstrap.  *)
AddBootstrapNode ==
  /\ node.handle = "new" /\ call[Creator].pc = "idle" /\ HasRoom
  /\ \A i \in 1 .. Len(chan) : chan[i].op # "add"
  /\ ~node.routed
  /\ chan' = Append(chan, Command("add", Creator))
  /\ UNCHANGED <<node, pending, queries, call>>

New == node.handle = "new" /\ Start(Creator, "bootstrap")

(* put_record, get_record and bootstrap, and the methods that derive the   *)
(* key for them.                                                           *)
Call(c) == node.handle = "open" /\ \E op \in {"put", "get", "bootstrap"} : Start(c, op)

shutdown(c) ==
  /\ node.handle = "open" /\ call[c].pc = "idle" /\ HasRoom
  /\ \A i \in 1 .. Len(chan) : chan[i].op # "shutdown"
  /\ chan' = Append(chan, Command("shutdown", c))
  /\ UNCHANGED <<node, pending, queries, call>>

Send(t) ==
  /\ call[t].pc = "sending"
  /\ HasRoom
  /\ chan' = Append(chan, Command(call[t].op, t))
  /\ call' = [call EXCEPT ![t].pc = "waiting"]
  /\ UNCHANGED <<node, pending, queries>>

(* new drops the node when bootstrap fails.                                *)
AfterNew(t, how) ==
  node' = IF t = Creator /\ node.handle = "new"
          THEN [node EXCEPT !.handle = IF how = "ok" THEN "open" ELSE "dropped"]
          ELSE node

SendFails(c) ==
  /\ c \in Callers /\ call[c].pc = "sending" /\ node.loop = "stopped"
  /\ Return(c) /\ AfterNew(c, "closed")
  /\ UNCHANGED <<chan, pending, queries>>

(* The oneshot's sender is in the command, or in a pending table.          *)
SenderAlive(t) ==
  \/ \E i \in 1 .. Len(chan) : chan[i].from = t /\ chan[i].n = call[t].n /\ chan[i].op = call[t].op
  \/ \E q \in pending : q.from = t /\ q.n = call[t].n

Answered(t) == call[t].pc = "waiting" /\ (call[t].reply # "none" \/ ~SenderAlive(t))
Answer(t) == IF call[t].reply # "none" THEN call[t].reply ELSE "closed"

Receive(c) ==
  /\ c \in Callers /\ Answered(c)
  /\ Return(c) /\ AfterNew(c, Answer(c))
  /\ UNCHANGED <<chan, pending, queries>>

(* DiscoveryService's timeout around a get drops the future.               *)
Abandon(c) ==
  /\ call[c].op = "get" /\ call[c].pc \in {"sending", "waiting"}
  /\ Return(c)
  /\ UNCHANGED <<node, chan, pending, queries>>

(* The node goes out of scope; nobody stops its refresh task.              *)
Drop ==
  /\ node.handle = "open" /\ \A c \in Callers : call[c].pc = "idle"
  /\ node' = [node EXCEPT !.handle = "dropped"]
  /\ UNCHANGED <<chan, pending, queries, call>>

----------------------------------------------------------------------------
(* The event loop.                                                         *)
Respond(cmd, how) ==
  IF call[cmd.from].pc = "waiting" /\ call[cmd.from].n = cmd.n
  THEN [call EXCEPT ![cmd.from].reply = how]
  ELSE call

Stop ==
  /\ node' = [node EXCEPT !.loop = "stopped"]
  /\ chan' = << >> /\ pending' = {} /\ queries' = {}
  /\ UNCHANGED call

StartQuery(cmd) ==
  /\ pending' = pending \cup {cmd} /\ queries' = queries \cup {cmd}
  /\ UNCHANGED call

QueryRefused(cmd) ==
  /\ call' = Respond(cmd, "err")
  /\ UNCHANGED <<pending, queries>>

Started(cmd) ==
  \/ cmd.op = "put" /\ (StartQuery(cmd) \/ QueryRefused(cmd))
  \/ cmd.op = "get" /\ StartQuery(cmd)
  \/ cmd.op = "bootstrap" /\ IF node.routed THEN StartQuery(cmd) ELSE QueryRefused(cmd)
  \/ cmd.op = "add" /\ UNCHANGED <<pending, queries, call>>

Recv ==
  /\ node.loop = "running" /\ chan # << >>
  /\ IF Head(chan).op = "shutdown" THEN Stop
     ELSE /\ chan' = Tail(chan)
          /\ Started(Head(chan))
          /\ node' = [node EXCEPT !.routed = @ \/ Head(chan).op = "add"]

(* Every sender of the channel is gone: the handle's and those of the      *)
(* refresh tasks.                                                          *)
RecvNone ==
  /\ node.loop = "running" /\ chan = << >> /\ node.handle = "dropped"
  /\ \A r \in Refreshers : call[r].pc \in {"unborn", "ended"}
  /\ Stop

handle_event_found_only(q, how) ==
  /\ pending' = IF how = "ok" THEN pending \ {q} ELSE pending
  /\ call' = IF how = "ok" THEN Respond(q, how) ELSE call
  /\ queries' = queries \ {q}
  /\ UNCHANGED <<node, chan>>

(* OutboundQueryProgressed: the first report of a query answers its caller *)
(* and takes it out of the table; later reports of that query find nothing *)
(* there, so they are not steps of the model.                              *)
handle_event(q, how) ==
  /\ pending' = pending \ {q}
  /\ call' = Respond(q, how)
  /\ queries' = queries \ {q}
  /\ UNCHANGED <<node, chan>>

Reports(q) == \E how \in {"ok", "err"} : handle_event(q, how)

----------------------------------------------------------------------------
(* The refresh tasks.  start and stop need the node exclusively, so no     *)
(* call is in progress.  An aborted task may still finish the poll it is   *)
(* in.                                                                     *)
Exclusive == node.handle = "open" /\ \A c \in Callers : call[c].pc = "idle"

Aborted(r) == IF r = None THEN call ELSE [call EXCEPT ![r].aborted = TRUE]

start_record_refresh(r) ==
  /\ Exclusive /\ call[r].pc = "unborn"
  /\ call' = [Aborted(node.refresh) EXCEPT ![r] = [Idle EXCEPT !.pc = "ticking"]]
  /\ node' = [node EXCEPT !.refresh = r]
  /\ UNCHANGED <<chan, pending, queries>>

stop_record_refresh ==
  /\ Exclusive /\ node.refresh # None
  /\ call' = Aborted(node.refresh)
  /\ node' = [node EXCEPT !.refresh = None]
  /\ UNCHANGED <<chan, pending, queries>>

Tick(r) ==
  /\ call[r].pc = "ticking"
  /\ call' = [call EXCEPT ![r].pc = "sending", ![r].op = "put", ![r].left = NumRecords]
  /\ UNCHANGED <<node, chan, pending, queries>>

End(r) ==
  /\ call' = [call EXCEPT ![r] = [Idle EXCEPT !.pc = "ended"]]
  /\ UNCHANGED <<node, chan, pending, queries>>

Cancelled(r) == call[r].aborted /\ call[r].pc # "ended" /\ End(r)

(* A failed put is only logged; a closed channel or oneshot ends the task. *)
Refreshed(r) ==
  /\ r \in Refreshers /\ Answered(r)
  /\ IF Answer(r) = "closed" THEN End(r)
     ELSE /\ call' = [call EXCEPT ![r].pc = IF call[r].left = 1 THEN "ticking" ELSE "sending",
                                  ![r].op = IF call[r].left = 1 THEN "none" ELSE "put",
                                  ![r].left = @ - 1, ![r].reply = "none"]
          /\ UNCHANGED <<node, chan, pending, queries>>

RefreshSendFails(r) ==
  /\ r \in Refreshers /\ call[r].pc = "sending" /\ node.loop = "stopped"
  /\ End(r)

----------------------------------------------------------------------------
(* The groups of actions that the scheduler treats fairly: the loop, the   *)
(* callers, the refresh tasks and the swarm, which reports on every query. *)
(* The channel serves waiting senders in turn.                             *)
Loop == Recv \/ RecvNone

CallerStep(c) == SendFails(c) \/ Receive(c)

ReportsTo(t) == \E q \in queries : q.from = t /\ Reports(q)

RefreshStep(r) == Tick(r) \/ Refreshed(r) \/ RefreshSendFails(r)

Next ==
  \/ AddBootstrapNode \/ New \/ Drop \/ stop_record_refresh
  \/ \E c \in Callers : Call(c) \/ shutdown(c) \/ Abandon(c) \/ CallerStep(c)
  \/ \E t \in Tasks : Send(t)
  \/ \E r \in Refreshers : start_record_refresh(r) \/ RefreshStep(r) \/ Cancelled(r)
  \/ Loop
  \/ \E q \in queries : Reports(q)

----------------------------------------------------------------------------
Commands == [op : {"put", "get", "bootstrap", "add", "shutdown"}, from : Tasks, n : 0 .. MaxCalls]
Queries == [op : {"put", "get", "bootstrap"}, from : Tasks, n : 0 .. MaxCalls]
CallState ==
  [pc : {"unborn", "idle", "ticking", "sending", "waiting", "ended"},
   op : {"none", "put", "get", "bootstrap"}, n : 0 .. MaxCalls, reply : {"none", "ok", "err"},
   left : 0 .. NumRecords, aborted : BOOLEAN]

TypeOK ==
  /\ node \in [loop : {"running", "stopped"}, handle : {"new", "open", "dropped"},
               refresh : Refreshers \cup {None}, routed : BOOLEAN]
  /\ chan \in Seq(Commands) /\ Len(chan) <= ChannelCap
  /\ pending \cup queries \subseteq Queries
  /\ call \in [Tasks -> CallState]
=============================================================================
