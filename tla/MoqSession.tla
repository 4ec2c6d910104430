----------------------------- MODULE MoqSession -----------------------------
(***************************************************************************)
(* Two MoqSessions on one QUIC connection (moq.rs).  The client sets the   *)
(* session up, the server accepts it; both may announce and subscribe,     *)
(* exchange datagrams, report quality and close.                           *)
(*                                                                         *)
(* A task is one call of a method; a step of it ends where it awaits.  No  *)
(* lock is held across two awaits except quality_reports, which the        *)
(* feedback loop reads while it sends, and control_send, which is held for *)
(* one write_all.  After the handshake nobody reads the control stream, so *)
(* what is written there fills the peer's receive window for good, and a   *)
(* write that finds it full waits until the connection is closed; whether  *)
(* it waits for the window or for the lock makes no difference.            *)
(***************************************************************************)
EXTENDS Naturals, Sequences

CONSTANTS
  Scenes,    \* sets of tasks <<endpoint, method, number>>, one for a behaviour
  Window     \* how many control messages fit in the receive window

VARIABLES side, pc, air

vars == <<side, pc, air>>

Ends == {"client", "server"}
Other(e) == CHOOSE f \in Ends : f # e
Tasks == UNION Scenes

Handshakes == {"setup", "accept"}
Over == {"ok", "failed"}
Idle == [at |-> "ready", arg |-> 0]
MsgType ==
  {"CLIENT_SETUP", "SERVER_SETUP", "ANNOUNCE", "SUBSCRIBE", "TRACK_UPDATE", "FEEDBACK"}

(* MoqSession::new, with the endpoint's view of the connection and the     *)
(* messages it has written to the control stream.                          *)
NewSession ==
  [state |-> "Idle", conn |-> "open", control |-> FALSE, out |-> << >>,
   announced |-> {}, subscriptions |-> {}, next_subscribe_id |-> 0,
   reports |-> << >>, reading |-> FALSE]

Init ==
  /\ side = [e \in Ends |-> NewSession]
  /\ \E s \in Scenes :
       pc = [t \in Tasks |-> IF t \in s THEN Idle ELSE [at |-> "ok", arg |-> 0]]
  /\ air = {}

----------------------------------------------------------------------------
At(t, l) == pc[t].at = l
Goto(t, l) == pc' = [pc EXCEPT ![t].at = l]
With(t, l, a) == pc' = [pc EXCEPT ![t] = [at |-> l, arg |-> a]]
Here(t) == side[t[1]]
Put(e, rec) == side' = [side EXCEPT ![e] = rec]

(* The test most methods begin with.                                       *)
if_Active(t, l) ==
  /\ Goto(t, IF Here(t).state = "Active" THEN l ELSE "failed")
  /\ UNCHANGED <<side, air>>

(* A write that does not notice the end of the connection.                 *)
control_write_deaf(t, m, l) ==
  LET s == Here(t)
  IN /\ Len(s.out) < Window
     /\ Put(t[1], [s EXCEPT !.out = Append(@, m)]) /\ Goto(t, l) /\ UNCHANGED air

(* write_all on the control stream: an error once the connection is        *)
(* closed, otherwise it waits for room in the window.                      *)
control_write(t, m, l) ==
  LET s == Here(t)
  IN \/ s.conn = "closed" /\ Goto(t, "failed") /\ UNCHANGED <<side, air>>
     \/ /\ s.conn = "open" /\ Len(s.out) < Window
        /\ Put(t[1], [s EXCEPT !.out = Append(@, m)]) /\ Goto(t, l) /\ UNCHANGED air

(* setup and accept up to the control stream.  accept_bi returns when the  *)
(* client's first bytes are here.                                          *)
handshake_start(t) ==
  LET s == Here(t)
  IN /\ At(t, "ready") /\ UNCHANGED air
     /\ IF s.state # "Idle" THEN Goto(t, "failed") /\ UNCHANGED side
        ELSE Goto(t, "open") /\ Put(t[1], [s EXCEPT !.state = "SettingUp"])

handshake_open(t) ==
  LET s == Here(t)
      first == IF t[2] = "setup" THEN "write" ELSE "read"
  IN /\ At(t, "open") /\ UNCHANGED air
     /\ \/ s.conn = "closed" /\ Goto(t, "failed") /\ UNCHANGED side
        \/ /\ s.conn = "open" /\ (t[2] = "accept" => side["client"].out # << >>)
           /\ Put(t[1], [s EXCEPT !.control = TRUE]) /\ Goto(t, first)

(* The message a handshake goes on with.  The setup's read also lets three *)
(* message types pass that no session here sends.                          *)
welcome(t, type) ==
  IF t[2] = "setup"
  THEN type \in {"SERVER_SETUP", "ANNOUNCE_CANCEL", "GOAWAY", "MAX_SUBSCRIBE_ID"}
  ELSE type = "CLIENT_SETUP"

(* One read of the control stream, at most ten seconds; what it returns    *)
(* may be cut short, and then the version does not match.                  *)
handshake_read(t) ==
  LET heard == side[Other(t[1])].out
      then == IF t[2] = "setup" THEN "activate" ELSE "write"
  IN /\ At(t, "read") /\ UNCHANGED <<side, air>>
     /\ \/ Goto(t, "failed")
        \/ heard # << >> /\ welcome(t, heard[1].type) /\ Goto(t, then)

handshake_write(t) ==
  /\ At(t, "write") /\ t[2] \in Handshakes
  /\ IF t[2] = "setup" THEN control_write(t, [type |-> "CLIENT_SETUP", id |-> 0], "read")
                       ELSE control_write(t, [type |-> "SERVER_SETUP", id |-> 0], "activate")

(* The last statement: whatever the state is by now.                       *)
handshake_finish(t) ==
  /\ At(t, "activate")
  /\ Put(t[1], [Here(t) EXCEPT !.state = "Active"]) /\ Goto(t, "ok") /\ UNCHANGED air

----------------------------------------------------------------------------
announce(t) ==
  \/ At(t, "ready") /\ if_Active(t, "write")
  \/ At(t, "write") /\ control_write(t, [type |-> "ANNOUNCE", id |-> t[3]], "push")
  \/ /\ At(t, "push") /\ Goto(t, "ok") /\ UNCHANGED air
     /\ Put(t[1], [Here(t) EXCEPT !.announced = @ \cup {t[3]}])

(* The number is read under the lock but stored by the caller later.       *)
assign_subscribe_id_late(t) ==
  /\ At(t, "id") /\ With(t, "write", Here(t).next_subscribe_id)
  /\ UNCHANGED <<side, air>>

assign_subscribe_id(t) ==
  LET s == Here(t)
  IN /\ At(t, "id") /\ With(t, "write", s.next_subscribe_id) /\ UNCHANGED air
     /\ Put(t[1], [s EXCEPT !.next_subscribe_id = @ + 1])

subscribe(t) ==
  \/ At(t, "ready") /\ if_Active(t, "id")
  \/ assign_subscribe_id(t)
  \/ At(t, "write") /\ control_write(t, [type |-> "SUBSCRIBE", id |-> pc[t].arg], "push")
  \/ /\ At(t, "push") /\ Goto(t, "ok") /\ UNCHANGED air
     /\ Put(t[1], [Here(t) EXCEPT !.subscriptions = @ \cup {<<pc[t].arg, t[3]>>}])

(* send_track_update and send_migration_message: no test of the state, and *)
(* nothing is written while there is no control stream.                    *)
update(t) ==
  /\ At(t, "ready")
  /\ IF Here(t).control THEN control_write(t, [type |-> "TRACK_UPDATE", id |-> t[3]], "ok")
                        ELSE Goto(t, "ok") /\ UNCHANGED <<side, air>>

----------------------------------------------------------------------------
(* A datagram is <<receiver, track alias>> with the task's number as its   *)
(* sequence number.  One that is never received was lost.                  *)
send_datagram(t) ==
  \/ At(t, "ready") /\ if_Active(t, "write")
  \/ /\ At(t, "write") /\ UNCHANGED side
     /\ IF Here(t).conn = "closed" THEN Goto(t, "failed") /\ UNCHANGED air
        ELSE Goto(t, "ok") /\ air' = air \cup {[to |-> Other(t[1]), alias |-> t[2], seq |-> t[3]]}

Track(s, alias) == {i \in DOMAIN s.reports : s.reports[i].alias = alias}

(* record_received_datagram: last_seq is the one that came last, and lost  *)
(* stays as new() made it.                                                 *)
record_received_datagram(s, d) ==
  IF Track(s, d.alias) # {}
  THEN LET i == CHOOSE x \in Track(s, d.alias) : TRUE
           old == s.reports[i]
           new == [old EXCEPT !.last_seq = d.seq, !.received = old.received + 1]
       IN [s EXCEPT !.reports = [s.reports EXCEPT ![i] = new]]
  ELSE [s EXCEPT !.reports =
          Append(@, [alias |-> d.alias, last_seq |-> d.seq, received |-> 1])]

(* The receive loop: recv_datagram, then record_received_datagram, which   *)
(* needs quality_reports for itself.                                       *)
receive(t) ==
  \/ At(t, "ready") /\ if_Active(t, "wait")
  \/ At(t, "wait") /\ Here(t).conn = "closed" /\ Goto(t, "failed") /\ UNCHANGED <<side, air>>
  \/ \E d \in air :
       /\ At(t, "wait") /\ d.to = t[1]
       /\ With(t, "record", d) /\ air' = air \ {d} /\ UNCHANGED side
  \/ /\ At(t, "record") /\ ~Here(t).reading /\ UNCHANGED air
     /\ Put(t[1], record_received_datagram(Here(t), pc[t].arg)) /\ With(t, "again", 0)
  \/ At(t, "again") /\ if_Active(t, "wait")

(* start_feedback_loop.  tokio's RwLock admits no reader while a writer    *)
(* waits.  arg counts the reports sent in this round.                      *)
Waiting(e) == \E t \in Tasks : t[1] = e /\ At(t, "record")

send_quality_report(t) ==
  LET s == Here(t)
      next == [at |-> "report", arg |-> pc[t].arg + 1]
  IN /\ At(t, "report") /\ pc[t].arg < Len(s.reports) /\ UNCHANGED air
     /\ pc' = [pc EXCEPT ![t] = next]
     /\ \/ s.conn = "closed" /\ UNCHANGED side
        \/ /\ s.conn = "open" /\ Len(s.out) < Window
           /\ Put(t[1], [s EXCEPT !.out = Append(@, [type |-> "FEEDBACK", id |-> pc[t].arg])])

feedback(t) ==
  \/ At(t, "ready") /\ if_Active(t, "lock")
  \/ /\ At(t, "lock") /\ ~Waiting(t[1]) /\ With(t, "report", 0) /\ UNCHANGED air
     /\ Put(t[1], [Here(t) EXCEPT !.reading = TRUE])
  \/ send_quality_report(t)
  \/ /\ At(t, "report") /\ pc[t].arg = Len(Here(t).reports) /\ UNCHANGED air
     /\ Put(t[1], [Here(t) EXCEPT !.reading = FALSE]) /\ With(t, "tick", 0)
  \/ At(t, "tick") /\ if_Active(t, "lock")

(* close: the state is written twice, the connection closed in between.    *)
close(t) ==
  LET s == Here(t)
  IN /\ UNCHANGED air
     /\ \/ At(t, "ready") /\ Put(t[1], [s EXCEPT !.state = "Closing"]) /\ Goto(t, "hang_up")
        \/ At(t, "hang_up") /\ Put(t[1], [s EXCEPT !.conn = "closed"]) /\ Goto(t, "mark")
        \/ At(t, "mark") /\ Put(t[1], [s EXCEPT !.state = "Closed"]) /\ Goto(t, "ok")

(* quinn closes the connection of an endpoint whose peer closed it, or     *)
(* that hears nothing for too long.                                        *)
Lost(e) ==
  /\ side[e].conn = "open"
  /\ Put(e, [side[e] EXCEPT !.conn = "closed"]) /\ UNCHANGED <<pc, air>>

----------------------------------------------------------------------------
handshake(t) ==
  \/ handshake_start(t) \/ handshake_open(t) \/ handshake_read(t)
  \/ handshake_write(t) \/ handshake_finish(t)

step(t) ==
  \/ t[2] \in Handshakes /\ handshake(t)
  \/ t[2] = "announce" /\ announce(t)
  \/ t[2] = "subscribe" /\ subscribe(t)
  \/ t[2] = "update" /\ update(t)
  \/ t[2] \in {"audio", "video"} /\ send_datagram(t)
  \/ t[2] = "receive" /\ receive(t)
  \/ t[2] = "feedback" /\ feedback(t)
  \/ t[2] = "close" /\ close(t)

Next == (\E t \in Tasks : step(t)) \/ (\E e \in Ends : Lost(e))

(* The runtime goes on with calls that were begun and can proceed; nobody  *)
(* has to begin one.  This asks for less than tokio gives: one of the      *)
(* calls that end, and one of the loops that need not.                     *)
Going(ops) == \E t \in Tasks : t[2] \in ops /\ ~At(t, "ready") /\ step(t)
Loops == {"feedback"}
Calls == {t[2] : t \in Tasks} \ Loops

Fairness == WF_vars(Going(Calls)) /\ WF_vars(Going(Loops))

Spec == Init /\ [][Next]_vars /\ Fairness

----------------------------------------------------------------------------
Datagram == [to : Ends, alias : {"audio", "video"}, seq : Nat]
Report == [alias : {"audio", "video"}, last_seq : Nat, received : Nat]

Labels ==
  Over \cup {"ready", "open", "write", "read", "activate", "push", "id", "wait", "again", "lock",
            "report", "tick", "hang_up", "mark"}
Place == [at : Labels, arg : Nat] \cup [at : {"record"}, arg : Datagram]

Session ==
  [state : {"Idle", "SettingUp", "Active", "Closing", "Closed"}, conn : {"open", "closed"},
   control : BOOLEAN, out : Seq([type : MsgType, id : Nat]), announced : SUBSET Nat,
   subscriptions : SUBSET (Nat \X Nat), next_subscribe_id : Nat,
   reports : Seq(Report), reading : BOOLEAN]

TypeOK ==
  /\ side \in [Ends -> Session]
  /\ pc \in [Tasks -> Place]
  /\ air \subseteq Datagram

First(e, type) == side[e].out # << >> /\ side[e].out[1].type = type

(* setup returns Ok only to a client whose CLIENT_SETUP was the first      *)
(* thing the server read and whose first answer was SERVER_SETUP, whatever *)
(* else both sides write meanwhile.                                        *)
HandshakeHonest ==
  /\ side["client"].state = "Active"
       => First("client", "CLIENT_SETUP") /\ First("server", "SERVER_SETUP")
  /\ First("server", "SERVER_SETUP") => First("client", "CLIENT_SETUP")

(* What a session lists as announced or subscribed it has asked the peer   *)
(* for, and no two subscriptions carry one number.                         *)
ListedWasSent ==
  \A e \in Ends :
    LET sent(type) == {i \in DOMAIN side[e].out : side[e].out[i].type = type}
        ids(type) == {side[e].out[i].id : i \in sent(type)}
    IN /\ side[e].announced \subseteq ids("ANNOUNCE")
       /\ {s[1] : s \in side[e].subscriptions} \subseteq ids("SUBSCRIBE")
       /\ \A i, j \in sent("SUBSCRIBE") : side[e].out[i].id = side[e].out[j].id => i = j

(* Once the connection is closed every call that was begun returns: a      *)
(* write that waits for the window, a receiver that waits for a datagram   *)
(* or, behind such a write, for quality_reports.  Only the feedback loop   *)
(* goes on, in a session that is Active although its connection is gone:   *)
(* the loss of a connection does not change the state, and a handshake     *)
(* that ends after close makes the session Active again.                   *)
Returned(e) ==
  \A t \in Tasks :
    t[1] = e => \/ pc[t].at \in Over \cup {"ready"}
                \/ t[2] = "feedback" /\ side[e].state = "Active"

ClosedReturns == \A e \in Ends : side[e].conn = "closed" ~> Returned(e)
=============================================================================
