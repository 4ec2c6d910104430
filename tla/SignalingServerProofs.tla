----------------------- MODULE SignalingServerProofs -----------------------
(***************************************************************************)
(* Proofs about SignalingServer, for any sets of peers, sessions and calls *)
(* and any channel and cache capacities.                                   *)
(***************************************************************************)
EXTENDS SignalingServer, TLAPS

-----------------------------------------------------------------------------
(* Lemmas about the operators the actions are built from *)

\* The empty locals of a receive loop are well typed.
LEMMA IdleType == Idle \in TaskState
  BY DEF Idle, TaskState, Pcs, SendPcs, PeerStatus, ReasonClass

\* The locals that the handlers of an existing call start with are well typed.
LEMMA CallTaskType ==
    ASSUME TypeOK, NEW s \in Session, NEW c \in Call, NEW pc \in Pcs
    PROVE  /\ CallTask(s, c, pc) \in TaskState
           /\ CallTask(s, c, pc).pc = pc
           /\ CallTask(s, c, pc).call = c
  <1>1. calls[c] \in CallEntry
    BY DEF TypeOK
  <1>2. calls[c].caller \in Peer \cup {NoPeer} /\ calls[c].callee \in Peer \cup {NoPeer}
    BY <1>1 DEF CallEntry
  <1> QED
    BY ZenonT(60), <1>2, IdleType DEF CallTask, TaskState, Idle

\* Goto moves one receive loop, and keeps its locals unless it becomes idle.
LEMMA GotoFacts ==
    ASSUME TypeOK, NEW s \in Session, NEW pc \in Pcs, Goto(s, pc)
    PROVE  /\ task' \in [Session -> TaskState]
           /\ task'[s].pc = pc
           /\ \A r \in Session : r # s => task'[r] = task[r]
           /\ pc # "idle" => task'[s] = [task[s] EXCEPT !.pc = pc]
  <1>1. task \in [Session -> TaskState]
    BY DEF TypeOK
  <1>2. [task[s] EXCEPT !.pc = pc] \in TaskState /\ [task[s] EXCEPT !.pc = pc].pc = pc
    BY <1>1 DEF TaskState
  <1>3. Idle.pc = "idle"
    BY DEF Idle
  <1> QED
    BY <1>1, <1>2, <1>3, IdleType DEF Goto

\* Start gives one receive loop new locals and leaves the registries alone.
LEMMA StartFacts ==
    ASSUME TypeOK, NEW s \in Session, NEW t \in TaskState, Start(s, t)
    PROVE  /\ task' \in [Session -> TaskState]
           /\ task'[s] = t
           /\ \A r \in Session : r # s => task'[r] = task[r]
           /\ UNCHANGED <<peers, calls, lock, fwd, queued, disconnected, cleaned, upd>>
  BY DEF TypeOK, Start

\* The pc a handler goes to after a send is a pc.
LEMMA AfterSendType ==
    ASSUME NEW t \in TaskState
    PROVE  OnSent(t) \in Pcs /\ OnSendError(t) \in Pcs
  BY DEF OnSent, OnSendError, AfterCallFailed, send_relay_needed,
         handle_retryable_failure, Pcs, SendPcs

\* The operations on the peer registry keep it well typed, and need the lock.
LEMMA PeersType ==
    ASSUME TypeOK, NEW p, NEW status \in PeerStatus, NEW r \in Session \cup {NoSession},
           register_peer(p, status, r) \/ unregister_peer(p) \/ disconnect_peer(p)
    PROVE  peers' \in [Peer -> PeerEntry] /\ LockFree
  <1>1. peers \in [Peer -> PeerEntry]
    BY DEF TypeOK
  <1>2. NoEntry \in PeerEntry
    BY DEF NoEntry, PeerEntry, PeerStatus
  <1>3. [known |-> TRUE, status |-> status, sender |-> r] \in PeerEntry
    BY DEF PeerEntry
  <1>4. \A q \in Peer : peers[q].sender \in Session \cup {NoSession}
    BY <1>1 DEF PeerEntry
  <1>5. \A q \in Peer : /\ [known |-> TRUE, status |-> status, sender |-> peers[q].sender] \in PeerEntry
                        /\ [peers[q] EXCEPT !.sender = NoSession, !.status = "OFFLINE"] \in PeerEntry
    BY ZenonT(60), <1>1, <1>4 DEF PeerEntry, PeerStatus
  <1>6. CASE register_peer(p, status, r)
    BY <1>1, <1>2, <1>3, <1>5, <1>6 DEF register_peer, PutPeer
  <1>7. CASE unregister_peer(p)
    BY ZenonT(60), <1>1, <1>2, <1>7 DEF unregister_peer
  <1>8. CASE disconnect_peer(p)
    BY <1>1, <1>5, <1>8, Zenon DEF disconnect_peer
  <1> QED
    BY <1>6, <1>7, <1>8

\* Type correctness alone is not inductive: the second get_call of
\* ws_handle_call_accept copies the caller of the call that its first steps
\* found, so that call id must be one of Call.
AcceptHasCall ==
    \A s \in Session : task[s].pc \in {"accUpdate", "accFetch"} => task[s].call \in Call

\* A step inside a handler keeps the locals well typed.
LEMMA GotoType ==
    ASSUME TypeOK, AcceptHasCall, NEW s \in Session, NEW pc \in Pcs, Goto(s, pc),
           pc \in {"accUpdate", "accFetch"} => task[s].call \in Call
    PROVE  task' \in [Session -> TaskState] /\ AcceptHasCall'
  <1>1. /\ task' \in [Session -> TaskState]
        /\ task'[s].pc = pc
        /\ \A r \in Session : r # s => task'[r] = task[r]
        /\ pc # "idle" => task'[s] = [task[s] EXCEPT !.pc = pc]
    BY GotoFacts
  <1>2. pc # "idle" => task'[s].call = task[s].call
    <2>1. task[s] \in TaskState
      BY DEF TypeOK
    <2>2. [task[s] EXCEPT !.pc = pc].call = task[s].call
      BY <2>1 DEF TaskState
    <2> QED
      BY <1>1, <2>2, Zenon
  <1> QED
    BY <1>1, <1>2 DEF AcceptHasCall

\* A message that starts a handler keeps the types.
LEMMA StartType ==
    ASSUME TypeOK, AcceptHasCall, NEW s \in Session, NEW t \in TaskState, Start(s, t),
           t.pc \in {"accUpdate", "accFetch"} => t.call \in Call,
           holder' \in [Session -> Peer \cup {NoPeer}]
    PROVE  TypeOK' /\ AcceptHasCall'
  BY StartFacts DEF TypeOK, AcceptHasCall

\* The handlers of an existing call start with well-typed locals.
LEMMA OnCallType ==
    ASSUME TypeOK, AcceptHasCall, NEW s \in Session, NEW c \in Call, NEW who,
           NEW t \in TaskState, t.pc \in {"accUpdate", "accFetch"} => t.call \in Call,
           NEW refusal \in {"reply", "heldReply"}, OnCall(s, c, who, t, refusal)
    PROVE  TypeOK' /\ AcceptHasCall'
  <1> DEFINE u == [Idle EXCEPT !.pc = "reply"]
             v == [Idle EXCEPT !.pc = refusal]
  <1>1. u \in TaskState /\ u.pc = "reply" /\ v \in TaskState /\ v.pc = refusal
    BY IdleType DEF Idle, TaskState, Pcs
  <1>2. Start(s, t) \/ Start(s, u) \/ Start(s, v)
    BY DEF OnCall
  <1>3. holder' \in [Session -> Peer \cup {NoPeer}]
    BY DEF OnCall, TypeOK
  <1> HIDE DEF u, v
  <1>4. CASE Start(s, t)
    BY <1>3, <1>4, StartType
  <1>5. CASE Start(s, u)
    BY <1>1, <1>3, <1>5, StartType
  <1>6. CASE Start(s, v)
    BY <1>1, <1>3, <1>6, StartType
  <1> QED
    BY <1>2, <1>4, <1>5, <1>6

\* Upgrades, messages, closes and failing WebSocket sends keep the types.
LEMMA ClientStepType ==
    ASSUME TypeOK, AcceptHasCall, NEW s \in Session, ClientStep(s)
    PROVE  TypeOK' /\ AcceptHasCall'
  <1> USE NullAssumption, ConstantAssumption
  <1>1. CASE Upgrade(s)
    <2>1. task' \in [Session -> TaskState] /\ AcceptHasCall'
      BY <1>1, GotoType DEF Upgrade, Pcs
    <2> QED
      BY ZenonT(60), <1>1, <2>1 DEF Upgrade, TypeOK
  <1>2. CASE Break(s)
    <2>1. Goto(s, "disc") \/ Goto(s, "gone")
      BY <1>2 DEF Break
    <2>2. task' \in [Session -> TaskState] /\ AcceptHasCall'
      BY <2>1, GotoType DEF Pcs
    <2> QED
      BY ZenonT(60), <1>2, <2>2 DEF Break, TypeOK
  <1>3. CASE FwdFail(s)
    BY <1>3 DEF FwdFail, FwdStop, TypeOK, AcceptHasCall
  <1>4. CASE Refuse(s)
    <2>1. [Idle EXCEPT !.pc = "reply"] \in TaskState /\ [Idle EXCEPT !.pc = "reply"].pc = "reply"
      BY IdleType DEF Idle, TaskState, Pcs
    <2> QED
      BY ZenonT(60), <1>4, <2>1, StartType DEF Refuse, TypeOK
  <1>5. ASSUME NEW p \in Peer, NEW status \in RegStatus, PeerRegister(s, p, status)
        PROVE  TypeOK' /\ AcceptHasCall'
    <2> DEFINE t == [Idle EXCEPT !.pc = "regPut", !.peer = p, !.status = status]
    <2>1. t \in TaskState /\ t.pc = "regPut"
      BY ZenonT(60), IdleType DEF Idle, TaskState, Pcs
    <2>2. Start(s, t) /\ holder' \in [Session -> Peer \cup {NoPeer}]
      BY <1>5 DEF PeerRegister, TypeOK
    <2> QED
      BY <2>1, <2>2, StartType, Zenon
  <1>6. ASSUME NEW p \in Peer, PeerUnregister(s, p)
        PROVE  TypeOK' /\ AcceptHasCall'
    <2> DEFINE t == [Idle EXCEPT !.pc = "unregPop", !.peer = p]
    <2>1. t \in TaskState /\ t.pc = "unregPop"
      BY ZenonT(60), IdleType DEF Idle, TaskState, Pcs
    <2>2. Start(s, t) /\ holder' \in [Session -> Peer \cup {NoPeer}]
      BY <1>6 DEF PeerUnregister, TypeOK
    <2> QED
      BY ZenonT(60), <2>1, <2>2, StartType
  <1>7. ASSUME NEW c \in Call, NEW caller \in Peer, NEW callee \in Peer,
               CallRequest(s, c, caller, callee)
        PROVE  TypeOK' /\ AcceptHasCall'
    <2> DEFINE t == [Idle EXCEPT !.pc = "create", !.call = c,
                                 !.caller = caller, !.callee = callee]
               u == [Idle EXCEPT !.pc = "heldReply"]
    <2>1. t \in TaskState /\ t.pc = "create" /\ u \in TaskState /\ u.pc = "heldReply"
      BY ZenonT(60), IdleType DEF Idle, TaskState, Pcs
    <2>2. Start(s, t) \/ Start(s, u)
      BY <1>7 DEF CallRequest
    <2>3. holder' \in [Session -> Peer \cup {NoPeer}]
      BY <1>7 DEF CallRequest, TypeOK
    <2> HIDE DEF t, u
    <2> QED
      BY <2>1, <2>2, <2>3, StartType
  <1>8. ASSUME NEW c \in Call, CallAccept(s, c)
        PROVE  TypeOK' /\ AcceptHasCall'
    <2> DEFINE t == [Idle EXCEPT !.pc = "accUpdate", !.call = c]
    <2>1. t \in TaskState /\ t.call = c
      BY IdleType, Zenon DEF Idle, TaskState, Pcs
    <2>2. OnCall(s, c, {calls[c].callee}, t, "heldReply")
      BY <1>8 DEF CallAccept
    <2> HIDE DEF t
    <2> QED
      BY <2>1, <2>2, OnCallType
  <1>9. ASSUME NEW c \in Call, CallReject(s, c) \/ CallEnded(s, c)
        PROVE  TypeOK' /\ AcceptHasCall'
    <2>1. \A pc \in {"rejEnd", "endSend"} :
            CallTask(s, c, pc) \in TaskState /\ CallTask(s, c, pc).pc = pc
      BY CallTaskType DEF Pcs, SendPcs
    <2> QED
      BY <1>9, <2>1, OnCallType DEF CallReject, CallEnded
  <1>10. ASSUME NEW c \in Call, NEW why \in FailReasons, CallFailed(s, c, why)
         PROVE  TypeOK' /\ AcceptHasCall'
    <2> DEFINE t == [CallTask(s, c, "failSend") EXCEPT !.why = why]
    <2>1. CallTask(s, c, "failSend") \in TaskState /\ CallTask(s, c, "failSend").pc = "failSend"
      BY CallTaskType DEF Pcs, SendPcs
    <2>2. t \in TaskState /\ t.pc = "failSend"
      BY <2>1 DEF TaskState
    <2>3. OnCall(s, c, {calls[c].caller, calls[c].callee}, t, "reply")
      BY <1>10 DEF CallFailed
    <2> HIDE DEF t
    <2> QED
      BY <2>2, <2>3, OnCallType
  <1> QED
    BY <1>1, <1>2, <1>3, <1>4, <1>5, <1>6, <1>7, <1>8, <1>9, <1>10 DEF ClientStep

\* The steps that wait for the peers lock or for a channel keep the types.
LEMMA WaitStepType ==
    ASSUME TypeOK, AcceptHasCall, NEW s \in Session, WaitStep(s)
    PROVE  TypeOK' /\ AcceptHasCall'
  <1> USE NullAssumption, ConstantAssumption
  <1>0. task[s] \in TaskState /\ task[s].status \in PeerStatus
    BY DEF TypeOK, TaskState
  <1>1. CASE RegisterPut(s)
    <2>1. task' \in [Session -> TaskState] /\ AcceptHasCall'
      BY <1>1, GotoType DEF RegisterPut, Pcs
    <2>2. peers' \in [Peer -> PeerEntry]
      BY ZenonT(60), <1>0, <1>1, PeersType DEF RegisterPut
    <2> QED
      BY <1>1, <2>1, <2>2 DEF RegisterPut, TypeOK
  <1>2. CASE UnregisterPop(s)
    <2>1. task' \in [Session -> TaskState] /\ AcceptHasCall'
      BY <1>2, GotoType DEF UnregisterPop, Pcs
    <2>2. peers' \in [Peer -> PeerEntry]
      BY <1>0, <1>2, PeersType DEF UnregisterPop
    <2> QED
      BY <1>2, <2>1, <2>2 DEF UnregisterPop, TypeOK
  <1>3. CASE create_call(s)
    <2>1. Goto(s, "reqSend") \/ Goto(s, "reply")
      BY <1>3 DEF create_call
    <2>2. task' \in [Session -> TaskState] /\ AcceptHasCall'
      BY <2>1, GotoType DEF Pcs, SendPcs
    <2>3. calls' \in [Call -> CallEntry]
      <3> DEFINE e == [state |-> "RINGING", caller |-> task[s].caller,
                       callee |-> task[s].callee, offered |-> FALSE]
      <3>1. e \in CallEntry /\ NoCallEntry \in CallEntry
        BY <1>0 DEF TaskState, CallEntry, NoCallEntry
      <3>2. calls' = calls \/ PutCall(task[s].call, e)
        BY <1>3 DEF create_call
      <3> HIDE DEF e
      <3> QED
        BY <3>1, <3>2 DEF PutCall, TypeOK
    <2> QED
      BY <1>3, <2>2, <2>3 DEF create_call, TypeOK
  <1>4. CASE SendError(s)
    <2>1. OnSendError(task[s]) \in Pcs \ {"accUpdate", "accFetch"}
      BY DEF OnSendError, OnSent, AfterCallFailed, send_relay_needed,
         handle_retryable_failure, Pcs, SendPcs
    <2>2. task' \in [Session -> TaskState] /\ AcceptHasCall'
      BY <1>4, <2>1, GotoType DEF SendError
    <2> QED
      BY <1>4, <2>2 DEF SendError, TypeOK
  <1>5. CASE SendOk(s)
    <2>1. OnSent(task[s]) \in Pcs \ {"accUpdate", "accFetch"}
      BY DEF OnSent, AfterCallFailed, send_relay_needed,
         handle_retryable_failure, Pcs, SendPcs
    <2>2. task' \in [Session -> TaskState] /\ AcceptHasCall'
      BY <1>5, <2>1, GotoType DEF SendOk
    <2>3. calls' \in [Call -> CallEntry]
      <3>1. calls \in [Call -> CallEntry]
        BY DEF TypeOK
      <3>2. \A c \in Call : [calls[c] EXCEPT !.offered = TRUE] \in CallEntry
        BY ZenonT(60), <3>1 DEF CallEntry
      <3> QED
        BY <1>5, <3>1, <3>2 DEF SendOk
    <2>4. queued' \in [Session -> 0..Capacity]
      <3>1. PICK r \in Session : queued[r] < Capacity /\ queued' = [queued EXCEPT ![r] = @ + 1]
        BY ZenonT(60), <1>5 DEF SendOk, Reachable
      <3>2. queued \in [Session -> 0..Capacity]
        BY DEF TypeOK
      <3>3. queued[r] + 1 \in 0..Capacity
        BY <3>1, <3>2
      <3> QED
        BY <3>1, <3>2, <3>3
    <2> QED
      BY <1>5, <2>2, <2>3, <2>4 DEF SendOk, TypeOK
  <1>6. CASE SendBlock(s)
    BY <1>6 DEF SendBlock, TypeOK, AcceptHasCall
  <1>7. CASE RecvDisconnect(s)
    <2>1. task' \in [Session -> TaskState] /\ AcceptHasCall'
      BY ZenonT(60), <1>7, GotoType DEF RecvDisconnect, Pcs
    <2>2. peers' \in [Peer -> PeerEntry]
      BY ZenonT(60), <1>0, <1>7, PeersType DEF RecvDisconnect
    <2>3. cleaned' \in [Session -> Nat]
      BY <1>7 DEF RecvDisconnect, TypeOK
    <2>4. UNCHANGED <<calls, lock, fwd, queued, holder, disconnected, upd>>
      BY ZenonT(60), <1>7 DEF RecvDisconnect
    <2> QED
      BY SMTT(60), <2>1, <2>2, <2>3, <2>4 DEF TypeOK
  <1>8. CASE Reply(s)
    <2>1. Goto(s, "reqRemove") \/ Goto(s, "idle")
      BY Zenon, <1>8 DEF Reply
    <2>2. task' \in [Session -> TaskState] /\ AcceptHasCall'
      BY <2>1, GotoType DEF Pcs
    <2> QED
      BY <1>8, <2>2 DEF Reply, TypeOK
  <1> QED
    BY <1>1, <1>2, <1>3, <1>4, <1>5, <1>6, <1>7, <1>8 DEF WaitStep

\* The steps on the call registry and the holder keep the types.
LEMMA LocalStepType ==
    ASSUME TypeOK, AcceptHasCall, NEW s \in Session, LocalStep(s)
    PROVE  TypeOK' /\ AcceptHasCall'
  <1> USE NullAssumption, ConstantAssumption
  <1> DEFINE States == {"NONE", "RINGING", "ACCEPTED", "ENDED"}
  <1>0. /\ calls \in [Call -> CallEntry]
        /\ \A c \in Call : calls[c].state \in States
        /\ \A c \in Call, st \in States : [calls[c] EXCEPT !.state = st] \in CallEntry
    <2>1. calls \in [Call -> CallEntry]
      BY DEF TypeOK
    <2> QED
      BY <2>1 DEF CallEntry
  <1>1. CASE UnregisterHolder(s)
    <2>1. task' \in [Session -> TaskState] /\ AcceptHasCall'
      BY <1>1, GotoType DEF UnregisterHolder, Pcs
    <2> QED
      BY ZenonT(60), <1>1, <2>1 DEF UnregisterHolder, TypeOK
  <1>2. CASE AcceptUpdate(s)
    <2>1. Goto(s, "accFetch") \/ Goto(s, "reply")
      BY <1>2 DEF AcceptUpdate
    <2>2. task' \in [Session -> TaskState] /\ AcceptHasCall'
      BY <1>2, <2>1, GotoType DEF Pcs, AcceptUpdate, AcceptHasCall
    <2>3. calls' \in [Call -> CallEntry]
      <3>1. \/ calls' = calls
            \/ calls' = [calls EXCEPT ![task[s].call] = [calls[task[s].call] EXCEPT !.state = "ACCEPTED"]]
        BY <1>0, <1>2 DEF AcceptUpdate
      <3> DEFINE e == [calls[task[s].call] EXCEPT !.state = "ACCEPTED"]
      <3>2. calls' = calls \/ (calls' = [calls EXCEPT ![task[s].call] = e] /\ e \in CallEntry)
        BY <1>0, <1>2, <3>1, Zenon DEF AcceptUpdate, AcceptHasCall
      <3> HIDE DEF e
      <3> QED
        BY <1>0, <3>2
    <2> QED
      BY <1>2, <2>2, <2>3 DEF AcceptUpdate, TypeOK
  <1>3. CASE AcceptFetch(s)
    <2>1. CASE Goto(s, "reply")
      <3>1. task' \in [Session -> TaskState] /\ AcceptHasCall'
        BY <2>1, GotoType DEF Pcs
      <3> QED
        BY <1>3, <3>1 DEF AcceptFetch, TypeOK
    <2>2. CASE task' = [task EXCEPT ![s].pc = "accSend", ![s].caller = calls[task[s].call].caller]
      <3> DEFINE t == [task[s] EXCEPT !.pc = "accSend", !.caller = calls[task[s].call].caller]
      <3>1. task[s].call \in Call
        BY <1>3 DEF AcceptFetch, AcceptHasCall
      <3>2. calls[task[s].call].caller \in Peer \cup {NoPeer}
        BY <3>1 DEF TypeOK, CallEntry
      <3>3. t \in TaskState /\ t.pc = "accSend"
        <4>1. task[s] \in TaskState
          BY DEF TypeOK
        <4> QED
          BY ZenonT(60), <3>2, <4>1 DEF TaskState, Pcs, SendPcs
      <3>4. task' = [task EXCEPT ![s] = t]
        BY ZenonT(60), <2>2 DEF TypeOK
      <3> HIDE DEF t
      <3> QED
        BY <1>3, <3>3, <3>4 DEF AcceptFetch, TypeOK, AcceptHasCall
    <2> QED
      BY <1>3, <2>1, <2>2 DEF AcceptFetch
  <1>4. CASE end_call(s)
    <2>1. Goto(s, "rejSend") \/ Goto(s, "idle") \/ Goto(s, "remove")
      BY <1>4 DEF end_call
    <2>2. task' \in [Session -> TaskState] /\ AcceptHasCall'
      BY <2>1, GotoType DEF Pcs, SendPcs
    <2>3. calls' \in [Call -> CallEntry]
      BY ZenonT(60), <1>0, <1>4 DEF end_call, TypeOK
    <2> QED
      BY <1>4, <2>2, <2>3 DEF end_call, TypeOK
  <1>5. CASE remove_call(s)
    <2>1. task' \in [Session -> TaskState] /\ AcceptHasCall'
      BY <1>5, GotoType DEF remove_call, Pcs
    <2>2. NoCallEntry \in CallEntry
      BY DEF NoCallEntry, CallEntry
    <2> QED
      BY ZenonT(60), <1>5, <2>1, <2>2 DEF remove_call, TypeOK
  <1> QED
    BY <1>1, <1>2, <1>3, <1>4, <1>5 DEF LocalStep

\* The forward tasks keep the types; a channel never underflows.
LEMMA ForwardStepType ==
    ASSUME TypeOK, AcceptHasCall, NEW s \in Session, ForwardStep(s) \/ FwdDisconnect(s)
    PROVE  TypeOK' /\ AcceptHasCall'
  <1> USE NullAssumption, ConstantAssumption
  <1>1. CASE FwdTake(s)
    BY <1>1 DEF FwdTake, TypeOK, AcceptHasCall
  <1>2. CASE FwdSent(s)
    BY SMTT(60), <1>2 DEF FwdSent, TypeOK, AcceptHasCall
  <1>3. CASE FwdEnd(s)
    BY <1>3 DEF FwdEnd, FwdStop, TypeOK, AcceptHasCall
  <1>4. CASE FwdDisconnect(s)
    <2>1. peers' \in [Peer -> PeerEntry]
      BY <1>4, PeersType DEF FwdDisconnect, PeerStatus
    <2>2. /\ cleaned' \in [Session -> Nat]
          /\ fwd' \in [Session -> {"none", "run", "sending", "disc", "done"}]
          /\ queued' \in [Session -> 0..Capacity]
      BY SMTT(60), <1>4 DEF FwdDisconnect, TypeOK
    <2>3. UNCHANGED <<calls, lock, task, holder, disconnected, upd>>
      BY <1>4 DEF FwdDisconnect
    <2> QED
      BY SMTT(60), <2>1, <2>2, <2>3 DEF TypeOK, AcceptHasCall
  <1> QED
    BY <1>1, <1>2, <1>3, <1>4 DEF ForwardStep

\* The REST handlers keep the types.
LEMMA RestStepType ==
    ASSUME TypeOK, AcceptHasCall, NEW p \in Peer, RestStep(p)
    PROVE  TypeOK' /\ AcceptHasCall'
  <1> USE NullAssumption, ConstantAssumption
  <1>0. upd[p] # "none" => upd[p] \in PeerStatus
    BY DEF TypeOK
  <1>1. ASSUME NEW status \in RegStatus, RestRegister(p, status)
        PROVE  TypeOK' /\ AcceptHasCall'
    <2>1. peers' \in [Peer -> PeerEntry]
      BY <1>1, PeersType DEF RestRegister
    <2> QED
      BY <1>1, <2>1 DEF RestRegister, TypeOK, AcceptHasCall
  <1>2. CASE RestUnregister(p)
    <2>1. peers' \in [Peer -> PeerEntry]
      BY <1>2, PeersType DEF RestUnregister, PeerStatus
    <2> QED
      BY <1>2, <2>1 DEF RestUnregister, TypeOK, AcceptHasCall
  <1>3. CASE RestUpdateRead(p)
    <2>1. peers[p].status \in PeerStatus
      BY DEF TypeOK, PeerEntry
    <2> QED
      BY <1>3, <2>1 DEF RestUpdateRead, TypeOK, AcceptHasCall
  <1>4. CASE RestUpdateWrite(p)
    <2>1. peers' \in [Peer -> PeerEntry]
      BY <1>0, <1>4, PeersType DEF RestUpdateWrite
    <2> QED
      BY ZenonT(60), <1>4, <2>1 DEF RestUpdateWrite, TypeOK, AcceptHasCall
  <1> QED
    BY <1>1, <1>2, <1>3, <1>4 DEF RestStep

\* Every variable keeps its type: no channel holds more than Capacity messages,
\* every sender in the registry is a session, and every handler runs on ids the
\* server knows.
THEOREM TypeCorrect == Spec => [](TypeOK /\ AcceptHasCall)
  <1>1. Init => TypeOK /\ AcceptHasCall
    <2> SUFFICES ASSUME Init PROVE TypeOK /\ AcceptHasCall
      OBVIOUS
    <2> DEFINE fresh == [Idle EXCEPT !.pc = "new"]
    <2>1. fresh \in TaskState /\ fresh.pc = "new"
      BY DEF Idle, TaskState, Pcs, PeerStatus, ReasonClass
    <2>2. NoEntry \in PeerEntry /\ NoCallEntry \in CallEntry
      BY DEF NoEntry, PeerEntry, PeerStatus, NoCallEntry, CallEntry
    <2>3. task = [s \in Session |-> fresh]
      BY DEF Init
    <2> HIDE DEF fresh
    <2>4. task \in [Session -> TaskState] /\ AcceptHasCall
      BY <2>1, <2>3 DEF AcceptHasCall
    <2>5. peers \in [Peer -> PeerEntry] /\ calls \in [Call -> CallEntry]
      BY <2>2 DEF Init
    <2>6. queued \in [Session -> 0..Capacity]
      BY ConstantAssumption DEF Init
    <2> QED
      BY <2>4, <2>5, <2>6 DEF Init, TypeOK
  <1>2. TypeOK /\ AcceptHasCall /\ [Next]_vars => TypeOK' /\ AcceptHasCall'
    <2> SUFFICES ASSUME TypeOK, AcceptHasCall, [Next]_vars PROVE TypeOK' /\ AcceptHasCall'
      OBVIOUS
    <2>1. CASE UNCHANGED vars
      BY <2>1 DEF vars, TypeOK, AcceptHasCall
    <2>2. ASSUME NEW s \in Session,
                 ClientStep(s) \/ WaitStep(s) \/ LocalStep(s) \/ ForwardStep(s) \/ FwdDisconnect(s)
          PROVE  TypeOK' /\ AcceptHasCall'
      BY <2>2, ClientStepType, WaitStepType, LocalStepType, ForwardStepType
    <2>3. ASSUME NEW p \in Peer, RestStep(p)
          PROVE  TypeOK' /\ AcceptHasCall'
      BY <2>3, RestStepType
    <2> QED
      BY <2>1, <2>2, <2>3 DEF Next
  <1> QED
    BY <1>1, <1>2, PTL DEF Spec

-----------------------------------------------------------------------------
(* Control flow: which receive loop a step moves, and where to *)

\* A message handled by s moves the receive loop of s, and not to its clean-up.
LEMMA StartMoves ==
    ASSUME TypeOK, NEW s \in Session, NEW t \in TaskState, t.pc # "disc", Start(s, t)
    PROVE  (\A r \in Session : r # s => task'[r] = task[r]) /\ task'[s].pc # "disc"
  BY StartFacts

\* The same for the handlers of an existing call.
LEMMA OnCallMoves ==
    ASSUME TypeOK, NEW s \in Session, NEW c \in Call, NEW who,
           NEW t \in TaskState, t.pc # "disc",
           NEW refusal \in {"reply", "heldReply"}, OnCall(s, c, who, t, refusal)
    PROVE  (\A r \in Session : r # s => task'[r] = task[r]) /\ task'[s].pc # "disc"
  <1> DEFINE u == [Idle EXCEPT !.pc = "reply"]
             v == [Idle EXCEPT !.pc = refusal]
  <1>1. u \in TaskState /\ u.pc = "reply" /\ v \in TaskState /\ v.pc = refusal
    BY IdleType DEF Idle, TaskState, Pcs
  <1>2. Start(s, t) \/ Start(s, u) \/ Start(s, v)
    BY DEF OnCall
  <1> HIDE DEF u, v
  <1> QED
    BY <1>1, <1>2, StartMoves

\* A step of session s moves no other receive loop, and only the end of the
\* receive loop leads to its clean-up.
LEMMA TaskMoves ==
    ASSUME TypeOK, NEW s \in Session, ClientStep(s) \/ WaitStep(s) \/ LocalStep(s)
    PROVE  /\ \A r \in Session : r # s => task'[r] = task[r]
           /\ Break(s) \/ task' = task \/ task'[s].pc # "disc"
  <1> USE NullAssumption, ConstantAssumption
  <1> DEFINE Moves == /\ \A r \in Session : r # s => task'[r] = task[r]
                      /\ Break(s) \/ task' = task \/ task'[s].pc # "disc"
  <1>1. ASSUME NEW pc \in Pcs, Goto(s, pc), Break(s) \/ pc # "disc"
        PROVE  Moves
    BY ZenonT(60), <1>1, GotoFacts
  <1>2. CASE Upgrade(s) \/ Break(s)
    <2>1. Goto(s, "idle") \/ Goto(s, "gone") \/ (Break(s) /\ Goto(s, "disc"))
      BY <1>2 DEF Upgrade, Break
    <2>2. {"idle", "gone", "disc"} \subseteq Pcs
      BY DEF Pcs
    <2> QED
      BY <1>1, <2>1, <2>2
  <1>3. CASE FwdFail(s) \/ SendBlock(s)
    BY <1>3 DEF FwdFail, FwdStop, SendBlock
  <1>4. CASE Refuse(s)
    <2> DEFINE t == [Idle EXCEPT !.pc = "reply"]
    <2>1. t \in TaskState /\ t.pc = "reply"
      BY IdleType DEF Idle, TaskState, Pcs
    <2>2. Start(s, t)
      BY <1>4 DEF Refuse
    <2> HIDE DEF t
    <2> QED
      BY <2>1, <2>2, StartMoves
  <1>5. ASSUME NEW p \in Peer, NEW status \in RegStatus, PeerRegister(s, p, status)
        PROVE  Moves
    <2> DEFINE t == [Idle EXCEPT !.pc = "regPut", !.peer = p, !.status = status]
    <2>1. t \in TaskState /\ t.pc = "regPut"
      BY ZenonT(60), IdleType DEF Idle, TaskState, Pcs
    <2>2. Start(s, t)
      BY <1>5 DEF PeerRegister
    <2> HIDE DEF t
    <2> QED
      BY <2>1, <2>2, StartMoves
  <1>6. ASSUME NEW p \in Peer, PeerUnregister(s, p)
        PROVE  Moves
    <2> DEFINE t == [Idle EXCEPT !.pc = "unregPop", !.peer = p]
    <2>1. t \in TaskState /\ t.pc = "unregPop"
      BY ZenonT(60), IdleType DEF Idle, TaskState, Pcs
    <2>2. Start(s, t)
      BY <1>6 DEF PeerUnregister
    <2> HIDE DEF t
    <2> QED
      BY <2>1, <2>2, StartMoves
  <1>7. ASSUME NEW c \in Call, NEW caller \in Peer, NEW callee \in Peer,
               CallRequest(s, c, caller, callee)
        PROVE  Moves
    <2> DEFINE t == [Idle EXCEPT !.pc = "create", !.call = c,
                                 !.caller = caller, !.callee = callee]
               u == [Idle EXCEPT !.pc = "heldReply"]
    <2>1. t \in TaskState /\ t.pc = "create" /\ u \in TaskState /\ u.pc = "heldReply"
      BY ZenonT(60), IdleType DEF Idle, TaskState, Pcs
    <2>2. Start(s, t) \/ Start(s, u)
      BY <1>7 DEF CallRequest
    <2> HIDE DEF t, u
    <2> QED
      BY <2>1, <2>2, StartMoves
  <1>8. ASSUME NEW c \in Call, CallAccept(s, c)
        PROVE  Moves
    <2> DEFINE t == [Idle EXCEPT !.pc = "accUpdate", !.call = c]
    <2>1. t \in TaskState /\ t.pc = "accUpdate"
      BY ZenonT(60), IdleType DEF Idle, TaskState, Pcs
    <2>2. OnCall(s, c, {calls[c].callee}, t, "heldReply")
      BY <1>8 DEF CallAccept
    <2> HIDE DEF t
    <2> QED
      BY <2>1, <2>2, OnCallMoves
  <1>9. ASSUME NEW c \in Call, CallReject(s, c) \/ CallEnded(s, c)
        PROVE  Moves
    <2>1. \A pc \in {"rejEnd", "endSend"} :
            CallTask(s, c, pc) \in TaskState /\ CallTask(s, c, pc).pc = pc
      BY SMTT(60), CallTaskType DEF Pcs, SendPcs
    <2> QED
      BY <1>9, <2>1, OnCallMoves DEF CallReject, CallEnded
  <1>10. ASSUME NEW c \in Call, NEW why \in FailReasons, CallFailed(s, c, why)
         PROVE  Moves
    <2> DEFINE t == [CallTask(s, c, "failSend") EXCEPT !.why = why]
    <2>1. CallTask(s, c, "failSend") \in TaskState /\ CallTask(s, c, "failSend").pc = "failSend"
      BY CallTaskType DEF Pcs, SendPcs
    <2>2. t \in TaskState /\ t.pc = "failSend"
      BY <2>1 DEF TaskState
    <2>3. OnCall(s, c, {calls[c].caller, calls[c].callee}, t, "reply")
      BY <1>10 DEF CallFailed
    <2> HIDE DEF t
    <2> QED
      BY <2>2, <2>3, OnCallMoves
  <1>11. CASE \/ RegisterPut(s) \/ UnregisterPop(s) \/ UnregisterHolder(s) \/ create_call(s)
              \/ AcceptUpdate(s) \/ end_call(s) \/ remove_call(s) \/ Reply(s) \/ RecvDisconnect(s)
    <2>1. \E pc \in {"idle", "unregHold", "reqSend", "reply", "accFetch", "rejSend",
                      "remove", "reqRemove", "gone"} : Goto(s, pc)
      BY <1>11 DEF RegisterPut, UnregisterPop, UnregisterHolder, create_call, AcceptUpdate,
                   end_call, remove_call, Reply, RecvDisconnect
    <2>2. {"idle", "unregHold", "reqSend", "reply", "accFetch", "rejSend",
           "remove", "reqRemove", "gone"} \subseteq Pcs \ {"disc"}
      BY DEF Pcs, SendPcs
    <2> QED
      BY ZenonT(60), <1>1, <2>1, <2>2
  <1>12. CASE AcceptFetch(s)
    <2>1. CASE Goto(s, "reply")
      BY <1>1, <2>1 DEF Pcs
    <2>2. CASE task' = [task EXCEPT ![s].pc = "accSend", ![s].caller = calls[task[s].call].caller]
      <3>1. task \in [Session -> TaskState]
        BY DEF TypeOK
      <3>2. task'[s].pc = "accSend"
        BY <2>2, <3>1 DEF TaskState
      <3> QED
        BY <2>2, <3>1, <3>2
    <2> QED
      BY <1>12, <2>1, <2>2 DEF AcceptFetch
  <1>13. CASE SendOk(s) \/ SendError(s)
    <2>1. OnSent(task[s]) \in Pcs \ {"disc"} /\ OnSendError(task[s]) \in Pcs \ {"disc"}
      BY DEF OnSent, OnSendError, AfterCallFailed, send_relay_needed,
         handle_retryable_failure, Pcs, SendPcs
    <2>2. Goto(s, OnSent(task[s])) \/ Goto(s, OnSendError(task[s]))
      BY <1>13 DEF SendOk, SendError
    <2> QED
      BY <1>1, <2>1, <2>2
  <1> QED
    BY ZenonT(60), <1>2, <1>3, <1>4, <1>5, <1>6, <1>7, <1>8, <1>9, <1>10, <1>11, <1>12, <1>13
    DEF ClientStep, WaitStep, LocalStep

-----------------------------------------------------------------------------
(* One clean-up per session *)

\* The strengthening of DisconnectsOnce: a task in its clean-up has set the flag
\* and is alone there, and nothing was cleaned up before the flag was set.
Cleanup(s) ==
    /\ cleaned[s] <= 1
    /\ ~disconnected[s] => cleaned[s] = 0
    /\ task[s].pc = "disc" \/ fwd[s] = "disc" => disconnected[s] /\ cleaned[s] = 0
    /\ ~(task[s].pc = "disc" /\ fwd[s] = "disc")

OneCleanup == \A s \in Session : Cleanup(s)

\* A step that leaves the flag, the forward tasks and the count alone.
LEMMA OneCleanupQuiet ==
    ASSUME OneCleanup, UNCHANGED <<fwd, disconnected, cleaned>>,
           \A r \in Session : task'[r].pc = "disc" => task[r].pc = "disc"
    PROVE  OneCleanup'
  <1> SUFFICES ASSUME NEW r \in Session PROVE Cleanup(r)'
    BY Zenon DEF OneCleanup
  <1>1. Cleanup(r) /\ (task'[r].pc = "disc" => task[r].pc = "disc")
    BY Zenon DEF OneCleanup
  <1> QED
    BY <1>1 DEF Cleanup

\* The tasks of the other sessions are where they were.
OthersRest(s) ==
    \A r \in Session : r # s => /\ task'[r].pc = task[r].pc /\ fwd'[r] = fwd[r]
                               /\ disconnected'[r] = disconnected[r] /\ cleaned'[r] = cleaned[r]

\* A step of the tasks of session s.
LEMMA OneCleanupStep ==
    ASSUME OneCleanup, NEW s \in Session, OthersRest(s), Cleanup(s)'
    PROVE  OneCleanup'
  <1> SUFFICES ASSUME NEW r \in Session, r # s PROVE Cleanup(r)'
    BY Zenon DEF OneCleanup
  <1>1. /\ Cleanup(r)
        /\ task'[r].pc = task[r].pc /\ fwd'[r] = fwd[r]
        /\ disconnected'[r] = disconnected[r] /\ cleaned'[r] = cleaned[r]
    BY Zenon DEF OneCleanup, OthersRest
  <1> QED
    BY <1>1 DEF Cleanup

\* However the receive loop and the forward task of a session end, at most one
\* of them runs disconnect_peer, and only once.
THEOREM CleanupOnce == Spec => []DisconnectsOnce
  <1> USE NullAssumption, ConstantAssumption
  <1>1. Init => OneCleanup
    <2> DEFINE fresh == [Idle EXCEPT !.pc = "new"]
    <2>1. fresh.pc = "new"
      BY DEF Idle
    <2> SUFFICES ASSUME Init PROVE OneCleanup
      OBVIOUS
    <2>2. task = [s \in Session |-> fresh]
      BY DEF Init
    <2> HIDE DEF fresh
    <2> QED
      BY <2>1, <2>2 DEF Init, OneCleanup, Cleanup
  <1>2. TypeOK /\ OneCleanup /\ [Next]_vars => OneCleanup'
    <2> SUFFICES ASSUME TypeOK, OneCleanup, [Next]_vars PROVE OneCleanup'
      OBVIOUS
    <2>0. /\ fwd \in [Session -> {"none", "run", "sending", "disc", "done"}]
          /\ disconnected \in [Session -> BOOLEAN]
          /\ cleaned \in [Session -> Nat]
      BY DEF TypeOK
    <2> HIDE NullAssumption, ConstantAssumption
    <2>1. CASE UNCHANGED vars
      BY SMTT(60), <2>1, OneCleanupQuiet DEF vars
    <2>2. ASSUME NEW p \in Peer, RestStep(p) PROVE OneCleanup'
      BY <2>2, OneCleanupQuiet
      DEF RestStep, RestRegister, RestUnregister, RestUpdateRead, RestUpdateWrite
    <2>3. ASSUME NEW s \in Session, ClientStep(s) \/ WaitStep(s) \/ LocalStep(s)
          PROVE  OneCleanup'
      <3>1. /\ \A r \in Session : r # s => task'[r] = task[r]
            /\ Break(s) \/ task' = task \/ task'[s].pc # "disc"
        BY <2>3, TaskMoves
      <3>2. CASE UNCHANGED <<fwd, disconnected, cleaned>> /\ ~Break(s)
        BY SMTT(60), <3>1, <3>2, OneCleanupQuiet
      <3>0. Cleanup(s)
        BY Zenon DEF OneCleanup
      <3>3. CASE Upgrade(s)
        <4>1. task'[s].pc = "idle"
          BY ZenonT(60), <3>3, GotoFacts DEF Upgrade, Pcs
        <4>2. fwd' = [fwd EXCEPT ![s] = "run"] /\ UNCHANGED <<disconnected, cleaned>>
          BY ZenonT(60), <3>3 DEF Upgrade
        <4>3. OthersRest(s) /\ Cleanup(s)'
          BY <2>0, <3>0, <3>1, <4>1, <4>2 DEF OthersRest, Cleanup
        <4> QED
          BY <4>3, OneCleanupStep
      <3>4. CASE Break(s)
        <4>1. /\ disconnected' = [disconnected EXCEPT ![s] = TRUE]
              /\ UNCHANGED <<fwd, cleaned>>
              /\ Goto(s, "gone") \/ (~disconnected[s] /\ Goto(s, "disc"))
          BY <3>4 DEF Break
        <4>2. task'[s].pc = "gone" \/ ~disconnected[s]
          BY ZenonT(60), <4>1, GotoFacts DEF Pcs
        <4>3. OthersRest(s) /\ Cleanup(s)'
          BY <2>0, <3>0, <3>1, <4>1, <4>2 DEF OthersRest, Cleanup
        <4> QED
          BY <4>3, OneCleanupStep
      <3>5. CASE RecvDisconnect(s)
        <4>1. task'[s].pc = "gone"
          BY ZenonT(60), <3>5, GotoFacts DEF RecvDisconnect, Pcs
        <4>2. /\ task[s].pc = "disc"
              /\ cleaned' = [cleaned EXCEPT ![s] = @ + 1]
              /\ UNCHANGED <<fwd, disconnected>>
          BY ZenonT(60), <3>5 DEF RecvDisconnect
        <4>3. OthersRest(s)
          BY <2>0, <3>1, <4>2 DEF OthersRest
        <4>4. disconnected[s] /\ cleaned[s] = 0 /\ fwd[s] # "disc"
          BY Zenon, <3>0, <4>2 DEF Cleanup
        <4>5. cleaned'[s] = 1
          BY <2>0, <4>2, <4>4
        <4>6. Cleanup(s)'
          BY <4>1, <4>2, <4>4, <4>5 DEF Cleanup
        <4> QED
          BY <4>3, <4>6, OneCleanupStep
      <3>6. CASE FwdFail(s)
        <4>1. OthersRest(s) /\ Cleanup(s)'
          BY <2>0, <3>0, <3>6 DEF FwdFail, FwdStop, OthersRest, Cleanup
        <4> QED
          BY <4>1, OneCleanupStep
      <3> QED
        BY ZenonT(60), <2>3, <3>2, <3>3, <3>4, <3>5, <3>6
        DEF ClientStep, WaitStep, LocalStep, Refuse, PeerRegister, PeerUnregister, CallRequest,
            CallAccept, CallReject, CallFailed, CallEnded, OnCall, Start, RegisterPut,
            UnregisterPop, UnregisterHolder, create_call, AcceptUpdate, AcceptFetch, end_call,
            remove_call, Reply, SendError, SendOk, SendBlock
    <2>4. ASSUME NEW s \in Session, ForwardStep(s) \/ FwdDisconnect(s)
          PROVE  OneCleanup'
      <3>0. Cleanup(s)
        BY Zenon DEF OneCleanup
      <3>1. CASE FwdTake(s) \/ FwdSent(s)
        BY <2>0, <3>0, <3>1, OneCleanupStep DEF FwdTake, FwdSent, OthersRest, Cleanup
      <3>2. CASE FwdEnd(s)
        BY <2>0, <3>0, <3>2, OneCleanupStep, Zenon DEF FwdEnd, FwdStop, OthersRest, Cleanup
      <3>3. CASE FwdDisconnect(s)
        <4>1. /\ fwd[s] = "disc" /\ fwd' = [fwd EXCEPT ![s] = "done"]
              /\ cleaned' = [cleaned EXCEPT ![s] = @ + 1]
              /\ UNCHANGED <<task, disconnected>>
          BY Zenon, <3>3 DEF FwdDisconnect
        <4>2. OthersRest(s)
          BY <2>0, <4>1 DEF OthersRest
        <4>3. disconnected[s] /\ cleaned[s] = 0 /\ task[s].pc # "disc"
          BY Zenon, <3>0, <4>1 DEF Cleanup
        <4>4. cleaned'[s] = 1 /\ fwd'[s] = "done"
          BY <2>0, <4>1, <4>3
        <4>5. Cleanup(s)'
          BY <4>1, <4>3, <4>4 DEF Cleanup
        <4> QED
          BY <4>2, <4>5, OneCleanupStep
      <3> QED
        BY Zenon, <2>4, <3>1, <3>2, <3>3 DEF ForwardStep
    <2> QED
      BY <2>1, <2>2, <2>3, <2>4 DEF Next
  <1>3. OneCleanup => DisconnectsOnce
    BY Zenon DEF OneCleanup, Cleanup, DisconnectsOnce
  <1> QED
    BY <1>1, <1>2, <1>3, TypeCorrect, PTL DEF Spec

-----------------------------------------------------------------------------
(* A blocked send keeps its target *)

\* A step that leaves the lock and the registry alone and moves only receive
\* loops that do not wait inside send_to_peer.
LEMMA BlockedSendQuiet ==
    ASSUME BlockedSendHasTarget, UNCHANGED <<peers, lock>>,
           \A r \in Session : lock = r => task'[r] = task[r]
    PROVE  BlockedSendHasTarget'
  <1> SUFFICES ASSUME NEW r \in Session, lock = r
               PROVE  /\ task[r].pc \in SendPcs
                      /\ peers[Target(task[r])].known
                      /\ peers[Target(task[r])].sender # NoSession
    BY Zenon DEF BlockedSendHasTarget
  <1> QED
    BY Zenon DEF BlockedSendHasTarget

\* The peer registry does not change while a send_to_peer waits for room in a
\* channel, so its target stays registered and connected until it returns.
THEOREM BlockedSendKeepsTarget == Spec => []BlockedSendHasTarget
  <1> USE NullAssumption, ConstantAssumption
  <1>1. Init => BlockedSendHasTarget
    BY DEF Init, BlockedSendHasTarget
  <1>2. TypeOK /\ BlockedSendHasTarget /\ [Next]_vars => BlockedSendHasTarget'
    <2> SUFFICES ASSUME TypeOK, BlockedSendHasTarget, [Next]_vars PROVE BlockedSendHasTarget'
      OBVIOUS
    <2>0. ASSUME lock' = NoSession PROVE BlockedSendHasTarget'
      BY <2>0 DEF BlockedSendHasTarget
    <2>1. CASE UNCHANGED vars
      BY <2>1, BlockedSendQuiet DEF vars
    <2>2. ASSUME NEW p \in Peer, RestStep(p) PROVE BlockedSendHasTarget'
      <3>1. (lock = NoSession /\ lock' = lock) \/ UNCHANGED <<peers, lock, task>>
        BY ZenonT(60), <2>2 DEF RestStep, RestRegister, RestUnregister, RestUpdateRead, RestUpdateWrite,
                    register_peer, unregister_peer, LockFree
      <3> QED
        BY SMTT(60), <2>0, <3>1, BlockedSendQuiet
    <2>3. ASSUME NEW s \in Session, ForwardStep(s) \/ FwdDisconnect(s)
          PROVE  BlockedSendHasTarget'
      <3>1. (lock = NoSession /\ lock' = lock) \/ UNCHANGED <<peers, lock, task>>
        BY <2>3 DEF ForwardStep, FwdTake, FwdSent, FwdEnd, FwdStop, FwdDisconnect,
                    disconnect_peer, LockFree
      <3> QED
        BY SMTT(60), <2>0, <3>1, BlockedSendQuiet
    <2>4. ASSUME NEW s \in Session, ClientStep(s) \/ WaitStep(s) \/ LocalStep(s)
          PROVE  BlockedSendHasTarget'
      <3>1. \A r \in Session : r # s => task'[r] = task[r]
        BY <2>4, TaskMoves
      <3>2. CASE lock' = NoSession
        BY SMTT(60), <2>0, <3>2
      <3>3. CASE SendBlock(s)
        <4>1. /\ lock' = s
              /\ UNCHANGED <<task, peers>>
              /\ task[s].pc \in SendPcs
              /\ peers[Target(task[s])].known
              /\ peers[Target(task[s])].sender \in Session
          BY <3>3 DEF SendBlock, Reachable
        <4> QED
          BY ZenonT(60), <4>1 DEF BlockedSendHasTarget, Target
      <3>4. CASE UNCHANGED <<peers, lock>> /\ task[s].pc \notin SendPcs
        <4>1. lock # s
          BY <3>4 DEF BlockedSendHasTarget
        <4> QED
          BY <3>1, <3>4, <4>1, BlockedSendQuiet
      <3>5. CASE FwdFail(s)
        BY <3>5, BlockedSendQuiet DEF FwdFail, FwdStop
      <3> QED
        <4>1. CASE ClientStep(s)
          BY ZenonT(60), <3>4, <3>5, <4>1
          DEF ClientStep, Upgrade, Break, Refuse, PeerRegister, PeerUnregister, CallRequest,
              CallAccept, CallReject, CallFailed, CallEnded, OnCall, Start, Ready, SendPcs
        <4>2. CASE WaitStep(s)
          BY ZenonT(60), <3>2, <3>3, <3>4, <4>2
          DEF WaitStep, RegisterPut, UnregisterPop, create_call, SendError, SendOk,
              RecvDisconnect, Reply, register_peer, unregister_peer, disconnect_peer,
              LockFree, SendPcs
        <4>3. CASE LocalStep(s)
          BY ZenonT(60), <3>4, <4>3
          DEF LocalStep, UnregisterHolder, AcceptUpdate, AcceptFetch, end_call, remove_call,
              SendPcs
        <4> QED
          BY <2>4, <4>1, <4>2, <4>3
    <2> QED
      BY <2>1, <2>2, <2>3, <2>4 DEF Next
  <1> QED
    BY <1>1, <1>2, TypeCorrect, PTL DEF Spec

-----------------------------------------------------------------------------
(* The participants of a call *)

\* A registered call keeps its caller and its callee until its entry is removed
\* or evicted, whatever requests reuse its id.
THEOREM ParticipantsNeverChange == Spec => ParticipantsFixed
  <1> USE NullAssumption, ConstantAssumption
  <1> DEFINE Fixed == \A c \in Call :
                        calls[c].state # "NONE" /\ calls'[c].state # "NONE" =>
                          /\ calls'[c].caller = calls[c].caller
                          /\ calls'[c].callee = calls[c].callee
  <1>1. TypeOK /\ [Next]_vars => Fixed
    <2> SUFFICES ASSUME TypeOK, [Next]_vars PROVE Fixed
      OBVIOUS
    <2>0. calls \in [Call -> CallEntry]
      BY DEF TypeOK
    <2>1. CASE UNCHANGED calls
      BY <2>1
    <2>2. ASSUME NEW s \in Session, create_call(s) PROVE Fixed
      <3> DEFINE e == [state |-> "RINGING", caller |-> task[s].caller,
                       callee |-> task[s].callee, offered |-> FALSE]
      <3>1. \/ calls' = calls
            \/ calls[task[s].call].state = "NONE" /\ PutCall(task[s].call, e)
        BY ZenonT(60), <2>2 DEF create_call
      <3>2. NoCallEntry.state = "NONE"
        BY SMTT(60) DEF NoCallEntry
      <3> HIDE DEF e
      <3> QED
        BY ZenonT(60), <2>0, <3>1, <3>2 DEF PutCall
    <2>3. ASSUME NEW s \in Session, AcceptUpdate(s) \/ end_call(s) \/ SendOk(s) PROVE Fixed
      <3> DEFINE c == task[s].call
      <3>1. CASE AcceptUpdate(s)
        <4>1. calls' = calls \/ calls' = [calls EXCEPT ![c].state = "ACCEPTED"]
          BY <3>1 DEF AcceptUpdate
        <4> HIDE DEF c
        <4> QED
          BY <2>0, <4>1 DEF CallEntry
      <3>2. CASE end_call(s)
        <4>1. calls' = [calls EXCEPT ![c].state = IF @ = "NONE" THEN @ ELSE "ENDED"]
          BY <3>2 DEF end_call
        <4> HIDE DEF c
        <4> QED
          BY <2>0, <4>1 DEF CallEntry
      <3>3. CASE SendOk(s)
        <4>1. calls' = calls \/ calls' = [calls EXCEPT ![c].offered = TRUE]
          BY SMTT(60), <3>3 DEF SendOk
        <4> HIDE DEF c
        <4> QED
          BY <2>0, <4>1 DEF CallEntry
      <3> QED
        BY <2>3, <3>1, <3>2, <3>3
    <2>4. ASSUME NEW s \in Session, remove_call(s) PROVE Fixed
      <3>1. NoCallEntry.state = "NONE"
        BY DEF NoCallEntry
      <3> QED
        BY <2>0, <2>4, <3>1 DEF remove_call
    <2> HIDE DEF Fixed
    <2>5. ASSUME NEW s \in Session, ClientStep(s) PROVE Fixed
      <3>1. UNCHANGED calls
        BY ZenonT(60), <2>5 DEF ClientStep, Upgrade, Break, FwdFail, FwdStop, Refuse, PeerRegister,
                    PeerUnregister, CallRequest, CallAccept, CallReject, CallFailed,
                    CallEnded, OnCall, Start
      <3> QED
        BY <2>1, <3>1
    <2>6. ASSUME NEW s \in Session, WaitStep(s) \/ LocalStep(s) PROVE Fixed
      BY <2>1, <2>2, <2>3, <2>4, <2>6
      DEF WaitStep, LocalStep, RegisterPut, UnregisterPop, UnregisterHolder, AcceptFetch,
          Reply, SendError, SendBlock, RecvDisconnect
    <2>7. ASSUME NEW s \in Session, ForwardStep(s) \/ FwdDisconnect(s) PROVE Fixed
      BY ZenonT(60), <2>1, <2>7 DEF ForwardStep, FwdTake, FwdSent, FwdEnd, FwdStop, FwdDisconnect
    <2>8. ASSUME NEW p \in Peer, RestStep(p) PROVE Fixed
      BY <2>1, <2>8 DEF RestStep, RestRegister, RestUnregister, RestUpdateRead, RestUpdateWrite
    <2>9. CASE UNCHANGED vars
      BY <2>1, <2>9 DEF vars
    <2> QED
      BY <2>5, <2>6, <2>7, <2>8, <2>9 DEF Next
  <1> QED
    BY <1>1, TypeCorrect, PTL DEF Spec, ParticipantsFixed

-----------------------------------------------------------------------------
(* No call is left ringing without its callee being told *)

\* Where ws_handle_call_request is between create_call and its last step.
ReqPcs == {"reqSend", "reqReply", "reqRemove"}

\* The strengthening of RingsOrPending: the pending request is for the callee of
\* the entry, so that a request left over from an earlier use of the call id
\* does not count, and its send does not mark the new entry as offered.
RingInv ==
    \A c \in Call :
        calls[c].state # "NONE" =>
            \/ calls[c].offered
            \/ \E s \in Session : /\ task[s].pc \in ReqPcs
                                  /\ task[s].call = c
                                  /\ task[s].callee = calls[c].callee

\* A step that moves only the receive loop of s, which is not inside a request,
\* and at most removes entries or changes their state.
LEMMA RingQuiet ==
    ASSUME RingInv, NEW s,
           \A r \in Session : r # s \/ task[r].pc \in ReqPcs => task'[r] = task[r],
           \A c \in Call : \/ calls'[c].state = "NONE"
                            \/ /\ calls[c].state # "NONE"
                               /\ calls'[c].callee = calls[c].callee
                               /\ calls'[c].offered = calls[c].offered
    PROVE  RingInv'
  <1> SUFFICES ASSUME NEW c \in Call, calls'[c].state # "NONE", ~calls'[c].offered
               PROVE  \E r \in Session : /\ task'[r].pc \in ReqPcs
                                         /\ task'[r].call = c
                                         /\ task'[r].callee = calls'[c].callee
    BY Zenon DEF RingInv
  <1>1. PICK r \in Session : /\ task[r].pc \in ReqPcs
                             /\ task[r].call = c
                             /\ task[r].callee = calls[c].callee
    BY Zenon DEF RingInv
  <1> QED
    BY Zenon, <1>1

\* Every entry is gone, offered, a request of the receive loop of s, or as it was
\* and not one that s answered for.
RingKept(s) ==
    \A c \in Call :
       \/ calls'[c].state = "NONE" \/ calls'[c].offered
       \/ /\ task'[s].pc \in ReqPcs /\ task'[s].call = c
          /\ task'[s].callee = calls'[c].callee
       \/ /\ calls'[c] = calls[c]
          /\ ~ (task[s].pc \in ReqPcs /\ task[s].call = c /\ task[s].callee = calls[c].callee)

\* A step of the receive loop of s that leaves the entries so keeps RingInv.
LEMMA RingCases ==
    ASSUME RingInv, NEW s \in Session, RingKept(s),
           \A r \in Session : r # s => task'[r] = task[r]
    PROVE  RingInv'
  <1> SUFFICES ASSUME NEW c \in Call, calls'[c].state # "NONE", ~calls'[c].offered
               PROVE  \E r \in Session : /\ task'[r].pc \in ReqPcs
                                         /\ task'[r].call = c
                                         /\ task'[r].callee = calls'[c].callee
    BY DEF RingInv
  <1>1. CASE task'[s].pc \in ReqPcs /\ task'[s].call = c /\ task'[s].callee = calls'[c].callee
    BY <1>1
  <1>2. CASE /\ calls'[c] = calls[c]
             /\ ~ (task[s].pc \in ReqPcs /\ task[s].call = c /\ task[s].callee = calls[c].callee)
    <2>1. PICK r \in Session : /\ task[r].pc \in ReqPcs
                               /\ task[r].call = c
                               /\ task[r].callee = calls[c].callee
      BY <1>2 DEF RingInv
    <2>2. task'[r] = task[r]
      BY <1>2, <2>1
    <2> QED
      BY <1>2, <2>1, <2>2
  <1> QED
    BY <1>1, <1>2 DEF RingKept

\* A request that moves on inside ReqPcs keeps its call and its callee.
LEMMA RingMove ==
    ASSUME TypeOK, RingInv, NEW s \in Session, NEW pc \in ReqPcs, Goto(s, pc), UNCHANGED calls
    PROVE  RingInv'
  <1>1. pc \in Pcs /\ pc # "idle"
    BY DEF ReqPcs, Pcs, SendPcs
  <1>2. /\ task'[s].pc = pc
        /\ \A r \in Session : r # s => task'[r] = task[r]
        /\ task'[s] = [task[s] EXCEPT !.pc = pc]
    BY <1>1, GotoFacts
  <1>3. task[s] \in TaskState
    BY DEF TypeOK
  <1>4. task'[s].call = task[s].call /\ task'[s].callee = task[s].callee
    BY <1>2, <1>3 DEF TaskState
  <1>5. \A r \in Session : /\ task[r].pc \in ReqPcs => task'[r].pc \in ReqPcs
                           /\ task'[r].call = task[r].call
                           /\ task'[r].callee = task[r].callee
    BY ZenonT(60), <1>2, <1>4
  <1> SUFFICES ASSUME NEW c \in Call, calls[c].state # "NONE", ~calls[c].offered
               PROVE  \E r \in Session : /\ task'[r].pc \in ReqPcs
                                         /\ task'[r].call = c
                                         /\ task'[r].callee = calls[c].callee
    BY Zenon DEF RingInv
  <1>6. PICK r \in Session : /\ task[r].pc \in ReqPcs
                             /\ task[r].call = c
                             /\ task[r].callee = calls[c].callee
    BY Zenon DEF RingInv
  <1> QED
    BY Zenon, <1>5, <1>6

\* The steps of a handler after its dispatch preserve RingInv.
LEMMA RingWaitStep ==
    ASSUME TypeOK, RingInv, NEW s \in Session, WaitStep(s) \/ LocalStep(s)
    PROVE  RingInv'
  <1> USE NullAssumption, ConstantAssumption
  <1>0. calls \in [Call -> CallEntry] /\ task[s] \in TaskState
    BY SMTT(60) DEF TypeOK
  <1>1. \A r \in Session : r # s => task'[r] = task[r]
    BY ZenonT(60), TaskMoves
  <1>2. CASE UNCHANGED calls /\ (task[s].pc \notin ReqPcs \/ task' = task)
    <2>1. \A c \in Call : \/ calls'[c].state = "NONE"
                           \/ /\ calls[c].state # "NONE"
                              /\ calls'[c].callee = calls[c].callee
                              /\ calls'[c].offered = calls[c].offered
      BY SMTT(60), <1>2
    <2> QED
      BY <1>1, <1>2, <2>1, RingQuiet
  <1>3. CASE create_call(s)
    <2> DEFINE d == task[s].call
               e == [state |-> "RINGING", caller |-> task[s].caller,
                     callee |-> task[s].callee, offered |-> FALSE]
    <2>1. CASE UNCHANGED calls
      BY ZenonT(60), <1>2, <1>3, <2>1 DEF create_call, ReqPcs
    <2>2. CASE PutCall(d, e) /\ Goto(s, "reqSend")
      <3>1. task'[s] = [task[s] EXCEPT !.pc = "reqSend"]
        BY ZenonT(60), <2>2, GotoFacts DEF Pcs, SendPcs
      <3>2. task'[s].pc = "reqSend" /\ task'[s].call = d /\ task'[s].callee = task[s].callee
        BY <1>0, <3>1 DEF TaskState
      <3>3. e.callee = task[s].callee /\ NoCallEntry.state = "NONE"
        BY SMTT(60) DEF NoCallEntry
      <3>4. \A c \in Call : c # d => calls'[c] = calls[c] \/ calls'[c] = NoCallEntry
        BY ZenonT(60), <1>0, <2>2 DEF PutCall
      <3>5. d \in Call => calls'[d] = e
        BY ZenonT(60), <1>0, <2>2 DEF PutCall
      <3>6. task[s].pc \notin ReqPcs
        BY <1>3 DEF create_call, ReqPcs
      <3> HIDE DEF d, e
      <3> QED
        <4>1. \A c \in Call :
                 \/ calls'[c].state = "NONE"
                 \/ /\ task'[s].pc \in ReqPcs /\ task'[s].call = c
                    /\ task'[s].callee = calls'[c].callee
                 \/ calls'[c] = calls[c]
          BY <3>2, <3>3, <3>4, <3>5 DEF ReqPcs
        <4> QED
          BY <1>1, <3>6, <4>1, RingCases DEF RingKept
    <2> QED
      BY ZenonT(60), <1>3, <2>1, <2>2 DEF create_call
  <1>4. CASE SendError(s)
    <2>1. CASE task[s].pc = "reqSend"
      BY <1>4, <2>1, RingMove DEF SendError, OnSendError, ReqPcs
    <2>2. CASE task[s].pc # "reqSend"
      BY ZenonT(60), <1>2, <1>4, <2>2 DEF SendError, Sending, SendPcs, ReqPcs
    <2> QED
      BY <2>1, <2>2
  <1>5. CASE SendOk(s)
    <2> DEFINE d == task[s].call
    <2>1. CASE UNCHANGED calls /\ task[s].pc # "reqSend"
      BY SMTT(60), <1>2, <1>5, <2>1 DEF SendOk, Sending, SendPcs, ReqPcs
    <2>2. CASE UNCHANGED calls /\ calls[d].callee # task[s].callee
      <3>1. RingKept(s)
        BY <2>2 DEF RingKept
      <3> QED
        BY <1>1, <3>1, RingCases
    <2>3. CASE calls' = [calls EXCEPT ![d].offered = TRUE]
      <3>1. \A c \in Call : c # d => calls'[c] = calls[c]
        BY <1>0, <2>3
      <3>2. d \in Call => calls'[d].offered
        BY <1>0, <2>3 DEF CallEntry
      <3>3. RingKept(s)
        BY <3>1, <3>2 DEF RingKept
      <3> QED
        BY <1>1, <3>3, RingCases
    <2> QED
      BY <1>5, <2>1, <2>2, <2>3 DEF SendOk
  <1>6. CASE Reply(s)
    <2>1. CASE task[s].pc = "reqReply"
      BY ZenonT(60), <1>6, <2>1, RingMove DEF Reply, ReqPcs
    <2>2. CASE task[s].pc # "reqReply"
      BY ZenonT(60), <1>2, <1>6, <2>2 DEF Reply, ReqPcs
    <2> QED
      BY SMTT(60), <2>1, <2>2
  <1>7. CASE AcceptUpdate(s) \/ end_call(s)
    <2>1. task[s].pc \notin ReqPcs
      BY <1>7 DEF AcceptUpdate, end_call, ReqPcs
    <2>2. \A c \in Call : \/ calls'[c].state = "NONE"
                           \/ /\ calls[c].state # "NONE"
                              /\ calls'[c].callee = calls[c].callee
                              /\ calls'[c].offered = calls[c].offered
      <3> DEFINE d == task[s].call
      <3>1. \/ calls' = calls
            \/ calls[d].state # "NONE" /\ calls' = [calls EXCEPT ![d].state = "ACCEPTED"]
            \/ calls' = [calls EXCEPT ![d].state = IF @ = "NONE" THEN @ ELSE "ENDED"]
        BY Zenon, <1>7 DEF AcceptUpdate, end_call
      <3> HIDE DEF d
      <3>2. \A c \in Call : c # d => calls'[c] = calls[c]
        BY <1>0, <3>1
      <3>3. d \in Call => /\ calls'[d].callee = calls[d].callee
                          /\ calls'[d].offered = calls[d].offered
                          /\ calls[d].state = "NONE" => calls'[d].state = "NONE"
        BY <1>0, <3>1 DEF CallEntry
      <3> QED
        BY Zenon, <3>2, <3>3
    <2> QED
      BY <1>1, <2>1, <2>2, RingQuiet
  <1>8. CASE remove_call(s)
    <2>1. NoCallEntry.state = "NONE"
      BY DEF NoCallEntry
    <2>2. calls' = [calls EXCEPT ![task[s].call] = NoCallEntry]
      BY ZenonT(60), <1>8 DEF remove_call
    <2>3. \A c \in Call : IF c = task[s].call THEN calls'[c].state = "NONE" ELSE calls'[c] = calls[c]
      BY <1>0, <2>1, <2>2
    <2>4. RingKept(s)
      BY <2>3 DEF RingKept
    <2> QED
      BY <1>1, <2>4, RingCases
  <1> QED
    BY <1>2, <1>3, <1>4, <1>5, <1>6, <1>7, <1>8
    DEF WaitStep, LocalStep, RegisterPut, UnregisterPop, UnregisterHolder, AcceptFetch,
        SendBlock, RecvDisconnect, ReqPcs

\* Every call in the registry was offered to its callee, or the handler that
\* created it is still about to offer it or to remove it.
THEOREM NoSilentRing == Spec => []RingsOrPending
  <1>1. Init => RingInv
    <2>1. NoCallEntry.state = "NONE"
      BY DEF NoCallEntry
    <2> QED
      BY <2>1 DEF Init, RingInv
  <1>2. TypeOK /\ RingInv /\ [Next]_vars => RingInv'
    <2> SUFFICES ASSUME TypeOK, RingInv, [Next]_vars PROVE RingInv'
      OBVIOUS
    <2>1. CASE UNCHANGED <<task, calls>>
      BY <2>1 DEF RingInv
    <2>2. ASSUME NEW s \in Session, ClientStep(s) PROVE RingInv'
      <3>1. /\ UNCHANGED calls
            /\ task[s].pc \notin ReqPcs \/ task' = task
        BY ZenonT(60), <2>2 DEF ClientStep, Upgrade, Break, FwdFail, FwdStop, Refuse, PeerRegister,
                    PeerUnregister, CallRequest, CallAccept, CallReject, CallFailed,
                    CallEnded, OnCall, Start, Ready, ReqPcs
      <3>2. \A r \in Session : r # s => task'[r] = task[r]
        BY <2>2, TaskMoves
      <3> QED
        BY Zenon, <3>1, <3>2, RingQuiet
    <2>3. ASSUME NEW s \in Session, WaitStep(s) \/ LocalStep(s) PROVE RingInv'
      BY SMTT(60), <2>3, RingWaitStep
    <2>4. ASSUME NEW s \in Session, ForwardStep(s) \/ FwdDisconnect(s) PROVE RingInv'
      BY ZenonT(60), <2>1, <2>4 DEF ForwardStep, FwdTake, FwdSent, FwdEnd, FwdStop, FwdDisconnect
    <2>5. ASSUME NEW p \in Peer, RestStep(p) PROVE RingInv'
      BY <2>1, <2>5 DEF RestStep, RestRegister, RestUnregister, RestUpdateRead, RestUpdateWrite
    <2> QED
      BY <2>1, <2>2, <2>3, <2>4, <2>5 DEF Next, vars
  <1>3. RingInv => RingsOrPending
    BY DEF RingInv, RingsOrPending, ReqPcs
  <1> QED
    BY <1>1, <1>2, <1>3, TypeCorrect, PTL DEF Spec
=============================================================================
