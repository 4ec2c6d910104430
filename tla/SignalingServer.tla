-------------------------- MODULE SignalingServer --------------------------
(***************************************************************************)
(* The signaling server of crates/voip-signaling: the peer and the call    *)
(* registry (state.rs), the WebSocket sessions with their two tasks each   *)
(* (session.rs) and the REST handlers that change the registry             *)
(* (handlers.rs).                                                          *)
(*                                                                         *)
(* A session runs a receive loop (task[s]) and a forward task (fwd[s]).    *)
(* A step of either is the code between two awaits at which another task   *)
(* can change what the handler sees.  The peers lock is held across an     *)
(* await in one place only, a send_to_peer into a full channel; lock names *)
(* the session whose handler sits there, and every other use of the        *)
(* registry needs lock = NoSession.  A channel is abstracted to the number *)
(* of messages it holds, a message to the handler it starts.               *)
(***************************************************************************)
EXTENDS Naturals, FiniteSets

CONSTANTS
    Peer,        \* peer ids
    Session,     \* WebSocket sessions; a reconnection is another session
    Call,        \* call ids, chosen by the clients
    NoPeer, NoSession, NoCall,
    Owner,       \* Owner[s]: the peer whose JWT opened session s
    Capacity,    \* SESSION_CHANNEL_CAPACITY
    MaxPeers,    \* capacity of the peers LRU cache
    MaxCalls,    \* capacity of the calls LRU cache
    HasProxy,    \* the server knows a MASQUE proxy
    AnyId,       \* clients may name a peer other than Owner[s] as their own
    WsSendFails, \* a WebSocket send may return an error
    RegStatus,   \* statuses that registrations carry
    FailReasons, \* classes of CallFailed reasons that clients report
    Traffic      \* kinds of requests that arrive: the inputs of an instance

PeerStatus == {"ONLINE", "OFFLINE", "IN_CALL"}

\* Reasons 3 and 4 ask for a relay, reason 7 for a retry, the others for neither.
ReasonClass == {"relay", "retry", "final"}

Request == {"refused", "register", "unregister", "call_request", "call_accept",
            "call_reject", "call_failed", "call_ended",
            "rest_register", "rest_update", "rest_unregister"}

ASSUME NullAssumption ==
    NoPeer \notin Peer /\ NoSession \notin Session /\ NoCall \notin Call

ASSUME ConstantAssumption ==
    /\ Owner \in [Session -> Peer]
    /\ Capacity \in Nat \ {0}
    /\ MaxPeers \in Nat \ {0}
    /\ MaxCalls \in Nat \ {0}
    /\ HasProxy \in BOOLEAN /\ AnyId \in BOOLEAN /\ WsSendFails \in BOOLEAN
    /\ RegStatus \subseteq PeerStatus
    /\ FailReasons \subseteq ReasonClass
    /\ Traffic \subseteq Request

VARIABLES
    peers,        \* the peer registry
    calls,        \* the call registry
    lock,         \* the session blocked inside send_to_peer, holding the peers lock
    task,         \* task[s]: where the receive loop of s is, with its locals
    fwd,          \* fwd[s]: where the forward task of s is
    queued,       \* queued[s]: messages in the channel of s
    holder,       \* holder[s]: peer_id_holder, the peer the session speaks for
    disconnected, \* disconnected[s]: the flag both tasks compare-and-swap
    cleaned,      \* history: how often a task of s has run disconnect_peer
    upd           \* upd[p]: the status a REST update of p is about to write

vars == <<peers, calls, lock, task, fwd, queued, holder, disconnected, cleaned, upd>>

-----------------------------------------------------------------------------
(* The state of the server *)

NoEntry == [known |-> FALSE, status |-> "OFFLINE", sender |-> NoSession]

\* offered is history: the callee of this entry was sent CALL_REQUEST.
NoCallEntry == [state |-> "NONE", caller |-> NoPeer, callee |-> NoPeer, offered |-> FALSE]

Idle == [pc |-> "idle", peer |-> NoPeer, status |-> "OFFLINE", call |-> NoCall,
         caller |-> NoPeer, callee |-> NoPeer, why |-> "final"]

\* The awaits of the handlers that send to another peer.
SendPcs == {"reqSend", "accSend", "rejSend", "failSend",
            "relayCaller", "relayCallee", "pushSend", "endSend"}

Pcs == SendPcs \cup
       {"new", "idle", "gone", "disc", "reply", "heldReply", "regPut",
        "unregPop", "unregHold", "create", "reqReply", "reqRemove", "accUpdate", "accFetch",
        "rejEnd", "failEnd", "endEnd", "remove"}

PeerEntry == [known : BOOLEAN, status : PeerStatus, sender : Session \cup {NoSession}]

CallEntry == [state : {"NONE", "RINGING", "ACCEPTED", "ENDED"},
              caller : Peer \cup {NoPeer}, callee : Peer \cup {NoPeer},
              offered : BOOLEAN]

TaskState == [pc : Pcs, peer : Peer \cup {NoPeer}, status : PeerStatus,
              call : Call \cup {NoCall}, caller : Peer \cup {NoPeer},
              callee : Peer \cup {NoPeer}, why : ReasonClass]

TypeOK ==
    /\ peers \in [Peer -> PeerEntry]
    /\ calls \in [Call -> CallEntry]
    /\ lock \in Session \cup {NoSession}
    /\ task \in [Session -> TaskState]
    /\ fwd \in [Session -> {"none", "run", "sending", "disc", "done"}]
    /\ queued \in [Session -> 0..Capacity]
    /\ holder \in [Session -> Peer \cup {NoPeer}]
    /\ disconnected \in [Session -> BOOLEAN]
    /\ cleaned \in [Session -> Nat]
    /\ upd \in [Peer -> PeerStatus \cup {"none"}]

Init ==
    /\ peers = [p \in Peer |-> NoEntry]
    /\ calls = [c \in Call |-> NoCallEntry]
    /\ lock = NoSession
    /\ task = [s \in Session |-> [Idle EXCEPT !.pc = "new"]]
    /\ fwd = [s \in Session |-> "none"]
    /\ queued = [s \in Session |-> 0]
    /\ holder = [s \in Session |-> NoPeer]
    /\ disconnected = [s \in Session |-> FALSE]
    /\ cleaned = [s \in Session |-> 0]
    /\ upd = [p \in Peer |-> "none"]

Goto(s, pc) ==
    task' = [task EXCEPT ![s] = IF pc = "idle" THEN Idle ELSE [@ EXCEPT !.pc = pc]]

LockFree == lock = NoSession

-----------------------------------------------------------------------------
(* The registries: operations of AppState *)

\* LruCache::put on a full cache drops the least recently used entry; which one
\* that is is left open.
PutPeer(p, e) ==
    LET known == {q \in Peer : peers[q].known}
    IN  IF Cardinality(known) < MaxPeers
        THEN peers' = [peers EXCEPT ![p] = e]
        ELSE \E q \in known : peers' = [peers EXCEPT ![q] = NoEntry, ![p] = e]

PutCall(c, e) ==
    LET active == {d \in Call : calls[d].state # "NONE"}
    IN  IF Cardinality(active) < MaxCalls
        THEN calls' = [calls EXCEPT ![c] = e]
        ELSE \E d \in active : calls' = [calls EXCEPT ![d] = NoCallEntry, ![c] = e]

register_peer(p, status, sender) ==
    /\ LockFree
    /\ IF peers[p].known
       THEN peers' = [peers EXCEPT ![p] =
                        [known |-> TRUE, status |-> status,
                         sender |-> IF sender = NoSession THEN @.sender ELSE sender]]
       ELSE PutPeer(p, [known |-> TRUE, status |-> status, sender |-> sender])

unregister_peer(p) ==
    /\ LockFree
    /\ peers' = [peers EXCEPT ![p] = NoEntry]

\* Mutant of disconnect_peer: without waiting for the peers lock.
disconnect_peer_unlocked(p) ==
    peers' = [peers EXCEPT ![p].sender = NoSession, ![p].status = "OFFLINE"]

\* Mutant of disconnect_peer: only marks the peer offline.
disconnect_peer_keeps_sender(p) ==
    LockFree /\ peers' = [peers EXCEPT ![p].status = "OFFLINE"]

disconnect_peer(p) ==
    /\ LockFree
    /\ peers' = [peers EXCEPT ![p] =
                   IF @.known THEN [@ EXCEPT !.sender = NoSession, !.status = "OFFLINE"]
                              ELSE @]

-----------------------------------------------------------------------------
(* Session start, and the messages that a receive loop dispatches *)

\* ws_upgrade and the head of handle_ws_connection.
Upgrade(s) ==
    /\ task[s].pc = "new"
    /\ Goto(s, "idle")
    /\ fwd' = [fwd EXCEPT ![s] = "run"]
    /\ holder' = [holder EXCEPT ![s] = Owner[s]]
    /\ UNCHANGED <<peers, calls, lock, queued, disconnected, cleaned, upd>>

\* Every message first takes the peer_id_holder mutex (for its rate limit), and
\* the forward task keeps that mutex while it waits in disconnect_peer.
Ready(s) == task[s].pc = "idle" /\ fwd[s] # "disc"

MayName(s, p) == AnyId \/ p = Owner[s]

SpeaksFor(s, who) == holder[s] \in who \cup {NoPeer}

Start(s, t) ==
    /\ task' = [task EXCEPT ![s] = t]
    /\ UNCHANGED <<peers, calls, lock, fwd, queued, disconnected, cleaned, upd>>

\* A message that is rate limited, unknown or not decodable.
Refuse(s) ==
    /\ Ready(s)
    /\ Start(s, [Idle EXCEPT !.pc = "reply"])
    /\ UNCHANGED holder

PeerRegister(s, p, status) ==
    /\ Ready(s)
    /\ MayName(s, p)
    /\ holder' = [holder EXCEPT ![s] = p]
    /\ Start(s, [Idle EXCEPT !.pc = "regPut", !.peer = p, !.status = status])

PeerUnregister(s, p) ==
    /\ Ready(s)
    /\ MayName(s, p)
    /\ Start(s, [Idle EXCEPT !.pc = "unregPop", !.peer = p])
    /\ UNCHANGED holder

CallRequest(s, c, caller, callee) ==
    /\ Ready(s)
    /\ MayName(s, caller)
    /\ Start(s, IF SpeaksFor(s, {caller})
                THEN [Idle EXCEPT !.pc = "create", !.call = c,
                                  !.caller = caller, !.callee = callee]
                ELSE [Idle EXCEPT !.pc = "heldReply"])
    /\ UNCHANGED holder

\* The handlers of an existing call read its entry and check who is asking.
\* Request, accept and reject answer a stranger before they drop the guard of the
\* peer_id_holder mutex (heldReply); failed and ended drop it first.
OnCall(s, c, who, t, refusal) ==
    /\ Ready(s)
    /\ Start(s, CASE calls[c].state = "NONE" -> [Idle EXCEPT !.pc = "reply"]
                  [] ~SpeaksFor(s, who)      -> [Idle EXCEPT !.pc = refusal]
                  [] OTHER                   -> t)
    /\ UNCHANGED holder

CallTask(s, c, pc) ==
    [Idle EXCEPT !.pc = pc, !.call = c,
                 !.caller = calls[c].caller, !.callee = calls[c].callee,
                 !.peer = IF calls[c].caller = holder[s]
                          THEN calls[c].callee ELSE calls[c].caller]

CallAccept(s, c) ==
    OnCall(s, c, {calls[c].callee}, [Idle EXCEPT !.pc = "accUpdate", !.call = c],
           "heldReply")

CallReject(s, c) ==
    OnCall(s, c, {calls[c].callee}, CallTask(s, c, "rejEnd"), "heldReply")

CallFailed(s, c, why) ==
    OnCall(s, c, {calls[c].caller, calls[c].callee},
           [CallTask(s, c, "failSend") EXCEPT !.why = why], "reply")

CallEnded(s, c) ==
    OnCall(s, c, {calls[c].caller, calls[c].callee}, CallTask(s, c, "endSend"), "reply")

-----------------------------------------------------------------------------
(* The steps of a handler after its message is dispatched *)

RegisterPut(s) ==
    /\ task[s].pc = "regPut"
    /\ register_peer(task[s].peer, task[s].status, s)
    /\ Goto(s, "idle")
    /\ UNCHANGED <<calls, lock, fwd, queued, holder, disconnected, cleaned, upd>>

UnregisterPop(s) ==
    /\ task[s].pc = "unregPop"
    /\ unregister_peer(task[s].peer)
    /\ Goto(s, "unregHold")
    /\ UNCHANGED <<calls, lock, fwd, queued, holder, disconnected, cleaned, upd>>

UnregisterHolder(s) ==
    /\ task[s].pc = "unregHold"
    /\ fwd[s] # "disc"
    /\ holder' = [holder EXCEPT ![s] = NoPeer]
    /\ Goto(s, "idle")
    /\ UNCHANGED <<peers, calls, lock, fwd, queued, disconnected, cleaned, upd>>

\* Mutant of create_call: a call id in use is overwritten.
create_call_overwrites(s) ==
    LET t == task[s]
    IN  /\ t.pc = "create"
        /\ LockFree
        /\ IF peers[t.caller].known /\ peers[t.callee].known
           THEN /\ PutCall(t.call, [state |-> "RINGING", caller |-> t.caller,
                                    callee |-> t.callee, offered |-> FALSE])
                /\ Goto(s, "reqSend")
           ELSE /\ Goto(s, "reply")
                /\ UNCHANGED calls
        /\ UNCHANGED <<peers, lock, fwd, queued, holder, disconnected, cleaned, upd>>

create_call(s) ==
    LET t == task[s]
    IN  /\ t.pc = "create"
        /\ LockFree
        /\ IF /\ peers[t.caller].known
              /\ peers[t.callee].known
              /\ calls[t.call].state = "NONE"
           THEN /\ PutCall(t.call, [state |-> "RINGING", caller |-> t.caller,
                                    callee |-> t.callee, offered |-> FALSE])
                /\ Goto(s, "reqSend")
           ELSE /\ Goto(s, "reply")
                /\ UNCHANGED calls
        /\ UNCHANGED <<peers, lock, fwd, queued, holder, disconnected, cleaned, upd>>

\* update_call_state(call_id, ACCEPTED), whatever the state was.
AcceptUpdate(s) ==
    LET c == task[s].call
    IN  /\ task[s].pc = "accUpdate"
        /\ IF calls[c].state = "NONE"
           THEN Goto(s, "reply") /\ UNCHANGED calls
           ELSE /\ calls' = [calls EXCEPT ![c].state = "ACCEPTED"]
                /\ Goto(s, "accFetch")
        /\ UNCHANGED <<peers, lock, fwd, queued, holder, disconnected, cleaned, upd>>

\* The second get_call of ws_handle_call_accept.
AcceptFetch(s) ==
    LET c == task[s].call
    IN  /\ task[s].pc = "accFetch"
        /\ IF calls[c].state = "NONE"
           THEN Goto(s, "reply")
           ELSE task' = [task EXCEPT ![s].pc = "accSend", ![s].caller = calls[c].caller]
        /\ UNCHANGED <<peers, calls, lock, fwd, queued, holder, disconnected, cleaned, upd>>

end_call(s) ==
    LET c == task[s].call
    IN  /\ task[s].pc \in {"rejEnd", "failEnd", "endEnd"}
        /\ calls' = [calls EXCEPT ![c].state = IF @ = "NONE" THEN @ ELSE "ENDED"]
        /\ Goto(s, CASE task[s].pc = "rejEnd"  -> "rejSend"
                     [] task[s].pc = "failEnd" -> "idle"
                     [] OTHER                  -> "remove")
        /\ UNCHANGED <<peers, lock, fwd, queued, holder, disconnected, cleaned, upd>>

remove_call(s) ==
    /\ task[s].pc \in {"remove", "reqRemove"}
    /\ calls' = [calls EXCEPT ![task[s].call] = NoCallEntry]
    /\ Goto(s, "idle")
    /\ UNCHANGED <<peers, lock, fwd, queued, holder, disconnected, cleaned, upd>>

\* An error goes back through the session's own channel: it waits while the
\* channel is full and is dropped once the forward task is gone.
Reply(s) ==
    /\ task[s].pc \in {"reply", "heldReply", "reqReply"}
    /\ IF fwd[s] = "done"
       THEN UNCHANGED queued
       ELSE queued[s] < Capacity /\ queued' = [queued EXCEPT ![s] = @ + 1]
    /\ Goto(s, IF task[s].pc = "reqReply" THEN "reqRemove" ELSE "idle")
    /\ UNCHANGED <<peers, calls, lock, fwd, holder, disconnected, cleaned, upd>>

-----------------------------------------------------------------------------
(* send_to_peer, and where each handler goes on after it *)

Target(t) ==
    CASE t.pc \in {"accSend", "rejSend", "relayCaller"} -> t.caller
      [] t.pc \in {"reqSend", "relayCallee"}            -> t.callee
      [] OTHER                                          -> t.peer

\* One PushRetry to the other peer.  The retry_count of an entry is always 0, so
\* the limit on attempts never stops it.
handle_retryable_failure == "pushSend"

\* MasqueRelayNeeded to the caller, then to the callee; an error without a proxy.
send_relay_needed == IF HasProxy THEN "relayCaller" ELSE handle_retryable_failure

\* What follows the forwarded CallFailed.
AfterCallFailed(why) ==
    CASE why = "relay" -> send_relay_needed
      [] why = "retry" -> handle_retryable_failure
      [] OTHER         -> "failEnd"

OnSent(t) ==
    CASE t.pc \in {"reqSend", "accSend"}      -> "idle"
      [] t.pc = "rejSend"                     -> "remove"
      [] t.pc = "failSend"                    -> AfterCallFailed(t.why)
      [] t.pc = "relayCaller"                 -> "relayCallee"
      [] t.pc \in {"relayCallee", "pushSend"} -> "failEnd"
      [] OTHER                                -> "endEnd"

\* Mutant of OnSendError: a call whose callee is unreachable is not removed.
OnSendError_keeps_call(t) ==
    IF t.pc \in {"reqSend", "accSend"} THEN "reply" ELSE OnSent(t)

OnSendError(t) ==
    CASE t.pc = "reqSend"                        -> "reqReply"
      [] t.pc = "accSend"                        -> "reply"
      [] t.pc \in {"relayCaller", "relayCallee"} -> "pushSend"
      [] OTHER                                   -> OnSent(t)

Sending(s) == task[s].pc \in SendPcs /\ lock \in {NoSession, s}

\* The peer is known and connected, and the receiver of its channel still exists.
Reachable(p) ==
    /\ peers[p].known
    /\ peers[p].sender \in {r \in Session : fwd[r] # "done"}

SendError(s) ==
    /\ Sending(s)
    /\ ~Reachable(Target(task[s]))
    /\ lock' = NoSession
    /\ Goto(s, OnSendError(task[s]))
    /\ UNCHANGED <<peers, calls, fwd, queued, holder, disconnected, cleaned, upd>>

\* Mutant of SendOk: an unbounded channel.
SendOk_unbounded(s) ==
    LET t == task[s]
        r == peers[Target(t)].sender
    IN  /\ Sending(s)
        /\ Reachable(Target(t))
        /\ queued' = [queued EXCEPT ![r] = @ + 1]
        /\ lock' = NoSession
        /\ IF t.pc = "reqSend" /\ calls[t.call].callee = t.callee
           THEN calls' = [calls EXCEPT ![t.call].offered = TRUE]
           ELSE UNCHANGED calls
        /\ Goto(s, OnSent(t))
        /\ UNCHANGED <<peers, fwd, holder, disconnected, cleaned, upd>>

SendOk(s) ==
    LET t == task[s]
        r == peers[Target(t)].sender
    IN  /\ Sending(s)
        /\ Reachable(Target(t))
        /\ queued[r] < Capacity
        /\ queued' = [queued EXCEPT ![r] = @ + 1]
        /\ lock' = NoSession
        /\ IF t.pc = "reqSend" /\ calls[t.call].callee = t.callee
           THEN calls' = [calls EXCEPT ![t.call].offered = TRUE]
           ELSE UNCHANGED calls
        /\ Goto(s, OnSent(t))
        /\ UNCHANGED <<peers, fwd, holder, disconnected, cleaned, upd>>

SendBlock(s) ==
    LET p == Target(task[s])
    IN  /\ task[s].pc \in SendPcs
        /\ LockFree
        /\ Reachable(p)
        /\ queued[peers[p].sender] = Capacity
        /\ lock' = s
        /\ UNCHANGED <<peers, calls, task, fwd, queued, holder, disconnected, cleaned, upd>>

-----------------------------------------------------------------------------
(* The end of a session *)

\* Close frame, receive error, end of stream or idle timeout at the loop head,
\* followed by the compare-and-swap on disconnected.
Break(s) ==
    /\ task[s].pc = "idle"
    /\ disconnected' = [disconnected EXCEPT ![s] = TRUE]
    /\ Goto(s, IF ~disconnected[s] /\ holder[s] # NoPeer THEN "disc" ELSE "gone")
    /\ UNCHANGED <<peers, calls, lock, fwd, queued, holder, cleaned, upd>>

RecvDisconnect(s) ==
    /\ task[s].pc = "disc"
    /\ disconnect_peer(holder[s])
    /\ cleaned' = [cleaned EXCEPT ![s] = @ + 1]
    /\ Goto(s, "gone")
    /\ UNCHANGED <<calls, lock, fwd, queued, holder, disconnected, upd>>

\* Mutant of FwdTake: the forward task takes the peers lock for every message.
FwdTake_locked(s) ==
    /\ fwd[s] = "run"
    /\ queued[s] > 0
    /\ LockFree
    /\ queued' = [queued EXCEPT ![s] = @ - 1]
    /\ fwd' = [fwd EXCEPT ![s] = "sending"]
    /\ UNCHANGED <<peers, calls, lock, task, holder, disconnected, cleaned, upd>>

FwdTake(s) ==
    /\ fwd[s] = "run"
    /\ queued[s] > 0
    /\ queued' = [queued EXCEPT ![s] = @ - 1]
    /\ fwd' = [fwd EXCEPT ![s] = "sending"]
    /\ UNCHANGED <<peers, calls, lock, task, holder, disconnected, cleaned, upd>>

FwdSent(s) ==
    /\ fwd[s] = "sending"
    /\ fwd' = [fwd EXCEPT ![s] = "run"]
    /\ UNCHANGED <<peers, calls, lock, task, queued, holder, disconnected, cleaned, upd>>

\* Mutant of FwdStop: the forward task does not look at the flag.
FwdStop_no_cas(s) ==
    /\ disconnected' = [disconnected EXCEPT ![s] = TRUE]
    /\ fwd' = [fwd EXCEPT ![s] = IF holder[s] # NoPeer THEN "disc" ELSE "done"]
    /\ queued' = [queued EXCEPT ![s] = IF holder[s] # NoPeer THEN @ ELSE 0]
    /\ UNCHANGED <<peers, calls, lock, task, holder, cleaned, upd>>

\* The forward task leaves its loop and tries the compare-and-swap.  The channel
\* keeps its receiver until the task is over.
FwdStop(s) ==
    LET claims == ~disconnected[s] /\ holder[s] # NoPeer
    IN  /\ disconnected' = [disconnected EXCEPT ![s] = TRUE]
        /\ fwd' = [fwd EXCEPT ![s] = IF claims THEN "disc" ELSE "done"]
        /\ queued' = [queued EXCEPT ![s] = IF claims THEN @ ELSE 0]
        /\ UNCHANGED <<peers, calls, lock, task, holder, cleaned, upd>>

FwdFail(s) ==
    /\ WsSendFails
    /\ fwd[s] = "sending"
    /\ FwdStop(s)

\* recv() returns None: the channel is empty and every sender is dropped.
FwdEnd(s) ==
    /\ fwd[s] = "run"
    /\ queued[s] = 0
    /\ task[s].pc = "gone"
    /\ \A p \in Peer : peers[p].sender # s
    /\ FwdStop(s)

FwdDisconnect(s) ==
    /\ fwd[s] = "disc"
    /\ task[s].pc # "heldReply"
    /\ disconnect_peer(holder[s])
    /\ cleaned' = [cleaned EXCEPT ![s] = @ + 1]
    /\ fwd' = [fwd EXCEPT ![s] = "done"]
    /\ queued' = [queued EXCEPT ![s] = 0]
    /\ UNCHANGED <<calls, lock, task, holder, disconnected, upd>>

-----------------------------------------------------------------------------
(* REST handlers *)

RestRegister(p, status) ==
    /\ register_peer(p, status, NoSession)
    /\ UNCHANGED <<calls, lock, task, fwd, queued, holder, disconnected, cleaned, upd>>

RestUnregister(p) ==
    /\ unregister_peer(p)
    /\ UNCHANGED <<calls, lock, task, fwd, queued, holder, disconnected, cleaned, upd>>

\* update_peer reads the entry, then writes it back under a second lock.
RestUpdateRead(p) ==
    /\ LockFree
    /\ upd[p] = "none"
    /\ peers[p].known
    /\ \E status \in RegStatus \cup {peers[p].status} :
          upd' = [upd EXCEPT ![p] = status]
    /\ UNCHANGED <<peers, calls, lock, task, fwd, queued, holder, disconnected, cleaned>>

RestUpdateWrite(p) ==
    /\ upd[p] # "none"
    /\ register_peer(p, upd[p], NoSession)
    /\ upd' = [upd EXCEPT ![p] = "none"]
    /\ UNCHANGED <<calls, lock, task, fwd, queued, holder, disconnected, cleaned>>

-----------------------------------------------------------------------------
(* What clients and the network do, and what the server's tasks do *)

ClientStep(s) ==
    \/ Upgrade(s)
    \/ Break(s)
    \/ FwdFail(s)
    \/ "refused" \in Traffic /\ Refuse(s)
    \/ /\ "register" \in Traffic
       /\ \E p \in Peer, status \in RegStatus : PeerRegister(s, p, status)
    \/ "unregister" \in Traffic /\ \E p \in Peer : PeerUnregister(s, p)
    \/ /\ "call_request" \in Traffic
       /\ \E c \in Call, caller, callee \in Peer : CallRequest(s, c, caller, callee)
    \/ \E c \in Call :
          \/ "call_accept" \in Traffic /\ CallAccept(s, c)
          \/ "call_reject" \in Traffic /\ CallReject(s, c)
          \/ "call_failed" \in Traffic /\ \E why \in FailReasons : CallFailed(s, c, why)
          \/ "call_ended" \in Traffic /\ CallEnded(s, c)

RestStep(p) ==
    \/ "rest_register" \in Traffic /\ \E status \in RegStatus : RestRegister(p, status)
    \/ "rest_unregister" \in Traffic /\ RestUnregister(p)
    \/ "rest_update" \in Traffic /\ RestUpdateRead(p)
    \/ RestUpdateWrite(p)

\* Steps that wait for the peers lock or for room in a channel.
WaitStep(s) ==
    \/ RegisterPut(s)
    \/ UnregisterPop(s)
    \/ create_call(s)
    \/ SendError(s)
    \/ SendOk(s)
    \/ SendBlock(s)
    \/ RecvDisconnect(s)
    \/ Reply(s)

LocalStep(s) ==
    \/ UnregisterHolder(s)
    \/ AcceptUpdate(s)
    \/ AcceptFetch(s)
    \/ end_call(s)
    \/ remove_call(s)

ForwardStep(s) ==
    \/ FwdTake(s)
    \/ FwdSent(s)
    \/ FwdEnd(s)

Next ==
    \/ \E s \in Session :
          ClientStep(s) \/ WaitStep(s) \/ LocalStep(s) \/ ForwardStep(s) \/ FwdDisconnect(s)
    \/ \E p \in Peer : RestStep(p)

Spec == Init /\ [][Next]_vars

\* tokio runs every ready task (weak fairness); its RwLock and its bounded channel
\* serve waiters in order (strong fairness for the steps that wait for them).  A
\* WebSocket send returns, with or without an error.
Fairness ==
    /\ \A s \in Session :
          /\ WF_vars(LocalStep(s))
          /\ WF_vars(ForwardStep(s))
          /\ SF_vars(WaitStep(s))
          /\ SF_vars(FwdDisconnect(s))
    /\ \A p \in Peer : SF_vars(RestUpdateWrite(p))

FairSpec == Spec /\ Fairness

-----------------------------------------------------------------------------
(* Properties *)

\* The compare-and-swap of handle_ws_connection lets one of the two tasks of a
\* session run disconnect_peer, and only once, however their ends interleave.
DisconnectsOnce == \A s \in Session : cleaned[s] <= 1

\* No call stays in the registry without its callee having been told: either
\* CALL_REQUEST went into the callee's channel, or the ws_handle_call_request
\* that created the entry is still on its way to send it or to undo it.
RingsOrPending ==
    \A c \in Call :
        calls[c].state # "NONE" =>
            \/ calls[c].offered
            \/ \E s \in Session :
                  /\ task[s].pc \in {"reqSend", "reqReply", "reqRemove"}
                  /\ task[s].call = c

\* While a send_to_peer waits for room in a channel its target stays registered
\* with a sender: nobody unregisters, disconnects or evicts it meanwhile.
BlockedSendHasTarget ==
    \A s \in Session :
        lock = s => /\ task[s].pc \in SendPcs
                    /\ peers[Target(task[s])].known
                    /\ peers[Target(task[s])].sender # NoSession

\* The participants of a registered call never change: a create_call with a call
\* id in use is refused, so a step either keeps the pair or removes the entry.
ParticipantsFixed ==
    [][\A c \in Call :
         calls[c].state # "NONE" /\ calls'[c].state # "NONE" =>
            /\ calls'[c].caller = calls[c].caller
            /\ calls'[c].callee = calls[c].callee]_vars

\* As long as no WebSocket send fails, every handler of a receive loop returns:
\* no cycle of full channels, the peers lock and the holder mutex stops it.
HandlersReturn ==
    \A s \in Session :
        task[s].pc \notin {"new", "idle", "gone"} ~> task[s].pc \in {"idle", "gone"}

\* When a session's receive loop is over its forward task ends too: the last
\* sender of its channel is dropped, whatever the other sessions of the same
\* peer and the REST handlers do, if the session registered no peer but its own.
ForwardTaskEnds ==
    \A s \in Session : task[s].pc = "gone" ~> fwd[s] = "done"

-----------------------------------------------------------------------------
(* What the code's comments and documents say, and the code does not keep *)

\* "Returns `Err` if the peer is not connected or the send fails" (send_to_peer):
\* a send_to_peer that waits for room in a channel returns.
SendReturns == \A s \in Session : lock = s ~> lock # s

\* "Channel closed - clean up" (forward task of handle_ws_connection): a forward
\* task that claimed the clean-up finishes it.
CleanupFinishes == \A s \in Session : fwd[s] = "disc" ~> fwd[s] = "done"

\* "`None` if the peer is registered via REST but not WebSocket-connected"
\* (PeerEntry.sender): a sender in the registry belongs to a session that has
\* not ended.
SenderIsConnected ==
    \A p \in Peer, s \in Session :
        peers[p].sender = s => ~(task[s].pc = "gone" /\ fwd[s] = "done")

\* "Disconnect a peer's WebSocket session (remove sender, mark offline)"
\* (disconnect_peer): the clean-up of one session leaves the sender of another,
\* later session of the same peer in place.
DisconnectsOwnSession ==
    [][\A s \in Session, p \in Peer :
         cleaned'[s] # cleaned[s] /\ peers[p].sender \notin {s, NoSession} =>
            peers'[p].sender = peers[p].sender]_vars

\* "Once in `Ended`, no further transitions are allowed" (the call state machine):
\* an ended call in the registry stays ended until its entry is removed.
EndedIsFinal ==
    [][\A c \in Call :
         calls[c].state = "ENDED" => calls'[c].state \in {"ENDED", "NONE"}]_vars

\* "Verify peer exists" (update_peer): a REST update changes a registered peer
\* and never registers one.
UpdateNeedsPeer ==
    [][\A p \in Peer : upd[p] # "none" /\ upd'[p] = "none" => peers[p].known]_vars

=============================================================================
