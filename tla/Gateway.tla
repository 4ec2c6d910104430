------------------------------ MODULE Gateway ------------------------------
(***************************************************************************)
(* The front of the signaling server: tokens (jwt.rs), the middleware that *)
(* asks for them (auth.rs) and the REST handlers behind it (handlers.rs).  *)
(*                                                                         *)
(* A request is a task: the middleware is its first step, and every await  *)
(* of the registry's lock ends a step.  The registry itself, with its      *)
(* sessions and calls, is in SignalingServer; here it is a map that others *)
(* may change at any time.  The clock is SystemTime, which may be set      *)
(* back.  A server that is started again has an empty registry and, unless *)
(* it was configured with one, a new key.                                  *)
(***************************************************************************)
EXTENDS Naturals, Sequences, FiniteSets

CONSTANTS
  Peers,        \* valid peer ids
  Slots,        \* requests that may be in flight at a time
  Bodies,       \* RegisterPeerRequest: [display_name, nat_type, status]
  SessionInfos, \* what sessions register: [display_name, nat_type, status]
  ExpirySecs,   \* jwt_expiry_secs
  MaxTime,      \* bound on the clock
  MaxKeys,      \* bound on the keys ever generated
  MaxTokens     \* bound on the tokens issued

VARIABLES
  now, key,
  peers,        \* the registry: a function from the registered peers to PeerInfo
  tokens,       \* history: the tokens issued
  reqs,         \* slot -> request
  sessions,     \* the peers with a WebSocket session
  answer        \* history: the last decision on a token

vars == <<now, key, peers, tokens, reqs, sessions, answer>>

NoToken == [sub |-> "nobody", iat |-> 0, nbf |-> 0, exp |-> 0, key |-> 0]
Free == [op |-> "none", at |-> "free", auth |-> "", peer |-> "", body |-> {}, existing |-> {}]
Silent == [how |-> "nothing", token |-> NoToken]

Init ==
  /\ now = 0 /\ key = 1 /\ peers = << >> /\ tokens = {}
  /\ reqs = [r \in Slots |-> Free] /\ sessions = {} /\ answer = Silent

Registered == DOMAIN peers
Stored(p, info) == [q \in Registered \cup {p} |-> IF q = p THEN info ELSE peers[q]]

----------------------------------------------------------------------------
create_jwt(p) == [sub |-> p, iat |-> now, nbf |-> now, exp |-> now + ExpirySecs, key |-> key]

(* Not-before is not looked at.                                            *)
verify_jwt_no_nbf(t) == t.key = key /\ ~(t.exp < now)

(* The signature, then the expiry and the not-before time, both inclusive. *)
verify_jwt(t) ==
  /\ t.key = key
  /\ ~(t.exp < now)
  /\ ~(t.nbf > now)

(* GET stands for all protected handlers that only look.                   *)
Ops == {"register", "myip", "ws", "PUT", "DELETE", "GET", "proxy-token"}
is_public_path(op) == op \in {"register", "myip", "ws"}

(* The arguments that the middleware and the handler read.                 *)
HeaderOf(op) == {NoToken} \cup (IF is_public_path(op) THEN {} ELSE tokens)
PathOf(op) == IF op \in {"register", "PUT", "DELETE", "proxy-token"} THEN Peers ELSE {""}
BodyOf(op) == IF op \in {"register", "PUT"} THEN Bodies ELSE {{}}

(* A request comes in and passes the middleware or not.  The handlers of   *)
(* public paths find an empty peer id.                                     *)
auth_middleware(r, op, p, token, body) ==
  LET goes_on(auth) ==
        reqs' = [reqs EXCEPT ![r] = [op |-> op, at |-> "handler", auth |-> auth, peer |-> p,
                                     body |-> body, existing |-> {}]]
      admitted == token # NoToken /\ verify_jwt(token)
  IN /\ reqs[r] = Free
     /\ IF is_public_path(op) THEN goes_on("") /\ answer' = Silent
        ELSE /\ IF admitted THEN goes_on(token.sub) ELSE UNCHANGED reqs
             /\ answer' = [how |-> IF admitted THEN "admitted" ELSE "refused", token |-> token]
     /\ UNCHANGED <<now, key, peers, tokens, sessions>>

----------------------------------------------------------------------------
(* The texts of the two enums, by number.  A number without a text is      *)
(* shown as UNKNOWN, and a text without a number leaves a default.         *)
NatTypes ==
  <<"NONE", "CONE", "SYMMETRIC_SEQUENTIAL", "SYMMETRIC_PSEUDO", "SYMMETRIC_RANDOM">>
Statuses == <<"ONLINE", "OFFLINE", "IN_CALL">>
Numbers(names) == 0 .. Len(names) - 1

Shown(names, n) == IF n \in Numbers(names) THEN names[n + 1] ELSE "UNKNOWN"
Parsed(names, text, default) ==
  IF \E n \in Numbers(names) : text = {names[n + 1]}
  THEN CHOOSE n \in Numbers(names) : text = {names[n + 1]}
  ELSE default

nat_type_str(n) == Shown(NatTypes, n)
peer_status_str(s) == Shown(Statuses, s)
nat_type_of(text, default) == Parsed(NatTypes, text, default)
status_of(text, default) == Parsed(Statuses, text, default)

(* The PeerInfo of an update: what the body leaves out stays.              *)
updated(old, body) ==
  [old EXCEPT !.display_name = IF body.display_name = "" THEN @ ELSE body.display_name,
              !.nat_type = nat_type_of(body.nat_type, @),
              !.status = status_of(body.status, @)]

PeerResponse(info) ==
  [display_name |-> info.display_name, nat_type |-> {nat_type_str(info.nat_type)},
   status |-> {peer_status_str(info.status)}]

----------------------------------------------------------------------------
At(r, op, l) == reqs[r].op = op /\ reqs[r].at = l
Done(r) == reqs' = [reqs EXCEPT ![r] = Free]
Answers(r) == Done(r) /\ UNCHANGED <<now, key, peers, tokens, sessions, answer>>

(* A peer id that is no key, and the rate limiter, end it; otherwise the   *)
(* peer is stored and gets its token.                                      *)
register_peer(r) ==
  /\ At(r, "register", "handler")
  /\ \/ Answers(r)
     \/ LET q == reqs[r]
            info == [display_name |-> q.body.display_name,
                     nat_type |-> nat_type_of(q.body.nat_type, 0),
                     status |-> status_of(q.body.status, 0)]
        IN /\ Cardinality(tokens) < MaxTokens
           /\ peers' = Stored(q.peer, info)
           /\ tokens' = tokens \cup {create_jwt(q.peer)}
           /\ Done(r) /\ UNCHANGED <<now, key, sessions, answer>>

(* update_peer reads the entry, and stores the new one when it has the     *)
(* lock again: whatever happened to the entry in between is overwritten,   *)
(* and one that was deleted is back.                                       *)
update_peer_read(r) ==
  LET q == reqs[r]
  IN /\ At(r, "PUT", "handler")
     /\ IF q.auth # q.peer \/ q.peer \notin Registered THEN Answers(r)
        ELSE /\ reqs' = [reqs EXCEPT ![r] = [q EXCEPT !.at = "write", !.existing = {peers[q.peer]}]]
             /\ UNCHANGED <<now, key, peers, tokens, sessions, answer>>

update_peer_write(r) ==
  LET q == reqs[r]
  IN /\ At(r, "PUT", "write")
     /\ \E old \in q.existing :
          peers' = Stored(q.peer, updated(old, q.body))
     /\ Done(r) /\ UNCHANGED <<now, key, tokens, sessions, answer>>

(* It says NO_CONTENT whether or not the peer was there.                   *)
unregister_peer(r) ==
  LET q == reqs[r]
  IN /\ At(r, "DELETE", "handler")
     /\ peers' = IF q.auth # q.peer THEN peers
                 ELSE [p \in Registered \ {q.peer} |-> peers[p]]
     /\ Done(r) /\ UNCHANGED <<now, key, tokens, sessions, answer>>

(* The handlers that only look: get_peer, get_peer_status, lookup_peer,    *)
(* get_my_ip, get_proxies and dht_bootstrap.                               *)
looks(r) ==
  /\ reqs[r].at = "handler"
  /\ reqs[r].op \in {"GET", "myip"}
  /\ Answers(r)

(* Both peers are looked up, one after the other.                          *)
issue_proxy_token(r) ==
  \/ /\ At(r, "proxy-token", "handler")
     /\ IF reqs[r].peer \notin Registered THEN Answers(r)
        ELSE /\ reqs' = [reqs EXCEPT ![r].at = "target"]
             /\ UNCHANGED <<now, key, peers, tokens, sessions, answer>>
  \/ At(r, "proxy-token", "target") /\ Answers(r)

(* The WebSocket upgrade takes its token from the query.                   *)
ws_upgrade(r, token) ==
  LET admitted == token # NoToken /\ verify_jwt(token)
  IN /\ At(r, "ws", "handler")
     /\ sessions' = IF admitted THEN sessions \cup {token.sub} ELSE sessions
     /\ answer' = [how |-> IF admitted THEN "admitted" ELSE "refused", token |-> token]
     /\ Done(r) /\ UNCHANGED <<now, key, peers, tokens>>

----------------------------------------------------------------------------
(* A session stores what it is sent, under the peer id of the message and  *)
(* with enum values of any number; a full registry evicts.                 *)
session_registers(p, info) ==
  /\ sessions # {}
  /\ peers' = Stored(p, info)
  /\ answer' = Silent /\ UNCHANGED <<now, key, tokens, reqs, sessions>>

Evicted(p) ==
  /\ peers' = [q \in Registered \ {p} |-> peers[q]]
  /\ answer' = Silent /\ UNCHANGED <<now, key, tokens, reqs, sessions>>

Restart ==
  /\ key' \in {key} \cup (IF key < MaxKeys THEN {key + 1} ELSE {})
  /\ peers' = << >> /\ reqs' = [r \in Slots |-> Free] /\ sessions' = {} /\ answer' = Silent
  /\ UNCHANGED <<now, tokens>>

ClockSet ==
  /\ now' \in (0 .. MaxTime) \ {now}
  /\ answer' = Silent /\ UNCHANGED <<key, peers, tokens, reqs, sessions>>

Next ==
  \/ \E r \in Slots :
       \/ \E op \in Ops :
            \E p \in PathOf(op), b \in BodyOf(op), t \in HeaderOf(op) : auth_middleware(r, op, p, t, b)
       \/ register_peer(r) \/ update_peer_read(r) \/ update_peer_write(r)
       \/ unregister_peer(r) \/ looks(r) \/ issue_proxy_token(r)
       \/ \E t \in tokens \cup {NoToken} : ws_upgrade(r, t)
  \/ \E p \in Peers, info \in SessionInfos : session_registers(p, info)
  \/ \E p \in Registered : Evicted(p)
  \/ Restart \/ ClockSet

Spec == Init /\ [][Next]_vars

----------------------------------------------------------------------------
TypeOK ==
  /\ now \in 0 .. MaxTime /\ key \in 1 .. MaxKeys
  /\ Registered \subseteq Peers /\ sessions \subseteq Peers
  /\ \A r \in Slots : reqs[r].at \in {"free", "handler", "write", "target"}

(* A token opens the server from the second it was issued until it         *)
(* expires, by the clock of the server and under the key it was signed     *)
(* with, and not at any other time: not while the clock is behind the      *)
(* second of its issue, and not after a restart with another key.          *)
TokensOpen ==
  answer.how # "nothing" =>
    (answer.how = "admitted") <=>
      \E t \in tokens :
        t = answer.token /\ t.key = key /\ now \in t.iat .. t.iat + ExpirySecs

(* Behind the middleware, and in a session, is only a peer that registered *)
(* with a server of this key, whatever became of its entry.                *)
InsideRegistered ==
  LET given == {t.sub : t \in {u \in tokens : u.key = key}}
  IN /\ sessions \subseteq given
     /\ \A r \in Slots : (reqs[r].at # "free" /\ ~is_public_path(reqs[r].op)) => reqs[r].auth \in given

(* PUTting back what GET shows changes nothing, also for an enum value     *)
(* that has no name.                                                       *)
ShownIsKept == \A p \in Registered : updated(peers[p], PeerResponse(peers[p])) = peers[p]

Honest == TokensOpen /\ InsideRegistered /\ ShownIsKept
=============================================================================
