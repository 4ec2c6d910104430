---------------------------- MODULE AccessProofs ----------------------------
(***************************************************************************)
(* Proofs about how a peer gets in at the server, and to another peer.     *)
(*                                                                         *)
(* The gateway, for any number of peers, requests, tokens, restarts and    *)
(* settings of the clock: it opens to the right tokens, lets only peers in *)
(* that registered with it, and shows what it keeps (GateInv).             *)
(*                                                                         *)
(* The fallback chain, for any peer records and number of proxies: at each *)
(* step the attempts made, followed by what is left of the decision tree   *)
(* from that step on, make up the tree for the values read at the start    *)
(* (ManagerInv).                                                           *)
(*                                                                         *)
(* ServicesProofs draws the theorems from the two invariants.              *)
(***************************************************************************)
EXTENDS GatePart, ManagerPart, WellFoundedInduction, TLAPS

----------------------------------------------------------------------------
(* The gateway (jwt.rs, auth.rs, handlers.rs).                             *)
PeerInfo == [display_name : STRING, nat_type : Int, status : Int]
RequestBody == [display_name : STRING, nat_type : SUBSET STRING, status : SUBSET STRING]
IssuedToken == [sub : Owners, iat : Nat, nbf : Nat, exp : Nat, key : Nat \ {0}]
GateRequest ==
  [op : Gate!Ops \cup {"none"}, at : {"free", "handler", "write", "target"}, auth : Owners \cup {""},
   peer : Owners \cup {""}, body : RequestBody \cup {{}}, existing : SUBSET PeerInfo]

GateTyped ==
  /\ wall \in Nat /\ key \in Nat \ {0}
  /\ tokens \subseteq IssuedToken
  /\ reqs \in [Slots -> GateRequest]
  /\ sessions \subseteq Owners
  /\ \A p \in DOMAIN peers : peers[p] \in PeerInfo
  /\ answer \in [how : {"nothing", "admitted", "refused"}, token : IssuedToken \cup {Gate!NoToken}]

(* A token is as create_jwt makes it, and the last one that was looked at  *)
(* is one of those or none.                                                *)
TokensIssued ==
  /\ \A t \in tokens : t.nbf = t.iat /\ t.exp = t.iat + ExpirySecs
  /\ answer.how # "nothing" => answer.token \in tokens \cup {Gate!NoToken}

(* A request that stores a peer has its arguments.                         *)
HaveArguments ==
  \A r \in Slots :
    (reqs[r].at # "free" /\ reqs[r].op \in {"register", "PUT"}) =>
      reqs[r].body \in RequestBody /\ reqs[r].peer \in Owners

GateInv == GateTyped /\ TokensIssued /\ HaveArguments /\ Gate!TokensOpen /\ Gate!InsideRegistered

----------------------------------------------------------------------------
(* A table of texts that are all different, UNKNOWN not among them, leads  *)
(* back to the number, and a number without a text to the default.         *)
LEMMA ParsedShown ==
  ASSUME NEW names, Len(names) \in Nat, NEW n \in Int,
         \A i, j \in 1 .. Len(names) : names[i] = names[j] => i = j,
         \A i \in 1 .. Len(names) : names[i] # "UNKNOWN"
  PROVE  Gate!Parsed(names, {Gate!Shown(names, n)}, n) = n
<1>1. \A m \in Gate!Numbers(names) : m \in Int /\ m + 1 \in 1 .. Len(names)
  BY DEF Gate!Numbers
<1>2. CASE n \in Gate!Numbers(names)
  <2>1. Gate!Shown(names, n) = names[n + 1]
    BY <1>2 DEF Gate!Shown
  <2>2. \A m \in Gate!Numbers(names) : {names[n + 1]} = {names[m + 1]} <=> m = n
    <3> SUFFICES ASSUME NEW m \in Gate!Numbers(names), names[n + 1] = names[m + 1]
                 PROVE  m = n
      BY Zenon
    <3>1. n + 1 = m + 1
      BY <1>1, <1>2
    <3> QED BY <1>1, <3>1
  <2>3. (CHOOSE m \in Gate!Numbers(names) : {names[n + 1]} = {names[m + 1]}) = n
    BY <1>2, <2>2
  <2> QED BY <1>2, <2>1, <2>3 DEF Gate!Parsed
<1>3. CASE n \notin Gate!Numbers(names)
  <2>1. Gate!Shown(names, n) = "UNKNOWN"
    BY <1>3 DEF Gate!Shown
  <2>2. \A m \in Gate!Numbers(names) : names[m + 1] # "UNKNOWN"
    BY <1>1
  <2> QED BY <2>1, <2>2, SMTT(30) DEF Gate!Parsed
<1> QED BY <1>2, <1>3

LEMMA NatTypeBack ==
  ASSUME NEW n \in Int
  PROVE  Gate!nat_type_of({Gate!nat_type_str(n)}, n) = n
<1>1. Len(Gate!NatTypes) = 5
  BY DEF Gate!NatTypes
<1>2. \A i, j \in 1 .. 5 : Gate!NatTypes[i] = Gate!NatTypes[j] => i = j
  BY DEF Gate!NatTypes
<1>3. \A i \in 1 .. 5 : Gate!NatTypes[i] # "UNKNOWN"
  BY DEF Gate!NatTypes
<1> QED BY <1>1, <1>2, <1>3, ParsedShown DEF Gate!nat_type_of, Gate!nat_type_str

LEMMA StatusBack ==
  ASSUME NEW n \in Int
  PROVE  Gate!status_of({Gate!peer_status_str(n)}, n) = n
<1>1. Len(Gate!Statuses) = 3
  BY DEF Gate!Statuses
<1>2. \A i, j \in 1 .. 3 : Gate!Statuses[i] = Gate!Statuses[j] => i = j
  BY DEF Gate!Statuses
<1>3. \A i \in 1 .. 3 : Gate!Statuses[i] # "UNKNOWN"
  BY DEF Gate!Statuses
<1> QED BY <1>1, <1>2, <1>3, ParsedShown DEF Gate!status_of, Gate!peer_status_str

LEMMA NumbersOf ==
  ASSUME NEW text, NEW default \in Int
  PROVE  Gate!nat_type_of(text, default) \in Int /\ Gate!status_of(text, default) \in Int
<1>1. ASSUME NEW names PROVE Gate!Parsed(names, text, default) \in Int
  <2>1. Gate!Numbers(names) \subseteq Int
    BY DEF Gate!Numbers
  <2> QED BY <2>1 DEF Gate!Parsed
<1> QED BY <1>1 DEF Gate!nat_type_of, Gate!status_of

(* PUTting back what GET shows changes nothing.                            *)
LEMMA ShownBack ==
  ASSUME NEW info \in PeerInfo
  PROVE  Gate!updated(info, Gate!PeerResponse(info)) = info
<1> DEFINE shown == Gate!PeerResponse(info)
<1>1. /\ shown.display_name = info.display_name
      /\ shown.nat_type = {Gate!nat_type_str(info.nat_type)}
      /\ shown.status = {Gate!peer_status_str(info.status)}
  BY DEF Gate!PeerResponse
<1>2. info.nat_type \in Int /\ info.status \in Int
  BY DEF PeerInfo
<1>3. /\ Gate!nat_type_of(shown.nat_type, info.nat_type) = info.nat_type
      /\ Gate!status_of(shown.status, info.status) = info.status
  BY <1>1, <1>2, NatTypeBack, StatusBack, Zenon
<1> HIDE DEF shown
<1>4. Gate!updated(info, shown) = info
  BY <1>1, <1>3, Zenon DEF Gate!updated, PeerInfo
<1> QED BY <1>4 DEF shown

LEMMA UpdatedIsInfo ==
  ASSUME NEW info \in PeerInfo, NEW body \in RequestBody
  PROVE  Gate!updated(info, body) \in PeerInfo
<1>1. /\ Gate!nat_type_of(body.nat_type, info.nat_type) \in Int
      /\ Gate!status_of(body.status, info.status) \in Int
  BY NumbersOf DEF PeerInfo
<1> QED BY <1>1, Zenon DEF Gate!updated, PeerInfo, RequestBody

(* A token is let through exactly in the seconds it is for.                *)
LEMMA TokenDecides ==
  ASSUME GateInv, NEW t \in tokens \cup {Gate!NoToken}
  PROVE  (t # Gate!NoToken /\ Gate!verify_jwt(t))
           <=> \E u \in tokens : u = t /\ u.key = key /\ wall \in u.iat .. u.iat + ExpirySecs
<1>1. CASE t = Gate!NoToken
  <2>1. \A u \in tokens : u.key # 0
    BY DEF GateInv, GateTyped, IssuedToken
  <2>2. Gate!NoToken.key = 0
    BY DEF Gate!NoToken
  <2> QED BY <1>1, <2>1, <2>2
<1>2. CASE t \in tokens
  <2>1. t.key # 0 /\ t.iat \in Nat /\ t.nbf = t.iat /\ t.exp = t.iat + ExpirySecs
    BY <1>2 DEF GateInv, GateTyped, TokensIssued, IssuedToken
  <2>2. t # Gate!NoToken
    BY <2>1 DEF Gate!NoToken
  <2>3. wall \in Nat /\ ExpirySecs \in Nat
    BY GateAssumption DEF GateInv, GateTyped
  <2>4. Gate!verify_jwt(t) <=> (t.key = key /\ wall \in t.iat .. t.iat + ExpirySecs)
    BY <2>1, <2>3 DEF Gate!verify_jwt
  <2> QED BY <1>2, <2>2, <2>4
<1> QED BY <1>1, <1>2

----------------------------------------------------------------------------
(* What a step leaves true that decides on no token and drops none.        *)
LEMMA TokensKept ==
  ASSUME GateInv, wall' = wall, key' = key, answer' = answer, tokens \subseteq tokens'
  PROVE  Gate!TokensOpen'
<1>1. \A t : t.key = key => t # Gate!NoToken
  BY DEF GateInv, GateTyped, Gate!NoToken
<1>2. answer.how # "nothing" => \A t \in tokens' : (t = answer.token /\ t.key = key) => t \in tokens
  BY <1>1 DEF GateInv, TokensIssued
<1> QED BY <1>2 DEF GateInv, Gate!TokensOpen

LEMMA InsideKept ==
  ASSUME GateInv, key' = key, tokens \subseteq tokens', sessions' = sessions,
         \A r \in Slots : \/ reqs'[r].at = "free"
                          \/ /\ reqs[r].at # "free"
                             /\ reqs'[r].op = reqs[r].op /\ reqs'[r].auth = reqs[r].auth
  PROVE  Gate!InsideRegistered'
BY DEF GateInv, Gate!InsideRegistered, Gate!is_public_path

(* A request that ends, or that never began, is no request.                *)
LEMMA FreeSlot == Gate!Free \in GateRequest /\ Gate!Free.at = "free"
BY DEF Gate!Free, GateRequest

LEMMA DoneKeeps ==
  ASSUME GateInv, NEW r \in Slots, Gate!Done(r)
  PROVE  /\ reqs' \in [Slots -> GateRequest] /\ HaveArguments'
         /\ \A s \in Slots : reqs'[s].at = "free" \/ reqs'[s] = reqs[s]
<1>1. \A s \in Slots : reqs'[s] = IF s = r THEN Gate!Free ELSE reqs[s]
  BY DEF Gate!Done, GateInv, GateTyped
<1> QED BY <1>1, FreeSlot DEF Gate!Done, GateInv, GateTyped, HaveArguments

(* Storing an entry, or taking one away, leaves entries.                   *)
LEMMA StoredKeeps ==
  ASSUME GateInv, NEW p, NEW info \in PeerInfo
  PROVE  \A q \in DOMAIN Gate!Stored(p, info) : Gate!Stored(p, info)[q] \in PeerInfo
BY DEF GateInv, GateTyped, Gate!Stored, Gate!Registered

(* A handler that ends and has left the registry well formed.              *)
LEMMA HandlerEnds ==
  ASSUME GateInv, NEW r \in Slots, Gate!Done(r), UNCHANGED <<wall, key, tokens, sessions, answer>>,
         \A p \in DOMAIN peers' : peers'[p] \in PeerInfo
  PROVE  GateInv'
<1>1. reqs' \in [Slots -> GateRequest] /\ HaveArguments'
  BY DoneKeeps
<1>2. \A s \in Slots : reqs'[s].at = "free" \/ reqs'[s] = reqs[s]
  BY DoneKeeps
<1>3. GateTyped' /\ TokensIssued'
  BY <1>1 DEF GateInv, GateTyped, TokensIssued
<1>4. Gate!TokensOpen'
  BY TokensKept
<1>5. Gate!InsideRegistered'
  BY <1>2, InsideKept
<1> QED BY <1>1, <1>3, <1>4, <1>5 DEF GateInv

LEMMA AnswersKeeps ==
  ASSUME GateInv, NEW r \in Slots, Gate!Answers(r)
  PROVE  GateInv'
<1>1. \A p \in DOMAIN peers' : peers'[p] \in PeerInfo
  BY DEF Gate!Answers, GateInv, GateTyped
<1> QED BY <1>1, HandlerEnds DEF Gate!Answers

----------------------------------------------------------------------------
(* One lemma for each kind of step.                                        *)
LEMMA MiddlewareKeeps ==
  ASSUME GateInv, NEW r \in Slots, NEW o \in Gate!Ops, NEW p \in Gate!PathOf(o),
         NEW token \in Gate!HeaderOf(o), NEW body \in Gate!BodyOf(o),
         Gate!auth_middleware(r, o, p, token, body)
  PROVE  GateInv'
<1> DEFINE admitted == token # Gate!NoToken /\ Gate!verify_jwt(token)
           inside(auth) == [op |-> o, at |-> "handler", auth |-> auth, peer |-> p,
                           body |-> body, existing |-> {}]
<1>1. token \in tokens \cup {Gate!NoToken}
  BY DEF Gate!HeaderOf
<1>2. admitted <=> \E u \in tokens : u = token /\ u.key = key /\ wall \in u.iat .. u.iat + ExpirySecs
  BY <1>1, TokenDecides
<1>3. ASSUME NEW auth \in Owners \cup {""}
      PROVE  /\ inside(auth) \in GateRequest
             /\ o \in {"register", "PUT"} => body \in RequestBody /\ p \in Owners
  BY GateAssumption, Zenon DEF GateRequest, Gate!PathOf, Gate!BodyOf, RequestBody
<1> HIDE DEF admitted
<1>4. UNCHANGED <<wall, key, peers, tokens, sessions>>
  BY Zenon DEF Gate!auth_middleware
<1>5. CASE Gate!is_public_path(o)
  <2>1. reqs' = [reqs EXCEPT ![r] = inside("")] /\ answer' = Gate!Silent
    BY <1>5, Zenon DEF Gate!auth_middleware
  <2>2. /\ \A s \in Slots : s # r => reqs'[s] = reqs[s]
        /\ reqs'[r].op = o /\ reqs'[r].body = body /\ reqs'[r].peer = p
    BY <2>1, Zenon DEF GateInv, GateTyped
  <2>3. answer'.how = "nothing" /\ answer' \in [how : {"nothing", "admitted", "refused"}, token : IssuedToken \cup {Gate!NoToken}]
    BY <2>1, Zenon DEF Gate!Silent
  <2>4. GateTyped'
    BY <1>3, <1>4, <2>1, <2>3, Zenon DEF GateInv, GateTyped
  <2>5. TokensIssued' /\ Gate!TokensOpen'
    BY <1>4, <2>3, Zenon DEF GateInv, TokensIssued, Gate!TokensOpen
  <2>6. HaveArguments'
    BY <1>3, <2>2, Zenon DEF GateInv, HaveArguments
  <2>7. Gate!InsideRegistered'
    BY <1>4, <1>5, <2>2 DEF GateInv, Gate!InsideRegistered, Gate!is_public_path
  <2> QED BY <2>4, <2>5, <2>6, <2>7 DEF GateInv
<1>6. CASE ~Gate!is_public_path(o)
  <2>1. /\ IF admitted THEN reqs' = [reqs EXCEPT ![r] = inside(token.sub)] ELSE reqs' = reqs
        /\ answer' = [how |-> IF admitted THEN "admitted" ELSE "refused", token |-> token]
    BY <1>6 DEF Gate!auth_middleware, admitted
  <2>2. token \in IssuedToken \cup {Gate!NoToken}
    BY <1>1 DEF GateInv, GateTyped
  <2>3. /\ answer' \in [how : {"nothing", "admitted", "refused"}, token : IssuedToken \cup {Gate!NoToken}]
        /\ answer'.token = token /\ (answer'.how = "admitted" <=> admitted)
    BY <2>1, <2>2
  <2>4. TokensIssued' /\ Gate!TokensOpen'
    BY <1>1, <1>2, <1>4, <2>3 DEF GateInv, TokensIssued, Gate!TokensOpen
  <2>5. CASE admitted
    <3>1. token \in tokens /\ token.key = key /\ token.sub \in Owners
      BY <1>2, <2>5 DEF GateInv, GateTyped, IssuedToken
    <3>2. /\ \A s \in Slots : s # r => reqs'[s] = reqs[s]
          /\ reqs'[r].op = o /\ reqs'[r].body = body /\ reqs'[r].peer = p
          /\ reqs'[r].auth = token.sub
      BY <2>1, <2>5 DEF GateInv, GateTyped
    <3>3. GateTyped'
      <4>1. inside(token.sub) \in GateRequest
        BY <1>3, <3>1, Zenon
      <4>2. reqs' \in [Slots -> GateRequest]
        BY <2>1, <2>5, <4>1 DEF GateInv, GateTyped
      <4> QED BY <1>4, <2>3, <4>2 DEF GateInv, GateTyped
    <3>4. HaveArguments'
      <4>1. o \in {"register", "PUT"} => body \in RequestBody /\ p \in Owners
        BY <1>3, <3>1, Zenon
      <4> QED BY <3>2, <4>1, Zenon DEF GateInv, HaveArguments
    <3>5. Gate!InsideRegistered'
      <4>1. token.sub \in {t.sub : t \in {u \in tokens : u.key = key}}
        BY <3>1
      <4> QED BY <1>4, <3>2, <4>1 DEF GateInv, Gate!InsideRegistered, Gate!is_public_path
    <3> QED BY <2>4, <3>3, <3>4, <3>5 DEF GateInv
  <2>6. CASE ~admitted
    <3>1. reqs' = reqs
      BY <2>1, <2>6
    <3>2. GateTyped' /\ HaveArguments' /\ Gate!InsideRegistered'
      BY <1>4, <2>3, <3>1 DEF GateInv, GateTyped, HaveArguments, Gate!InsideRegistered
    <3> QED BY <2>4, <3>2 DEF GateInv
  <2> QED BY <2>5, <2>6
<1> QED BY <1>5, <1>6

LEMMA RegisterKeeps ==
  ASSUME GateInv, NEW r \in Slots, Gate!register_peer(r)
  PROVE  GateInv'
<1> DEFINE q == reqs[r]
           info == [display_name |-> q.body.display_name,
                    nat_type |-> Gate!nat_type_of(q.body.nat_type, 0),
                    status |-> Gate!status_of(q.body.status, 0)]
<1>1. CASE Gate!Answers(r)
  BY <1>1, AnswersKeeps
<1>2. CASE /\ peers' = Gate!Stored(q.peer, info)
           /\ tokens' = tokens \cup {Gate!create_jwt(q.peer)}
           /\ Gate!Done(r) /\ UNCHANGED <<wall, key, sessions, answer>>
  <2>1. q.body \in RequestBody /\ q.peer \in Owners
    BY DEF Gate!register_peer, Gate!At, GateInv, HaveArguments
  <2>2. info \in PeerInfo
    BY <2>1, NumbersOf DEF PeerInfo, RequestBody
  <2> HIDE DEF info
  <2>3. \A p \in DOMAIN peers' : peers'[p] \in PeerInfo
    BY <1>2, <2>2, StoredKeeps
  <2>4. /\ Gate!create_jwt(q.peer) \in IssuedToken
        /\ Gate!create_jwt(q.peer).nbf = Gate!create_jwt(q.peer).iat
        /\ Gate!create_jwt(q.peer).exp = Gate!create_jwt(q.peer).iat + ExpirySecs
    BY <2>1, GateAssumption DEF Gate!create_jwt, IssuedToken, GateInv, GateTyped
  <2>5. /\ reqs' \in [Slots -> GateRequest] /\ HaveArguments'
        /\ \A s \in Slots : reqs'[s].at = "free" \/ reqs'[s] = reqs[s]
    BY <1>2, DoneKeeps
  <2>6. GateTyped' /\ TokensIssued'
    BY <1>2, <2>3, <2>4, <2>5 DEF GateInv, GateTyped, TokensIssued
  <2>7. Gate!TokensOpen'
    BY <1>2, TokensKept
  <2>8. Gate!InsideRegistered'
    BY <1>2, <2>5, InsideKept
  <2> QED BY <2>5, <2>6, <2>7, <2>8 DEF GateInv
<1> QED BY <1>1, <1>2 DEF Gate!register_peer

LEMMA UpdateReadKeeps ==
  ASSUME GateInv, NEW r \in Slots, Gate!update_peer_read(r)
  PROVE  GateInv'
<1> DEFINE q == reqs[r]
<1>1. CASE Gate!Answers(r)
  BY <1>1, AnswersKeeps
<1>2. CASE /\ q.peer \in Gate!Registered
           /\ reqs' = [reqs EXCEPT ![r] = [q EXCEPT !.at = "write", !.existing = {peers[q.peer]}]]
           /\ UNCHANGED <<wall, key, peers, tokens, sessions, answer>>
  <2>1. q \in GateRequest /\ peers[q.peer] \in PeerInfo /\ q.at = "handler"
    BY <1>2 DEF GateInv, GateTyped, Gate!Registered, Gate!update_peer_read, Gate!At
  <2>2. [q EXCEPT !.at = "write", !.existing = {peers[q.peer]}] \in GateRequest
    BY <2>1, Zenon DEF GateRequest
  <2>3. reqs' \in [Slots -> GateRequest]
    BY <1>2, <2>2 DEF GateInv, GateTyped
  <2>4. /\ \A s \in Slots : s # r => reqs'[s] = reqs[s]
        /\ reqs'[r].op = q.op /\ reqs'[r].auth = q.auth
        /\ reqs'[r].body = q.body /\ reqs'[r].peer = q.peer
    BY <1>2, <2>1, Zenon DEF GateInv, GateTyped, GateRequest
  <2>5. GateTyped' /\ TokensIssued'
    BY <1>2, <2>3 DEF GateInv, GateTyped, TokensIssued
  <2>6. HaveArguments'
    BY <2>1, <2>4 DEF GateInv, HaveArguments
  <2>7. Gate!TokensOpen'
    BY <1>2, TokensKept
  <2>8. Gate!InsideRegistered'
    BY <1>2, <2>1, <2>4 DEF GateInv, Gate!InsideRegistered, Gate!is_public_path
  <2> QED BY <2>5, <2>6, <2>7, <2>8 DEF GateInv
<1> QED BY <1>1, <1>2 DEF Gate!update_peer_read

LEMMA UpdateWriteKeeps ==
  ASSUME GateInv, NEW r \in Slots, Gate!update_peer_write(r)
  PROVE  GateInv'
<1>1. reqs[r].body \in RequestBody
  BY DEF Gate!update_peer_write, Gate!At, GateInv, HaveArguments
<1>2. PICK old \in reqs[r].existing : peers' = Gate!Stored(reqs[r].peer, Gate!updated(old, reqs[r].body))
  BY Zenon DEF Gate!update_peer_write
<1>3. old \in PeerInfo
  BY Zenon DEF GateInv, GateTyped, GateRequest
<1>4. Gate!updated(old, reqs[r].body) \in PeerInfo
  BY <1>1, <1>3, UpdatedIsInfo
<1>5. \A p \in DOMAIN peers' : peers'[p] \in PeerInfo
  BY <1>2, <1>4, StoredKeeps
<1> QED BY <1>5, HandlerEnds DEF Gate!update_peer_write

LEMMA UnregisterKeeps ==
  ASSUME GateInv, NEW r \in Slots, Gate!unregister_peer(r)
  PROVE  GateInv'
<1>1. \A p \in DOMAIN peers' : peers'[p] \in PeerInfo
  BY DEF Gate!unregister_peer, GateInv, GateTyped, Gate!Registered
<1> QED BY <1>1, HandlerEnds DEF Gate!unregister_peer

LEMMA ProxyTokenKeeps ==
  ASSUME GateInv, NEW r \in Slots, Gate!issue_proxy_token(r)
  PROVE  GateInv'
<1>1. CASE Gate!Answers(r)
  BY <1>1, AnswersKeeps
<1>2. CASE /\ Gate!At(r, "proxy-token", "handler") /\ reqs' = [reqs EXCEPT ![r].at = "target"]
           /\ UNCHANGED <<wall, key, peers, tokens, sessions, answer>>
  <2>1. reqs[r] \in GateRequest /\ reqs[r].at = "handler"
    BY <1>2 DEF GateInv, GateTyped, Gate!At
  <2>2. reqs' \in [Slots -> GateRequest]
    BY <1>2, <2>1, Zenon DEF GateInv, GateTyped, GateRequest
  <2>3. \A s \in Slots :
          /\ reqs[s].at = reqs'[s].at \/ reqs[s].at # "free"
          /\ reqs'[s].op = reqs[s].op /\ reqs'[s].auth = reqs[s].auth
          /\ reqs'[s].body = reqs[s].body /\ reqs'[s].peer = reqs[s].peer
    BY <1>2, <2>1, Zenon DEF GateInv, GateTyped, GateRequest
  <2>4. GateTyped' /\ TokensIssued'
    BY <1>2, <2>2 DEF GateInv, GateTyped, TokensIssued
  <2>5. HaveArguments'
    BY <2>3, Zenon DEF GateInv, HaveArguments
  <2>6. Gate!TokensOpen'
    BY <1>2, TokensKept
  <2>7. Gate!InsideRegistered'
    BY <1>2, <2>3, InsideKept
  <2> QED BY <2>4, <2>5, <2>6, <2>7 DEF GateInv
<1> QED BY <1>1, <1>2 DEF Gate!issue_proxy_token

LEMMA UpgradeKeeps ==
  ASSUME GateInv, NEW r \in Slots, NEW token \in tokens \cup {Gate!NoToken}, Gate!ws_upgrade(r, token)
  PROVE  GateInv'
<1> DEFINE admitted == token # Gate!NoToken /\ Gate!verify_jwt(token)
<1>1. admitted <=> \E u \in tokens : u = token /\ u.key = key /\ wall \in u.iat .. u.iat + ExpirySecs
  BY TokenDecides
<1>2. /\ sessions' = IF admitted THEN sessions \cup {token.sub} ELSE sessions
      /\ answer' = [how |-> IF admitted THEN "admitted" ELSE "refused", token |-> token]
      /\ Gate!Done(r) /\ UNCHANGED <<wall, key, peers, tokens>>
  BY DEF Gate!ws_upgrade
<1> HIDE DEF admitted
<1>3. token \in IssuedToken \cup {Gate!NoToken}
  BY DEF GateInv, GateTyped
<1>4. /\ answer' \in [how : {"nothing", "admitted", "refused"}, token : IssuedToken \cup {Gate!NoToken}]
      /\ answer'.token = token /\ (answer'.how = "admitted" <=> admitted)
  BY <1>2, <1>3
<1>5. /\ reqs' \in [Slots -> GateRequest] /\ HaveArguments'
      /\ \A s \in Slots : reqs'[s].at = "free" \/ reqs'[s] = reqs[s]
  BY <1>2, DoneKeeps
<1>6. admitted => token.sub \in Owners /\ token.sub \in {t.sub : t \in {u \in tokens : u.key = key}}
  BY <1>1 DEF GateInv, GateTyped, IssuedToken
<1>7. GateTyped'
  BY <1>2, <1>4, <1>5, <1>6 DEF GateInv, GateTyped
<1>8. TokensIssued' /\ Gate!TokensOpen'
  BY <1>1, <1>2, <1>4 DEF GateInv, TokensIssued, Gate!TokensOpen
<1>9. Gate!InsideRegistered'
  BY <1>2, <1>5, <1>6 DEF GateInv, Gate!InsideRegistered
<1> QED BY <1>5, <1>7, <1>8, <1>9 DEF GateInv

(* Sessions, evictions, restarts and the clock decide on no token.         *)
LEMMA OutsideKeeps ==
  ASSUME GateInv,
         \/ \E p \in Owners, info \in SessionInfos : Gate!session_registers(p, info)
         \/ \E p \in Gate!Registered : Gate!Evicted(p)
         \/ Gate!Restart \/ Gate!ClockSet
  PROVE  GateInv'
<1>1. Gate!Silent.how = "nothing" /\ Gate!Silent \in [how : {"nothing", "admitted", "refused"}, token : IssuedToken \cup {Gate!NoToken}]
  BY DEF Gate!Silent
<1>2. ASSUME NEW p \in Owners, NEW info \in SessionInfos, Gate!session_registers(p, info) PROVE GateInv'
  <2>1. \A q \in DOMAIN peers' : peers'[q] \in PeerInfo
    BY <1>2, StoredKeeps, GateAssumption DEF Gate!session_registers, PeerInfo
  <2> QED BY <1>1, <1>2, <2>1
       DEF Gate!session_registers, GateInv, GateTyped, TokensIssued, HaveArguments, Gate!TokensOpen, Gate!InsideRegistered
<1>3. ASSUME NEW p \in Gate!Registered, Gate!Evicted(p) PROVE GateInv'
  <2>1. \A q \in DOMAIN peers' : peers'[q] \in PeerInfo
    BY <1>3 DEF Gate!Evicted, GateInv, GateTyped, Gate!Registered
  <2> QED BY <1>1, <1>3, <2>1
       DEF Gate!Evicted, GateInv, GateTyped, TokensIssued, HaveArguments, Gate!TokensOpen, Gate!InsideRegistered
<1>4. CASE Gate!Restart
  <2>1. key' \in Nat \ {0}
    BY <1>4 DEF Gate!Restart, GateInv, GateTyped
  <2>2. \A q \in DOMAIN peers' : peers'[q] \in PeerInfo
    BY <1>4 DEF Gate!Restart
  <2>3. reqs' \in [Slots -> GateRequest] /\ \A s \in Slots : reqs'[s].at = "free"
    BY <1>4, FreeSlot, SMTT(30) DEF Gate!Restart
  <2> QED BY <1>1, <1>4, <2>1, <2>2, <2>3
       DEF Gate!Restart, GateInv, GateTyped, TokensIssued, HaveArguments, Gate!TokensOpen, Gate!InsideRegistered
<1>5. CASE Gate!ClockSet
  <2>1. wall' \in Nat
    BY <1>5, GateAssumption DEF Gate!ClockSet
  <2> QED BY <1>1, <1>5, <2>1
       DEF Gate!ClockSet, GateInv, GateTyped, TokensIssued, HaveArguments, Gate!TokensOpen, Gate!InsideRegistered
<1> QED BY <1>2, <1>3, <1>4, <1>5

----------------------------------------------------------------------------
LEMMA GateInitially ==
  ASSUME Gate!Init
  PROVE  GateInv
<1>1. GateTyped
  BY FreeSlot DEF Gate!Init, GateTyped, Gate!Silent
<1>2. \A r \in Slots : reqs[r].at = "free"
  BY FreeSlot DEF Gate!Init
<1> QED BY <1>1, <1>2
     DEF Gate!Init, GateInv, TokensIssued, HaveArguments, Gate!TokensOpen, Gate!InsideRegistered, Gate!Silent

LEMMA GateStep ==
  ASSUME GateInv, Gate!Next
  PROVE  GateInv'
<1>1. ASSUME NEW r \in Slots, Gate!looks(r) PROVE GateInv'
  BY <1>1, AnswersKeeps DEF Gate!looks
<1> QED BY <1>1, MiddlewareKeeps, RegisterKeeps, UpdateReadKeeps, UpdateWriteKeeps,
           UnregisterKeeps, ProxyTokenKeeps, UpgradeKeeps, OutsideKeeps DEF Gate!Next

LEMMA GateStutter ==
  ASSUME GateInv, UNCHANGED Gate!vars
  PROVE  GateInv'
BY Zenon DEF Gate!vars, GateInv, GateTyped, TokensIssued, HaveArguments, Gate!TokensOpen, Gate!InsideRegistered

LEMMA GateHolds ==
  ASSUME GateInv
  PROVE  Gate!Honest
<1>1. ASSUME NEW p \in Gate!Registered
      PROVE  Gate!updated(peers[p], Gate!PeerResponse(peers[p])) = peers[p]
  BY ShownBack DEF GateInv, GateTyped, Gate!Registered
<1> QED BY <1>1 DEF GateInv, Gate!Honest, Gate!ShownIsKept

----------------------------------------------------------------------------
(* The fallback chain (connection.rs).                                     *)

(* What Append adds to a sequence.                                         *)
LEMMA AppendFacts ==
  ASSUME NEW S, NEW q \in Seq(S), NEW x \in S
  PROVE  /\ Append(q, x) \in Seq(S) /\ Len(q) \in Nat
         /\ Len(Append(q, x)) = Len(q) + 1
         /\ \A i \in 1 .. Len(q) : Append(q, x)[i] = q[i]
         /\ Append(q, x)[Len(q) + 1] = x
OBVIOUS

(* What SubSeq takes from a sequence.                                      *)
LEMMA SubSeqFacts ==
  ASSUME NEW S, NEW q \in Seq(S), NEW m \in Nat, NEW n \in Nat, 1 <= m, m <= n + 1, n <= Len(q)
  PROVE  /\ SubSeq(q, m, n) \in Seq(S)
         /\ Len(SubSeq(q, m, n)) = n - m + 1
         /\ \A i \in 1 .. n - m + 1 : SubSeq(q, m, n)[i] = q[i + m - 1]
<1>1. Len(q) \in Nat /\ \A i \in 1 .. Len(q) : q[i] \in S
  OBVIOUS
<1>2. n - m + 1 \in Nat
  OBVIOUS
<1>3. SubSeq(q, m, n) = [i \in 1 .. n - m + 1 |-> q[i + m - 1]]
  OBVIOUS
<1>4. \A i \in 1 .. n - m + 1 : i + m - 1 \in 1 .. Len(q)
  BY <1>1
<1>5. [i \in 1 .. n - m + 1 |-> q[i + m - 1]] \in Seq(S)
  BY <1>1, <1>2, <1>4
<1>6. Len([i \in 1 .. n - m + 1 |-> q[i + m - 1]]) = n - m + 1
  BY <1>2
<1> QED BY <1>3, <1>5, <1>6

(* Induction over the naturals, for a set: the least number outside would  *)
(* have its predecessor inside.                                            *)
LEMMA SetInduction ==
  ASSUME NEW S, 0 \in S, \A n \in Nat : n \in S => n + 1 \in S
  PROVE  \A n \in Nat : n \in S
<1> DEFINE T == {n \in Nat : n \notin S}
           R == {p \in Nat \X Nat : p[1] < p[2]}
<1>1. IsWellFoundedOn(R, Nat)
  BY NatLessThanWellFounded DEF OpToRel
<1> SUFFICES ASSUME T # {} PROVE FALSE
  OBVIOUS
<1>2. T \subseteq Nat
  OBVIOUS
<1> HIDE DEF T, R
<1>3. PICK x \in T : \A y \in T : ~(<<y, x>> \in R)
  BY <1>1, <1>2, WFMin, Zenon
<1>4. x \in Nat /\ x # 0 /\ x \notin S
  BY DEF T
<1>5. x - 1 \in Nat /\ (x - 1) + 1 = x /\ <<x - 1, x>> \in R
  BY <1>4 DEF R
<1>6. x - 1 \notin T
  BY <1>3, <1>5
<1> QED BY <1>4, <1>5, <1>6 DEF T

(* What \o does to two sequences.                                          *)
LEMMA ConcatFacts ==
  ASSUME NEW S, NEW q \in Seq(S), NEW r \in Seq(S)
  PROVE  /\ q \o r \in Seq(S) /\ Len(q) \in Nat /\ Len(r) \in Nat
         /\ Len(q \o r) = Len(q) + Len(r)
         /\ \A i \in 1 .. Len(q) + Len(r) :
              (q \o r)[i] = IF i <= Len(q) THEN q[i] ELSE r[i - Len(q)]
OBVIOUS

LEMMA SameSequence ==
  ASSUME NEW S, NEW q \in Seq(S), NEW r \in Seq(S), Len(q) = Len(r),
         \A i \in 1 .. Len(q) : q[i] = r[i]
  PROVE  q = r
OBVIOUS

LEMMA ConcatEmpty ==
  ASSUME NEW S, NEW q \in Seq(S)
  PROVE  << >> \o q = q /\ q \o << >> = q /\ << >> \in Seq(S)
<1>1. << >> \in Seq(S) /\ Len(<< >>) = 0
  OBVIOUS
<1>2. << >> \o q = q
  BY <1>1, ConcatFacts, SameSequence
<1>3. q \o << >> = q
  BY <1>1, ConcatFacts, SameSequence
<1> QED BY <1>1, <1>2, <1>3

LEMMA ConcatAssociates ==
  ASSUME NEW S, NEW q \in Seq(S), NEW r \in Seq(S), NEW s \in Seq(S)
  PROVE  (q \o r) \o s = q \o (r \o s)
<1> DEFINE x == (q \o r) \o s
           y == q \o (r \o s)
<1>1. /\ q \o r \in Seq(S) /\ Len(q) \in Nat /\ Len(r) \in Nat /\ Len(s) \in Nat
      /\ Len(q \o r) = Len(q) + Len(r)
      /\ \A i \in 1 .. Len(q) + Len(r) :
           (q \o r)[i] = IF i <= Len(q) THEN q[i] ELSE r[i - Len(q)]
  BY ConcatFacts
<1>2. /\ r \o s \in Seq(S) /\ Len(r \o s) = Len(r) + Len(s)
      /\ \A i \in 1 .. Len(r) + Len(s) :
           (r \o s)[i] = IF i <= Len(r) THEN r[i] ELSE s[i - Len(r)]
  BY ConcatFacts
<1>3. /\ x \in Seq(S) /\ Len(x) = Len(q) + Len(r) + Len(s)
      /\ \A i \in 1 .. Len(q) + Len(r) + Len(s) :
           x[i] = IF i <= Len(q) + Len(r) THEN (q \o r)[i] ELSE s[i - (Len(q) + Len(r))]
  BY <1>1, ConcatFacts
<1>4. /\ y \in Seq(S) /\ Len(y) = Len(q) + Len(r) + Len(s)
      /\ \A i \in 1 .. Len(q) + Len(r) + Len(s) :
           y[i] = IF i <= Len(q) THEN q[i] ELSE (r \o s)[i - Len(q)]
  BY <1>1, <1>2, ConcatFacts
<1> HIDE DEF x, y
<1>5. ASSUME NEW i \in 1 .. Len(q) + Len(r) + Len(s)
      PROVE  x[i] = y[i]
  <2>1. CASE i <= Len(q)
    <3>1. i \in 1 .. Len(q) + Len(r) /\ i <= Len(q) + Len(r)
      BY <2>1, <1>1
    <3>2. x[i] = q[i]
      BY <2>1, <3>1, <1>1, <1>3
    <3>3. y[i] = q[i]
      BY <2>1, <1>4
    <3> QED BY <3>2, <3>3
  <2>2. CASE i > Len(q) /\ i <= Len(q) + Len(r)
    <3>1. i - Len(q) \in 1 .. Len(r) + Len(s) /\ i - Len(q) <= Len(r)
      BY <2>2, <1>1
    <3>2. y[i] = r[i - Len(q)]
      BY <2>2, <3>1, <1>1, <1>2, <1>4
    <3> QED BY <2>2, <3>2, <1>1, <1>3
  <2>3. CASE i > Len(q) + Len(r)
    <3>1. i - Len(q) \in 1 .. Len(r) + Len(s) /\ ~(i - Len(q) <= Len(r)) /\ ~(i <= Len(q))
      BY <2>3, <1>1
    <3>2. y[i] = s[(i - Len(q)) - Len(r)]
      BY <3>1, <1>2, <1>4
    <3>3. x[i] = s[i - (Len(q) + Len(r))]
      BY <2>3, <1>1, <1>3
    <3>4. (i - Len(q)) - Len(r) = i - (Len(q) + Len(r))
      BY <1>1
    <3> QED BY <3>2, <3>3, <3>4
  <2> QED BY <2>1, <2>2, <2>3, <1>1
<1>6. x = y
  BY <1>3, <1>4, <1>5, SameSequence
<1> QED BY <1>6 DEF x, y

(* Moving the first of the remaining attempts to the end of those made.    *)
LEMMA Advance ==
  ASSUME NEW S, NEW q \in Seq(S), NEW a \in S, NEW r \in Seq(S)
  PROVE  Append(q, a) \in Seq(S) /\ Append(q, a) \o r = q \o (<<a>> \o r)
<1>1. <<a>> \in Seq(S) /\ Append(q, a) \in Seq(S)
  OBVIOUS
<1>2. Append(q, a) = q \o <<a>>
  <2>1. /\ Len(<<a>>) = 1 /\ <<a>>[1] = a /\ Len(q) \in Nat
        /\ Len(Append(q, a)) = Len(q) + 1 /\ Append(q, a)[Len(q) + 1] = a
        /\ \A i \in 1 .. Len(q) : Append(q, a)[i] = q[i]
    BY AppendFacts
  <2>2. /\ q \o <<a>> \in Seq(S) /\ Len(q \o <<a>>) = Len(q) + 1
        /\ \A i \in 1 .. Len(q) + 1 : (q \o <<a>>)[i] = IF i <= Len(q) THEN q[i] ELSE <<a>>[i - Len(q)]
    BY <1>1, <2>1, ConcatFacts
  <2>3. \A i \in 1 .. Len(q) + 1 : i \in 1 .. Len(q) \/ (i = Len(q) + 1 /\ i - Len(q) = 1 /\ ~(i <= Len(q)))
    BY <2>1
  <2>4. \A i \in 1 .. Len(q) + 1 : Append(q, a)[i] = (q \o <<a>>)[i]
    BY <2>1, <2>2, <2>3
  <2> QED BY <1>1, <2>1, <2>2, <2>4, SameSequence
<1>3. (q \o <<a>>) \o r = q \o (<<a>> \o r)
  BY <1>1, ConcatAssociates
<1> QED BY <1>1, <1>2, <1>3

(* A sequence is a prefix of what it is continued to.                      *)
LEMMA PrefixFacts ==
  ASSUME NEW S, NEW q \in Seq(S), NEW r \in Seq(S), NEW t, q \o r = t
  PROVE  Len(q) <= Len(t) /\ q = SubSeq(t, 1, Len(q))
<1>1. /\ t \in Seq(S) /\ Len(q) \in Nat /\ Len(r) \in Nat /\ Len(t) = Len(q) + Len(r)
      /\ \A i \in 1 .. Len(q) + Len(r) : t[i] = IF i <= Len(q) THEN q[i] ELSE r[i - Len(q)]
  BY ConcatFacts, Zenon
<1>2. Len(q) <= Len(t) /\ \A i \in 1 .. Len(q) : t[i] = q[i]
  BY <1>1
<1>3. /\ SubSeq(t, 1, Len(q)) \in Seq(S) /\ Len(SubSeq(t, 1, Len(q))) = Len(q)
      /\ \A i \in 1 .. Len(q) : SubSeq(t, 1, Len(q))[i] = t[i]
  BY <1>1, <1>2, SubSeqFacts
<1> QED BY <1>2, <1>3, SameSequence


(* The attempts of the chain.                                              *)
ChainSteps == {"race", "ipv6direct", "open", "fallback", "predict", "http3", "http2"} \X Nat

(* One round of a loop over addresses, from the last one on.               *)
Round(f, name, addrs, i) ==
  IF addrs[i] = "ok" THEN <<<<name, i>>>> \o f[i + 1] ELSE f[i + 1]

(* A round adds an attempt or nothing.                                     *)
LEMMA RoundType ==
  ASSUME NEW name, NEW addrs, NEW i \in Nat, <<name, i>> \in ChainSteps,
         NEW f, f[i + 1] \in Seq(ChainSteps)
  PROVE  Round(f, name, addrs, i) \in Seq(ChainSteps)
<1> HIDE DEF ChainSteps
<1>1. <<<<name, i>>>> \in Seq(ChainSteps)
  OBVIOUS
<1>2. <<<<name, i>>>> \o f[i + 1] \in Seq(ChainSteps)
  BY <1>1, ConcatFacts
<1> QED BY <1>2 DEF Round

(* f lists the attempts of a loop over n addresses, from each one on.      *)
IsList(f, name, addrs, n) ==
  /\ f \in [1 .. n + 1 -> Seq(ChainSteps)] /\ f[n + 1] = << >>
  /\ \A i \in 1 .. n : f[i] = Round(f, name, addrs, i)

(* The recursive definition of the attempts of a loop has a solution, found *)
(* from the end of the list.                                               *)
LEMMA ListExists ==
  ASSUME NEW name, NEW addrs, NEW n \in Nat, \A i \in Nat : <<name, i>> \in ChainSteps
  PROVE  \E f : IsList(f, name, addrs, n)
<1> DEFINE Table(f, k) ==
             /\ f \in [1 .. n + 1 -> Seq(ChainSteps)] /\ f[n + 1] = << >>
             /\ \A i \in 1 .. n : i > n - k => f[i] = Round(f, name, addrs, i)
           S == {k \in Nat : \E f : Table(f, k)}
<1> HIDE DEF ChainSteps
<1>1. 0 \in S
  <2>1. Table([i \in 1 .. n + 1 |-> << >>], 0)
    OBVIOUS
  <2> QED BY <2>1, Zenon
<1>2. ASSUME NEW k \in Nat, k \in S PROVE k + 1 \in S
  <2>1. PICK f : Table(f, k)
    BY <1>2
  <2>2. CASE n - k < 1
    <3>1. Table(f, k + 1)
      BY <2>1, <2>2
    <3> QED BY <3>1
  <2>3. CASE n - k >= 1
    <3> DEFINE j == n - k
               r == Round(f, name, addrs, j)
               g == [f EXCEPT ![j] = r]
    <3>1. j \in Nat /\ j \in 1 .. n /\ j + 1 \in 1 .. n + 1 /\ j # j + 1
      BY <2>3
    <3>2. r \in Seq(ChainSteps)
      BY <2>1, <3>1, RoundType, Zenon
    <3> HIDE DEF j, r
    <3>3. /\ g \in [1 .. n + 1 -> Seq(ChainSteps)] /\ g[j] = r
          /\ \A i \in 1 .. n + 1 : i # j => g[i] = f[i]
      BY <2>1, <3>1, <3>2
    <3> HIDE DEF g
    <3>4. g[n + 1] = << >>
      BY <2>1, <3>1, <3>3
    <3>5. ASSUME NEW i \in 1 .. n, i > n - (k + 1)
          PROVE  g[i] = Round(g, name, addrs, i)
      <4>1. i + 1 \in 1 .. n + 1 /\ i + 1 # j /\ i \in 1 .. n + 1
        BY <3>5, <3>1 DEF j
      <4>2. g[i + 1] = f[i + 1]
        BY <4>1, <3>3
      <4>3. Round(g, name, addrs, i) = Round(f, name, addrs, i)
        BY <4>2 DEF Round
      <4>4. CASE i = j
        BY <4>3, <4>4, <3>3 DEF r
      <4>5. CASE i # j
        <5>1. i > n - k
          BY <3>5, <4>5 DEF j
        <5> QED BY <5>1, <4>1, <4>3, <4>5, <3>3, <2>1
      <4> QED BY <4>4, <4>5
    <3>6. Table(g, k + 1)
      BY <3>3, <3>4, <3>5
    <3> QED BY <3>6
  <2> QED BY <2>2, <2>3
<1> HIDE DEF S
<1>3. n \in S
  BY <1>1, <1>2, SetInduction
<1>4. PICK f : Table(f, n)
  BY <1>3 DEF S
<1>5. \A i \in 1 .. n : i > n - n
  OBVIOUS
<1>6. IsList(f, name, addrs, n)
  BY <1>4, <1>5 DEF IsList
<1> QED BY <1>6

(* The attempts of a loop over addresses, from each address on.            *)
LEMMA ListUnfolds ==
  ASSUME NEW name, NEW addrs \in Seq({"ok", "bad"}), \A i \in Nat : <<name, i>> \in ChainSteps
  PROVE  /\ Manager!ParsedFrom(name, addrs)[Len(addrs) + 1] = << >>
         /\ \A i \in 1 .. Len(addrs) :
              Manager!ParsedFrom(name, addrs)[i] = Round(Manager!ParsedFrom(name, addrs), name, addrs, i)
         /\ \A i \in 1 .. Len(addrs) + 1 : Manager!ParsedFrom(name, addrs)[i] \in Seq(ChainSteps)
<1> DEFINE n == Len(addrs)
           Step(f) == [i \in 1 .. n + 1 |->
                         IF i > n THEN << >>
                         ELSE IF addrs[i] = "ok" THEN <<<<name, i>>>> \o f[i + 1] ELSE f[i + 1]]
           F == Manager!ParsedFrom(name, addrs)
<1>1. n \in Nat
  OBVIOUS
<1>2. F = CHOOSE f : f = Step(f)
  BY Zenon DEF Manager!ParsedFrom
<1> HIDE DEF n, F, ChainSteps
<1>3. PICK f : IsList(f, name, addrs, n)
  BY <1>1, ListExists, Zenon
<1>4. f = Step(f)
  <2>1. ASSUME NEW i \in 1 .. n + 1 PROVE f[i] = Step(f)[i]
    <3>1. CASE i = n + 1
      BY <3>1, <1>1, <1>3 DEF IsList
    <3>2. CASE i # n + 1
      <4>1. i \in 1 .. n /\ ~(i > n)
        BY <3>2, <1>1
      <4>2. f[i] = Round(f, name, addrs, i)
        BY <4>1, <1>3 DEF IsList
      <4>3. Step(f)[i] = Round(f, name, addrs, i)
        BY <4>1 DEF Round
      <4> QED BY <4>2, <4>3
    <3> QED BY <3>1, <3>2
  <2>2. f = [i \in 1 .. n + 1 |-> f[i]]
    BY <1>3 DEF IsList
  <2>3. Step(f) = [i \in 1 .. n + 1 |-> Step(f)[i]]
    OBVIOUS
  <2> HIDE DEF Step
  <2> QED BY <2>1, <2>2, <2>3, Zenon
<1> HIDE DEF Step
<1>5. F = Step(F)
  BY <1>2, <1>4
<1>6. F[n + 1] = << >>
  <2>1. Step(F)[n + 1] = << >>
    BY <1>1 DEF Step
  <2> QED BY <2>1, <1>5
<1>7. ASSUME NEW i \in 1 .. n PROVE F[i] = Round(F, name, addrs, i)
  <2>1. Step(F)[i] = Round(F, name, addrs, i)
    BY <1>1 DEF Step, Round
  <2> QED BY <2>1, <1>5
<1>8. ASSUME NEW i \in 1 .. n + 1 PROVE F[i] \in Seq(ChainSteps)
  <2> DEFINE S == {k \in Nat : k <= n => F[n + 1 - k] \in Seq(ChainSteps)}
  <2>1. 0 \in S
    <3>1. n + 1 - 0 = n + 1
      BY <1>1
    <3>2. << >> \in Seq(ChainSteps)
      OBVIOUS
    <3>3. F[n + 1 - 0] \in Seq(ChainSteps)
      BY <3>1, <3>2, <1>6, Zenon
    <3> QED BY <3>3
  <2>2. ASSUME NEW k \in Nat, k \in S PROVE k + 1 \in S
    <3> SUFFICES ASSUME k + 1 <= n PROVE F[n + 1 - (k + 1)] \in Seq(ChainSteps)
      OBVIOUS
    <3> DEFINE j == n + 1 - (k + 1)
    <3>1. j \in 1 .. n /\ j \in Nat /\ j + 1 = n + 1 - k /\ k <= n
      BY <1>1
    <3> HIDE DEF j
    <3>2. F[j + 1] \in Seq(ChainSteps)
      BY <3>1, <2>2
    <3>3. Round(F, name, addrs, j) \in Seq(ChainSteps)
      BY <3>1, <3>2, RoundType, Zenon
    <3>4. F[j] \in Seq(ChainSteps)
      BY <3>1, <3>3, <1>7
    <3> QED BY <3>4 DEF j
  <2> HIDE DEF S
  <2>3. n + 1 - i \in S
    <3>1. n + 1 - i \in Nat
      BY <1>1
    <3> QED BY <3>1, <2>1, <2>2, SetInduction
  <2>4. n + 1 - i <= n /\ n + 1 - (n + 1 - i) = i
    BY <1>1
  <2> QED BY <2>3, <2>4 DEF S
<1> QED BY <1>6, <1>7, <1>8 DEF n, F


(* The attempts over the proxies, from each one on.                        *)
LEMMA RelaysUnfold ==
  ASSUME NEW c, NEW name, \A i \in Nat : <<name, i>> \in ChainSteps,
         Manager!Attempts(c.peer.proxies) \in Nat,
         NEW k \in 1 .. Manager!Attempts(c.peer.proxies) + 1
  PROVE  /\ Manager!RelaysFrom(c, name, k) \in Seq(ChainSteps)
         /\ k > Manager!Attempts(c.peer.proxies) => Manager!RelaysFrom(c, name, k) = << >>
         /\ k <= Manager!Attempts(c.peer.proxies) =>
              Manager!RelaysFrom(c, name, k) = <<<<name, k>>>> \o Manager!RelaysFrom(c, name, k + 1)
<1> DEFINE A == Manager!Attempts(c.peer.proxies)
           R(j) == [i \in 1 .. A - j + 1 |-> <<name, i + j - 1>>]
<1>1. \A j : Manager!RelaysFrom(c, name, j) = R(j)
  BY DEF Manager!RelaysFrom
<1>2. A \in Nat /\ k \in 1 .. A + 1
  OBVIOUS
<1> HIDE DEF A, ChainSteps
<1>3. ASSUME NEW j \in 1 .. A + 1
      PROVE  R(j) \in Seq(ChainSteps) /\ Len(R(j)) = A - j + 1
  <2>1. A - j + 1 \in Nat /\ \A i \in 1 .. A - j + 1 : i + j - 1 \in Nat
    BY <1>2
  <2>2. \A i \in 1 .. A - j + 1 : <<name, i + j - 1>> \in ChainSteps
    BY <2>1
  <2> QED BY <2>1, <2>2
<1>4. CASE k > A
  <2>1. k = A + 1 /\ A - k + 1 = 0
    BY <1>2, <1>4
  <2>2. R(k) = << >>
    BY <1>2, <1>3, <2>1
  <2> QED BY <1>1, <1>2, <1>3, <1>4, <2>2 DEF A
<1>5. CASE k <= A
  <2> DEFINE x == R(k)
             s == <<<<name, k>>>>
             y == R(k + 1)
  <2>1. /\ x \in Seq(ChainSteps) /\ Len(x) = A - k + 1
        /\ y \in Seq(ChainSteps) /\ Len(y) = A - k
    BY <1>2, <1>3, <1>5
  <2>2. s \in Seq(ChainSteps) /\ Len(s) = 1 /\ s[1] = <<name, k>>
    BY <1>2
  <2>3. /\ \A i \in 1 .. A - k + 1 : x[i] = <<name, i + k - 1>>
        /\ \A i \in 1 .. A - k : y[i] = <<name, i + (k + 1) - 1>>
    BY <1>2, <1>5
  <2> HIDE DEF x, s, y
  <2>4. /\ s \o y \in Seq(ChainSteps) /\ Len(s \o y) = 1 + (A - k)
        /\ \A i \in 1 .. 1 + (A - k) : (s \o y)[i] = IF i <= 1 THEN s[i] ELSE y[i - 1]
    <3>1. /\ s \o y \in Seq(ChainSteps) /\ Len(s \o y) = Len(s) + Len(y)
          /\ \A i \in 1 .. Len(s) + Len(y) :
               (s \o y)[i] = IF i <= Len(s) THEN s[i] ELSE y[i - Len(s)]
      BY <2>1, <2>2, ConcatFacts, Zenon
    <3>2. Len(s) = 1 /\ Len(y) = A - k
      BY <2>1, <2>2
    <3> QED BY <3>1, <3>2
  <2>5. ASSUME NEW i \in 1 .. A - k + 1 PROVE x[i] = (s \o y)[i]
    <3>1. CASE i = 1
      <4>1. i <= 1 /\ i \in 1 .. 1 + (A - k) /\ i + k - 1 = k
        BY <1>2, <1>5, <3>1
      <4> QED BY <3>1, <4>1, <2>2, <2>3, <2>4, Zenon
    <3>2. CASE i # 1
      <4>1. /\ ~(i <= 1) /\ i \in 1 .. 1 + (A - k) /\ i - 1 \in 1 .. A - k
            /\ (i - 1) + (k + 1) - 1 = i + k - 1
        BY <1>2, <1>5, <3>2
      <4>2. (s \o y)[i] = y[i - 1] /\ y[i - 1] = <<name, (i - 1) + (k + 1) - 1>>
        BY <4>1, <2>3, <2>4
      <4> QED BY <4>1, <4>2, <2>3
    <3> QED BY <3>1, <3>2, Zenon
  <2>6. 1 + (A - k) = A - k + 1
    BY <1>2
  <2>7. x = s \o y
    BY <2>1, <2>4, <2>5, <2>6, SameSequence, Zenon
  <2>8. R(k) = <<<<name, k>>>> \o R(k + 1)
    BY <2>7, Zenon DEF x, s, y
  <2> HIDE DEF R
  <2>9. R(k) \in Seq(ChainSteps) /\ ~(k > A)
    BY <1>2, <1>3, <1>5
  <2> QED BY <1>1, <2>8, <2>9, Zenon DEF A
<1>6. k > A \/ k <= A
  BY <1>2
<1> QED BY <1>4, <1>5, <1>6, Zenon

----------------------------------------------------------------------------
(* A call in progress.                                                     *)
CallRecords == [peer : Callees, local : SUBSET LocalNats, blocked : BOOLEAN]

(* The steps of the chain, and where it may be in each.                    *)
InChain(p) ==
  p \in {"ipv6", "race", "ipv6direct", "open", "fallback", "predict", "http3", "http2", "failed"}

Place(p, k, c) ==
  /\ p = "ipv6direct" => k \in 1 .. Len(c.peer.v6) + 1
  /\ p = "fallback" => k \in 1 .. Len(c.peer.v4) + 1
  /\ p \in {"http3", "http2"} => k \in 1 .. Manager!Attempts(c.peer.proxies) + 1
  /\ p = "http2" => c.peer.masque
  /\ p \in {"race", "ipv6direct", "fallback"} => ~c.blocked

(* What is left of the decision tree at the k-th round of step p.          *)
Left(p, k, c) ==
  IF p = "ipv6" THEN Manager!DecisionTree(c)
  ELSE IF p = "race" THEN Manager!FromRace(c)
  ELSE IF p = "ipv6direct" THEN Manager!ParsedFrom("ipv6direct", c.peer.v6)[k] \o Manager!FromOpen(c)
  ELSE IF p = "open" THEN Manager!FromOpen(c)
  ELSE IF p = "fallback" THEN Manager!ParsedFrom("fallback", c.peer.v4)[k] \o Manager!FromPrediction(c)
  ELSE IF p = "predict" THEN Manager!FromPrediction(c)
  ELSE IF p = "http3"
    THEN Manager!If(~c.blocked /\ c.peer.masque, Manager!RelaysFrom(c, "http3", k)) \o Manager!FromHttp2(c)
  ELSE IF p = "http2" THEN Manager!If(c.peer.masque, Manager!RelaysFrom(c, "http2", k))
  ELSE << >>

(* The lists of a call's peer, and the attempts by their names.            *)
LEMMA CallFacts ==
  ASSUME NEW c \in CallRecords
  PROVE  /\ c.peer \in Callees /\ c.local \in SUBSET LocalNats /\ c.blocked \in BOOLEAN
         /\ c.peer.v6 \in Seq({"ok", "bad"}) /\ c.peer.v4 \in Seq({"ok", "bad"})
         /\ Len(c.peer.v6) \in Nat /\ Len(c.peer.v4) \in Nat
         /\ Manager!Attempts(c.peer.proxies) \in Nat
<1>1. c.peer \in Callees /\ c.local \in SUBSET LocalNats /\ c.blocked \in BOOLEAN
  BY DEF CallRecords
<1>2. /\ c.peer.v6 \in Seq({"ok", "bad"}) /\ c.peer.v4 \in Seq({"ok", "bad"})
      /\ c.peer.proxies \in Nat /\ MaxProxies \in Nat
  BY <1>1, CalleeAssumption
<1> QED BY <1>1, <1>2 DEF Manager!Attempts

LEMMA StepNames ==
  \A i \in Nat : /\ <<"race", i>> \in ChainSteps /\ <<"ipv6direct", i>> \in ChainSteps
                 /\ <<"open", i>> \in ChainSteps /\ <<"fallback", i>> \in ChainSteps
                 /\ <<"predict", i>> \in ChainSteps /\ <<"http3", i>> \in ChainSteps
                 /\ <<"http2", i>> \in ChainSteps
BY DEF ChainSteps


(* A list put before another only if a condition holds.                    *)
LEMMA IfFacts ==
  ASSUME NEW S, NEW cond, NEW q \in Seq(S), NEW r \in Seq(S)
  PROVE  /\ Manager!If(cond, q) \in Seq(S) /\ Manager!If(cond, q) \o r \in Seq(S)
         /\ cond => Manager!If(cond, q) \o r = q \o r
         /\ ~cond => Manager!If(cond, q) \o r = r
<1>1. << >> \in Seq(S) /\ << >> \o r = r
  BY ConcatEmpty
<1>2. q \o r \in Seq(S)
  BY ConcatFacts
<1> QED BY <1>1, <1>2, Zenon DEF Manager!If

(* Two attempts lists after one.                                           *)
LEMMA OneThen ==
  ASSUME NEW S, NEW a \in S, NEW q \in Seq(S), NEW r \in Seq(S)
  PROVE  /\ <<a>> \in Seq(S) /\ <<a>> \o q \in Seq(S) /\ q \o r \in Seq(S)
         /\ (<<a>> \o q) \o r = <<a>> \o (q \o r)
<1>1. <<a>> \in Seq(S)
  OBVIOUS
<1> QED BY <1>1, ConcatFacts, ConcatAssociates

(* From each step on, the decision tree is a list of attempts.             *)
LEMMA TreeTypes ==
  ASSUME NEW c \in CallRecords
  PROVE  /\ Manager!FromHttp2(c) \in Seq(ChainSteps)
         /\ Manager!FromHttp3(c) \in Seq(ChainSteps)
         /\ Manager!FromPrediction(c) \in Seq(ChainSteps)
         /\ Manager!FromOpen(c) \in Seq(ChainSteps)
         /\ Manager!FromRace(c) \in Seq(ChainSteps)
         /\ Manager!DecisionTree(c) \in Seq(ChainSteps)
<1> DEFINE http2 == Manager!RelaysFrom(c, "http2", 1)
           http3 == Manager!RelaysFrom(c, "http3", 1)
           direct == Manager!ParsedFrom("ipv6direct", c.peer.v6)[1]
           fallback == Manager!ParsedFrom("fallback", c.peer.v4)[1]
<1>1. 1 \in 1 .. Manager!Attempts(c.peer.proxies) + 1 /\ Manager!Attempts(c.peer.proxies) \in Nat
  BY CallFacts
<1>2. http2 \in Seq(ChainSteps) /\ http3 \in Seq(ChainSteps)
  BY <1>1, StepNames, RelaysUnfold, Zenon
<1>3. direct \in Seq(ChainSteps) /\ fallback \in Seq(ChainSteps)
  <2>1. /\ c.peer.v6 \in Seq({"ok", "bad"}) /\ c.peer.v4 \in Seq({"ok", "bad"})
        /\ 1 \in 1 .. Len(c.peer.v6) + 1 /\ 1 \in 1 .. Len(c.peer.v4) + 1
    BY CallFacts
  <2> QED BY <2>1, StepNames, ListUnfolds, Zenon
<1> HIDE DEF http2, http3, direct, fallback
<1>4. /\ << >> \in Seq(ChainSteps) /\ <<<<"predict", 1>>>> \in Seq(ChainSteps)
      /\ <<<<"race", 1>>>> \in Seq(ChainSteps) /\ <<<<"open", 1>>>> \o fallback \in Seq(ChainSteps)
  <2>1. <<"predict", 1>> \in ChainSteps /\ <<"race", 1>> \in ChainSteps /\ <<"open", 1>> \in ChainSteps
    BY StepNames, Zenon
  <2> QED BY <1>3, <2>1, OneThen
<1>5. Manager!FromHttp2(c) \in Seq(ChainSteps)
  BY <1>2, <1>4, IfFacts DEF Manager!FromHttp2, http2
<1>6. Manager!FromHttp3(c) \in Seq(ChainSteps)
  BY <1>2, <1>5, IfFacts DEF Manager!FromHttp3, http3
<1>7. Manager!FromPrediction(c) \in Seq(ChainSteps)
  BY <1>4, <1>6, IfFacts, Zenon DEF Manager!FromPrediction
<1>8. Manager!FromOpen(c) \in Seq(ChainSteps)
  BY <1>4, <1>7, IfFacts, Zenon DEF Manager!FromOpen, Manager!EachParsed, fallback
<1>9. Manager!FromRace(c) \in Seq(ChainSteps)
  BY <1>4, <1>8, IfFacts, Zenon DEF Manager!FromRace
<1>10. Manager!DecisionTree(c) \in Seq(ChainSteps)
  <2>1. direct \o Manager!FromOpen(c) \in Seq(ChainSteps)
    BY <1>3, <1>8, ConcatFacts
  <2> QED BY <1>8, <1>9, <2>1 DEF Manager!DecisionTree, Manager!EachParsed, direct
<1> QED BY <1>5, <1>6, <1>7, <1>8, <1>9, <1>10, SMTT(30)

(* So is what is left of it.                                               *)
LEMMA LeftType ==
  ASSUME NEW c \in CallRecords, NEW p, NEW k, Place(p, k, c)
  PROVE  Left(p, k, c) \in Seq(ChainSteps)
<1>1. << >> \in Seq(ChainSteps)
  OBVIOUS
<1>2. CASE p = "ipv6direct"
  <2>1. Manager!ParsedFrom("ipv6direct", c.peer.v6)[k] \in Seq(ChainSteps)
    BY <1>2, CallFacts, StepNames, ListUnfolds, Zenon DEF Place
  <2>2. Manager!ParsedFrom("ipv6direct", c.peer.v6)[k] \o Manager!FromOpen(c) \in Seq(ChainSteps)
    BY <2>1, TreeTypes, ConcatFacts
  <2> QED BY <1>2, <2>2 DEF Left
<1>3. CASE p = "fallback"
  <2>1. Manager!ParsedFrom("fallback", c.peer.v4)[k] \in Seq(ChainSteps)
    BY <1>3, CallFacts, StepNames, ListUnfolds, Zenon DEF Place
  <2>2. Manager!ParsedFrom("fallback", c.peer.v4)[k] \o Manager!FromPrediction(c) \in Seq(ChainSteps)
    BY <2>1, TreeTypes, ConcatFacts
  <2> QED BY <1>3, <2>2 DEF Left
<1>4. CASE p = "http3"
  <2>1. Manager!RelaysFrom(c, "http3", k) \in Seq(ChainSteps)
    BY <1>4, CallFacts, StepNames, RelaysUnfold, Zenon DEF Place
  <2>2. Manager!If(~c.blocked /\ c.peer.masque, Manager!RelaysFrom(c, "http3", k)) \o Manager!FromHttp2(c)
          \in Seq(ChainSteps)
    BY <2>1, TreeTypes, IfFacts
  <2> QED BY <1>4, <2>2 DEF Left
<1>5. CASE p = "http2"
  <2>1. Manager!RelaysFrom(c, "http2", k) \in Seq(ChainSteps)
    BY <1>5, CallFacts, StepNames, RelaysUnfold, Zenon DEF Place
  <2>2. Manager!If(c.peer.masque, Manager!RelaysFrom(c, "http2", k)) \in Seq(ChainSteps)
    BY <2>1, <1>1, IfFacts
  <2> QED BY <1>5, <2>2 DEF Left
<1>6. CASE ~(p \in {"ipv6direct", "fallback", "http3", "http2"})
  BY <1>1, <1>6, TreeTypes DEF Left
<1> QED BY <1>2, <1>3, <1>4, <1>5, <1>6


(* How the rest of the tree shrinks in a loop over addresses: nothing is   *)
(* left at the end, an address that does not parse adds nothing, one that  *)
(* parses is the next attempt.                                             *)
Shrinks(F, name, addrs, rest, k) ==
  /\ k > Len(addrs) => F[k] \o rest = rest
  /\ (k <= Len(addrs) /\ addrs[k] = "bad") =>
       k + 1 \in 1 .. Len(addrs) + 1 /\ F[k] \o rest = F[k + 1] \o rest
  /\ (k <= Len(addrs) /\ addrs[k] = "ok") =>
       /\ k + 1 \in 1 .. Len(addrs) + 1 /\ F[k + 1] \o rest \in Seq(ChainSteps)
       /\ F[k] \o rest = <<<<name, k>>>> \o (F[k + 1] \o rest)

LEMMA DialsLeft ==
  ASSUME NEW name, NEW addrs \in Seq({"ok", "bad"}), \A i \in Nat : <<name, i>> \in ChainSteps,
         NEW rest \in Seq(ChainSteps), NEW k \in 1 .. Len(addrs) + 1
  PROVE  Shrinks(Manager!ParsedFrom(name, addrs), name, addrs, rest, k)
<1> DEFINE F == Manager!ParsedFrom(name, addrs)
<1>1. Len(addrs) \in Nat /\ k \in Nat /\ <<name, k>> \in ChainSteps
  OBVIOUS
<1>2. /\ F[Len(addrs) + 1] = << >>
      /\ \A i \in 1 .. Len(addrs) : F[i] = Round(F, name, addrs, i)
      /\ \A i \in 1 .. Len(addrs) + 1 : F[i] \in Seq(ChainSteps)
  BY ListUnfolds
<1> HIDE DEF F, ChainSteps
<1>3. ASSUME k > Len(addrs) PROVE F[k] \o rest = rest
  <2>1. k = Len(addrs) + 1
    BY <1>1, <1>3
  <2> QED BY <2>1, <1>2, ConcatEmpty
<1>4. ASSUME k <= Len(addrs)
      PROVE  k \in 1 .. Len(addrs) /\ k + 1 \in 1 .. Len(addrs) + 1 /\ F[k + 1] \in Seq(ChainSteps)
  BY <1>1, <1>2, <1>4
<1>5. ASSUME k <= Len(addrs), addrs[k] = "bad" PROVE F[k] = F[k + 1]
  BY <1>2, <1>4, <1>5, Zenon DEF Round
<1>6. ASSUME k <= Len(addrs), addrs[k] = "ok"
      PROVE  /\ F[k + 1] \o rest \in Seq(ChainSteps)
             /\ F[k] \o rest = <<<<name, k>>>> \o (F[k + 1] \o rest)
  <2>1. F[k] = <<<<name, k>>>> \o F[k + 1]
    BY <1>2, <1>4, <1>6, Zenon DEF Round
  <2>2. F[k + 1] \in Seq(ChainSteps)
    BY <1>4, <1>6
  <2> DEFINE a == <<name, k>>
             q == F[k + 1]
  <2>3. a \in ChainSteps /\ q \in Seq(ChainSteps) /\ F[k] = <<a>> \o q
    BY <1>1, <2>1, <2>2
  <2> HIDE DEF a, q
  <2>4. q \o rest \in Seq(ChainSteps) /\ (<<a>> \o q) \o rest = <<a>> \o (q \o rest)
    BY <2>3, OneThen, SMTT(30)
  <2> QED BY <2>3, <2>4, Zenon DEF a, q
<1>7. Shrinks(F, name, addrs, rest, k)
  BY <1>3, <1>4, <1>5, <1>6, Zenon DEF Shrinks
<1> QED BY <1>7 DEF F

(* The same for a loop over proxies.                                       *)
Dwindles(c, name, rest, k) ==
  /\ k > Manager!Attempts(c.peer.proxies) => Manager!RelaysFrom(c, name, k) \o rest = rest
  /\ k <= Manager!Attempts(c.peer.proxies) =>
       /\ k + 1 \in 1 .. Manager!Attempts(c.peer.proxies) + 1
       /\ Manager!RelaysFrom(c, name, k + 1) \o rest \in Seq(ChainSteps)
       /\ Manager!RelaysFrom(c, name, k) \o rest
            = <<<<name, k>>>> \o (Manager!RelaysFrom(c, name, k + 1) \o rest)

LEMMA RelaysLeft ==
  ASSUME NEW c \in CallRecords, NEW name, \A i \in Nat : <<name, i>> \in ChainSteps,
         NEW rest \in Seq(ChainSteps), NEW k \in 1 .. Manager!Attempts(c.peer.proxies) + 1
  PROVE  Dwindles(c, name, rest, k)
<1> DEFINE A == Manager!Attempts(c.peer.proxies)
           R(j) == Manager!RelaysFrom(c, name, j)
<1>1. A \in Nat /\ k \in Nat /\ <<name, k>> \in ChainSteps
  BY CallFacts
<1>2. /\ k > A => R(k) = << >>
      /\ k <= A => R(k) = <<<<name, k>>>> \o R(k + 1)
  BY <1>1, RelaysUnfold, Zenon
<1>3. k <= A => k + 1 \in 1 .. A + 1
  BY <1>1
<1>4. k <= A => R(k + 1) \in Seq(ChainSteps)
  BY <1>1, <1>3, RelaysUnfold, Zenon
<1> HIDE DEF A, R, ChainSteps
<1>5. k > A => R(k) \o rest = rest
  BY <1>2, ConcatEmpty
<1>6. ASSUME k <= A
      PROVE  R(k + 1) \o rest \in Seq(ChainSteps) /\ R(k) \o rest = <<<<name, k>>>> \o (R(k + 1) \o rest)
  <2> DEFINE a == <<name, k>>
             q == R(k + 1)
  <2>1. a \in ChainSteps /\ q \in Seq(ChainSteps) /\ R(k) = <<a>> \o q
    BY <1>1, <1>2, <1>4, <1>6, Zenon
  <2> HIDE DEF a, q
  <2>2. q \o rest \in Seq(ChainSteps) /\ (<<a>> \o q) \o rest = <<a>> \o (q \o rest)
    BY <2>1, OneThen
  <2> QED BY <2>1, <2>2 DEF a, q
<1> QED BY <1>3, <1>5, <1>6, Zenon DEF A, R, Dwindles

----------------------------------------------------------------------------
(* The attempts made and those left make up the decision tree for what the *)
(* call read at its start.                                                 *)
ManagerInv ==
  /\ call \in CallRecords /\ local_nat \in SUBSET LocalNats /\ udp_blocked \in BOOLEAN
  /\ tried \in Seq(ChainSteps)
  /\ InChain(pc) \/ pc \in {"idle", "returned", "panicked"}
  /\ pc = "idle" => tried = << >> /\ at = 1
  /\ Place(pc, at, call)
  /\ InChain(pc) => tried \o Left(pc, at, call) = Manager!DecisionTree(call)
  /\ pc \in {"returned", "panicked"} =>
       \E r \in Seq(ChainSteps) : tried \o r = Manager!DecisionTree(call)
  /\ (pc = "returned" /\ ~Manager!IsConn) => tried = Manager!DecisionTree(call)
  /\ Manager!MethodTruthful

LEMMA ManagerHolds ==
  ManagerInv => Manager!FollowsDecisionTree /\ Manager!MethodTruthful
<1> SUFFICES ASSUME ManagerInv PROVE Manager!FollowsDecisionTree
  BY DEF ManagerInv
<1> DEFINE tree == Manager!DecisionTree(call)
<1>1. tried \in Seq(ChainSteps) /\ tree \in Seq(ChainSteps)
  BY TreeTypes DEF ManagerInv
<1>2. \E r \in Seq(ChainSteps) : tried \o r = tree
  <2>1. CASE pc = "idle"
    <3>1. tried = << >> /\ << >> \o tree = tree
      BY <1>1, <2>1, ConcatEmpty DEF ManagerInv
    <3> QED BY <1>1, <3>1
  <2>2. CASE InChain(pc)
    <3>1. Left(pc, at, call) \in Seq(ChainSteps) /\ tried \o Left(pc, at, call) = tree
      BY <2>2, LeftType DEF ManagerInv
    <3> QED BY <3>1
  <2>3. CASE pc \in {"returned", "panicked"}
    BY <2>3, Zenon DEF ManagerInv
  <2> QED BY <2>1, <2>2, <2>3, Zenon DEF ManagerInv
<1>3. Len(tried) <= Len(tree) /\ tried = SubSeq(tree, 1, Len(tried))
  BY <1>1, <1>2, PrefixFacts
<1>4. (pc = "returned" /\ ~Manager!IsConn) => tried = tree
  BY DEF ManagerInv
<1> QED BY <1>3, <1>4 DEF Manager!FollowsDecisionTree, Manager!Returned

LEMMA ManagerInitially ==
  Manager!Init => ManagerInv
<1> SUFFICES ASSUME Manager!Init PROVE ManagerInv
  OBVIOUS
<1>1. PICK p \in Callees : call = [peer |-> p, local |-> {}, blocked |-> FALSE]
  BY DEF Manager!Init
<1>2. call \in CallRecords
  BY <1>1 DEF CallRecords
<1>3. pc = "idle" /\ at = 1 /\ tried = << >> /\ local_nat = {} /\ udp_blocked = FALSE
  BY DEF Manager!Init
<1>4. tried \in Seq(ChainSteps) /\ ~InChain(pc)
  BY <1>3 DEF InChain
<1>5. Place(pc, at, call)
  BY <1>3 DEF Place
<1>6. Manager!MethodTruthful
  BY <1>3 DEF Manager!MethodTruthful, Manager!Returned
<1> QED BY <1>2, <1>3, <1>4, <1>5, <1>6, Zenon DEF ManagerInv

LEMMA ManagerStutter ==
  ASSUME ManagerInv, UNCHANGED Manager!vars
  PROVE  ManagerInv'
BY Zenon DEF ManagerInv, Manager!vars, Manager!MethodTruthful, Manager!Returned, Manager!IsConn


(* A step that goes on without an attempt.                                 *)
LEMMA ManagerGoes ==
  ASSUME ManagerInv, InChain(pc), InChain(pc'), UNCHANGED <<local_nat, udp_blocked, call, tried>>,
         Place(pc', at', call), Left(pc', at', call) = Left(pc, at, call)
  PROVE  ManagerInv'
<1>1. /\ call' = call /\ tried' = tried /\ local_nat' = local_nat /\ udp_blocked' = udp_blocked
      /\ ~(pc' \in {"idle", "returned", "panicked"})
  BY DEF InChain
<1>2. tried' \o Left(pc', at', call') = Manager!DecisionTree(call')
  BY <1>1 DEF ManagerInv
<1>3. Manager!MethodTruthful'
  BY <1>1, SMTT(30) DEF Manager!MethodTruthful, Manager!Returned
<1> QED BY <1>1, <1>2, <1>3 DEF ManagerInv

(* A step that makes the next attempt, in vain.                            *)
LEMMA ManagerTries ==
  ASSUME ManagerInv, InChain(pc), InChain(pc'), UNCHANGED <<local_nat, udp_blocked, call>>,
         NEW a \in ChainSteps, tried' = Append(tried, a), Place(pc', at', call),
         Left(pc, at, call) = <<a>> \o Left(pc', at', call)
  PROVE  ManagerInv'
<1>1. /\ call' = call /\ local_nat' = local_nat /\ udp_blocked' = udp_blocked
      /\ ~(pc' \in {"idle", "returned", "panicked"})
  BY DEF InChain
<1>2. call \in CallRecords /\ tried \in Seq(ChainSteps) /\ tried \o Left(pc, at, call) = Manager!DecisionTree(call)
  BY DEF ManagerInv
<1>3. Left(pc', at', call) \in Seq(ChainSteps)
  BY <1>2, LeftType
<1>4. tried' \in Seq(ChainSteps) /\ tried' \o Left(pc', at', call) = Manager!DecisionTree(call)
  <2> DEFINE r == Left(pc', at', call)
  <2> HIDE DEF r, ChainSteps
  <2>1. Append(tried, a) \in Seq(ChainSteps) /\ Append(tried, a) \o r = tried \o (<<a>> \o r)
    BY <1>2, <1>3, Advance, SMTT(30) DEF r
  <2> QED BY <1>2, <2>1 DEF r
<1>5. Manager!MethodTruthful'
  BY <1>1 DEF Manager!MethodTruthful, Manager!Returned
<1> QED BY <1>1, <1>2, <1>4, <1>5 DEF ManagerInv

(* The last attempt is the next of the tree, whatever is left after it.    *)
LEMMA LastAttempt ==
  ASSUME ManagerInv, InChain(pc), NEW a \in ChainSteps, NEW r \in Seq(ChainSteps),
         tried' = Append(tried, a), Left(pc, at, call) = <<a>> \o r
  PROVE  /\ tried' \in Seq(ChainSteps) /\ tried' \o r = Manager!DecisionTree(call)
         /\ tried'[Len(tried')] = a
<1>1. tried \in Seq(ChainSteps) /\ tried \o Left(pc, at, call) = Manager!DecisionTree(call)
  BY DEF ManagerInv
<1> HIDE DEF ChainSteps
<1>2. Append(tried, a) \in Seq(ChainSteps) /\ Append(tried, a) \o r = tried \o (<<a>> \o r)
  BY <1>1, Advance
<1>3. Len(Append(tried, a)) = Len(tried) + 1 /\ Append(tried, a)[Len(tried) + 1] = a
  BY <1>1, AppendFacts
<1> QED BY <1>1, <1>2, <1>3

(* A method that tells how the last attempt, named n, connected.           *)
Tells(n, method, family, blocked) ==
  /\ (family = "tunnel") <=> method \in {"Masque", "MasqueHttp2"}
  /\ (family = "v6") <=> (method = "Ipv6Direct")
  /\ (n = "http2") <=> (method = "MasqueHttp2")
  /\ method \in {"Ipv6Direct", "Ipv4Cone", "Ipv4Prediction"} => ~blocked

(* A step that makes the next attempt, and it connects.                    *)
LEMMA ManagerConnects ==
  ASSUME ManagerInv, InChain(pc), UNCHANGED <<local_nat, udp_blocked, call>>,
         NEW a \in ChainSteps, tried' = Append(tried, a),
         NEW r \in Seq(ChainSteps), Left(pc, at, call) = <<a>> \o r,
         NEW method, NEW family, Manager!Connected(method, family), Tells(a[1], method, family, call.blocked)
  PROVE  ManagerInv'
<1>1. pc' = "returned" /\ result' = [method |-> method, family |-> family]
  BY DEF Manager!Connected
<1>2. call' = call /\ local_nat' = local_nat /\ udp_blocked' = udp_blocked
  OBVIOUS
<1>3. /\ tried' \in Seq(ChainSteps) /\ tried' \o r = Manager!DecisionTree(call)
      /\ tried'[Len(tried')] = a
  BY LastAttempt, Zenon
<1>4. Manager!IsConn'
  BY <1>1 DEF Manager!IsConn
<1>5. Place(pc', at', call') /\ ~InChain(pc')
  BY <1>1 DEF Place, InChain
<1>6. Manager!MethodTruthful'
  <2>1. tried'[Len(tried')][1] = a[1] /\ result'.method = method /\ result'.family = family
    BY <1>1, <1>3, Zenon
  <2>2. Tells(tried'[Len(tried')][1], result'.method, result'.family, call'.blocked)
    BY <1>2, <2>1, Zenon
  <2> QED BY <2>2 DEF Tells, Manager!MethodTruthful, Manager!is_relayed, Manager!is_direct
<1>7. \E s \in Seq(ChainSteps) : tried' \o s = Manager!DecisionTree(call')
  BY <1>2, <1>3, Zenon
<1> QED BY <1>1, <1>2, <1>3, <1>4, <1>5, <1>6, <1>7, Zenon DEF ManagerInv

----------------------------------------------------------------------------
(* The steps of the chain, one by one.                                     *)
LEMMA Ipv6Keeps ==
  ASSUME ManagerInv, UNCHANGED <<local_nat, udp_blocked, call>>, Manager!Ipv6 \/ Manager!NoIpv6
  PROVE  ManagerInv'
<1>1. pc = "ipv6" /\ tried' = tried /\ at' = 1 /\ call \in CallRecords
  BY DEF Manager!Ipv6, Manager!NoIpv6, Manager!Goto, ManagerInv
<1>2. 1 \in 1 .. Len(call.peer.v6) + 1
  BY <1>1, CallFacts
<1>3. CASE Manager!Ipv6
  <2>1. /\ call.peer.v6 # << >> /\ ~call.blocked
        /\ pc' = IF call.peer.v4 # << >> THEN "race" ELSE "ipv6direct"
    BY <1>3, SMTT(30) DEF Manager!Ipv6, Manager!Goto
  <2>2. Left(pc', at', call) = Left(pc, at, call)
    BY <1>1, <2>1 DEF Left, Manager!DecisionTree, Manager!EachParsed
  <2>3. Place(pc', at', call) /\ InChain(pc) /\ InChain(pc')
    BY <1>1, <1>2, <2>1, SMTT(30) DEF Place, InChain
  <2> QED BY <1>1, <2>2, <2>3, ManagerGoes, SMTT(30)
<1>4. CASE Manager!NoIpv6
  <2>1. (call.peer.v6 = << >> \/ call.blocked) /\ pc' = "open"
    BY <1>4, SMTT(30) DEF Manager!NoIpv6, Manager!Goto
  <2>2. Left(pc', at', call) = Left(pc, at, call)
    BY <1>1, <2>1 DEF Left, Manager!DecisionTree
  <2>3. Place(pc', at', call) /\ InChain(pc) /\ InChain(pc')
    BY <1>1, <2>1, SMTT(30) DEF Place, InChain
  <2> QED BY <1>1, <2>2, <2>3, ManagerGoes
<1> QED BY <1>3, <1>4, SMTT(30)

LEMMA RaceKeeps ==
  ASSUME ManagerInv, UNCHANGED <<local_nat, udp_blocked, call>>, Manager!try_happy_eyeballs
  PROVE  ManagerInv'
<1> DEFINE any == Manager!Parsed(call.peer.v6) # {} \/ Manager!Parsed(call.peer.v4) # {}
           a == <<"race", 1>>
           rest == Manager!FromOpen(call)
<1>1. pc = "race" /\ InChain(pc) /\ call \in CallRecords /\ ~call.blocked
  BY DEF Manager!try_happy_eyeballs, ManagerInv, InChain, Place
<1>2. rest \in Seq(ChainSteps) /\ a \in ChainSteps /\ <<a>> \in Seq(ChainSteps)
  <2>1. a \in ChainSteps
    BY StepNames, Zenon
  <2> QED BY <1>1, <2>1, TreeTypes
<1>3. Left(pc, at, call) = Manager!If(any, <<a>>) \o rest
  BY <1>1 DEF Left, Manager!FromRace
<1>4. /\ any => Left(pc, at, call) = <<a>> \o rest
      /\ ~any => Left(pc, at, call) = rest
  <2>1. << >> \o rest = rest
    BY <1>2, ConcatEmpty, SMTT(30)
  <2> HIDE DEF a, any, rest
  <2> QED BY <1>3, <2>1, Zenon DEF Manager!If
<1>5. pc' = "open" => Left(pc', at', call) = rest /\ Place(pc', at', call) /\ InChain(pc')
  BY SMTT(30) DEF Left, Place, InChain
<1> HIDE DEF rest
<1>6. CASE ~any /\ Manager!Goto("open")
  <2>1. tried' = tried /\ pc' = "open"
    BY <1>6 DEF Manager!Goto
  <2> QED BY <1>1, <1>4, <1>5, <1>6, <2>1, ManagerGoes, SMTT(30)
<1>7. CASE any /\ Manager!Attempt(a) /\ pc' = "open"
  <2>1. tried' = Append(tried, a)
    BY <1>7 DEF Manager!Attempt
  <2> QED BY <1>1, <1>2, <1>4, <1>5, <1>7, <2>1, ManagerTries, Zenon
<1>8. ASSUME any, Manager!Attempt(a), NEW m, NEW f, Manager!Connected(m, f),
             <<m, f>> \in {<<"Ipv6Direct", "v6">>, <<"Ipv4Cone", "v4">>}
      PROVE  ManagerInv'
  <2>1. tried' = Append(tried, a)
    BY <1>8, SMTT(30) DEF Manager!Attempt
  <2>2. Tells(a[1], m, f, call.blocked)
    BY <1>1, <1>8, SMTT(30) DEF Tells
  <2> HIDE DEF a
  <2> QED BY <1>1, <1>2, <1>4, <1>8, <2>1, <2>2, ManagerConnects, Zenon
<1> QED BY <1>6, <1>7, <1>8, SMTT(30) DEF Manager!try_happy_eyeballs


(* A loop over addresses, at a step p with the lists of that step.         *)
LEMMA DialKeeps ==
  ASSUME ManagerInv, UNCHANGED <<local_nat, udp_blocked, call>>, InChain(pc),
         NEW addrs \in Seq({"ok", "bad"}), NEW name, \A i \in Nat : <<name, i>> \in ChainSteps,
         NEW next, NEW method, NEW family, Manager!DialEach(addrs, name, next, method, family),
         NEW rest \in Seq(ChainSteps), at \in 1 .. Len(addrs) + 1,
         \A k \in 1 .. Len(addrs) + 1 :
           Place(pc, k, call) /\ Left(pc, k, call) = Manager!ParsedFrom(name, addrs)[k] \o rest,
         InChain(next), Place(next, 1, call), Left(next, 1, call) = rest,
         Tells(name, method, family, call.blocked)
  PROVE  ManagerInv'
<1> DEFINE F == Manager!ParsedFrom(name, addrs)
           a == <<name, at>>
<1>0. Shrinks(F, name, addrs, rest, at)
  BY DialsLeft, Zenon
<1>2. a \in ChainSteps /\ a[1] = name
  <2>1. at \in Nat
    OBVIOUS
  <2> QED BY <2>1
<1>3. Left(pc, at, call) = F[at] \o rest
  OBVIOUS
<1> HIDE DEF F, ChainSteps
<1>1. /\ at > Len(addrs) => F[at] \o rest = rest
      /\ (at <= Len(addrs) /\ addrs[at] = "bad") =>
           at + 1 \in 1 .. Len(addrs) + 1 /\ F[at] \o rest = F[at + 1] \o rest
      /\ (at <= Len(addrs) /\ addrs[at] = "ok") =>
           /\ at + 1 \in 1 .. Len(addrs) + 1 /\ F[at + 1] \o rest \in Seq(ChainSteps)
           /\ F[at] \o rest = <<a>> \o (F[at + 1] \o rest)
  BY <1>0, Zenon DEF Shrinks
<1> HIDE DEF a
<1>4. CASE at > Len(addrs) /\ Manager!Goto(next)
  <2>1. pc' = next /\ at' = 1 /\ tried' = tried
    BY <1>4 DEF Manager!Goto
  <2>2. Left(pc', at', call) = Left(pc, at, call) /\ Place(pc', at', call) /\ InChain(pc')
    BY <1>1, <1>3, <1>4, <2>1, Zenon
  <2> QED BY <2>1, <2>2, ManagerGoes, SMTT(30)
<1>5. CASE at <= Len(addrs) /\ addrs[at] = "bad" /\ at' = at + 1 /\ UNCHANGED <<pc, tried, result>>
  <2>1. at' \in 1 .. Len(addrs) + 1 /\ F[at] \o rest = F[at'] \o rest /\ pc' = pc /\ tried' = tried
    BY <1>1, <1>5, Zenon
  <2>2. Left(pc', at', call) = Left(pc, at, call) /\ Place(pc', at', call) /\ InChain(pc')
    BY <1>3, <2>1 DEF F
  <2> QED BY <2>1, <2>2, ManagerGoes
<1>6. CASE at <= Len(addrs) /\ addrs[at] = "ok" /\ Manager!Attempt(a) /\ at' = at + 1 /\ UNCHANGED <<pc, result>>
  <2>1. /\ at' \in 1 .. Len(addrs) + 1 /\ F[at] \o rest = <<a>> \o (F[at'] \o rest)
        /\ pc' = pc /\ tried' = Append(tried, a)
    BY <1>1, <1>6, Zenon DEF Manager!Attempt
  <2>2. Left(pc, at, call) = <<a>> \o Left(pc', at', call) /\ Place(pc', at', call) /\ InChain(pc')
    BY <1>3, <2>1, Zenon DEF F
  <2> QED BY <1>2, <2>1, <2>2, ManagerTries, Zenon
<1>7. CASE at <= Len(addrs) /\ addrs[at] = "ok" /\ Manager!Attempt(a) /\ Manager!Connected(method, family)
  <2>1. /\ F[at + 1] \o rest \in Seq(ChainSteps) /\ tried' = Append(tried, a)
        /\ Left(pc, at, call) = <<a>> \o (F[at + 1] \o rest)
    BY <1>1, <1>3, <1>7, Zenon DEF Manager!Attempt
  <2>2. Tells(a[1], method, family, call.blocked)
    BY <1>2
  <2> QED BY <1>2, <1>7, <2>1, <2>2, ManagerConnects, Zenon
<1> QED BY <1>4, <1>5, <1>6, <1>7 DEF Manager!DialEach, a

LEMMA Ipv6DirectKeeps ==
  ASSUME ManagerInv, UNCHANGED <<local_nat, udp_blocked, call>>, Manager!try_ipv6_direct
  PROVE  ManagerInv'
<1>1. /\ pc = "ipv6direct" /\ InChain(pc) /\ call \in CallRecords /\ ~call.blocked
      /\ at \in 1 .. Len(call.peer.v6) + 1
      /\ Manager!DialEach(call.peer.v6, "ipv6direct", "open", "Ipv6Direct", "v6")
  BY DEF Manager!try_ipv6_direct, ManagerInv, InChain, Place
<1>2. call.peer.v6 \in Seq({"ok", "bad"}) /\ Manager!FromOpen(call) \in Seq(ChainSteps)
  BY <1>1, CallFacts, TreeTypes, Zenon
<1>3. \A k \in 1 .. Len(call.peer.v6) + 1 :
        /\ Place(pc, k, call)
        /\ Left(pc, k, call) = Manager!ParsedFrom("ipv6direct", call.peer.v6)[k] \o Manager!FromOpen(call)
  BY <1>1 DEF Place, Left
<1>4. InChain("open") /\ Place("open", 1, call) /\ Left("open", 1, call) = Manager!FromOpen(call)
  BY DEF InChain, Place, Left
<1>5. Tells("ipv6direct", "Ipv6Direct", "v6", call.blocked)
  BY <1>1 DEF Tells
<1>6. \A i \in Nat : <<"ipv6direct", i>> \in ChainSteps
  BY StepNames, Zenon
<1> QED BY <1>1, <1>2, <1>3, <1>4, <1>5, <1>6, DialKeeps, Zenon

LEMMA FallbackKeeps ==
  ASSUME ManagerInv, UNCHANGED <<local_nat, udp_blocked, call>>, Manager!OpenFallback
  PROVE  ManagerInv'
<1>1. /\ pc = "fallback" /\ InChain(pc) /\ call \in CallRecords /\ ~call.blocked
      /\ at \in 1 .. Len(call.peer.v4) + 1
      /\ Manager!DialEach(call.peer.v4, "fallback", "predict", "Ipv4Cone", "v4")
  BY DEF Manager!OpenFallback, ManagerInv, InChain, Place
<1>2. call.peer.v4 \in Seq({"ok", "bad"}) /\ Manager!FromPrediction(call) \in Seq(ChainSteps)
  BY <1>1, CallFacts, TreeTypes, Zenon
<1>3. \A k \in 1 .. Len(call.peer.v4) + 1 :
        /\ Place(pc, k, call)
        /\ Left(pc, k, call) = Manager!ParsedFrom("fallback", call.peer.v4)[k] \o Manager!FromPrediction(call)
  BY <1>1 DEF Place, Left
<1>4. /\ InChain("predict") /\ Place("predict", 1, call)
      /\ Left("predict", 1, call) = Manager!FromPrediction(call)
  BY DEF InChain, Place, Left
<1>5. Tells("fallback", "Ipv4Cone", "v4", call.blocked)
  BY <1>1 DEF Tells
<1>6. \A i \in Nat : <<"fallback", i>> \in ChainSteps
  BY StepNames, Zenon
<1> QED BY <1>1, <1>2, <1>3, <1>4, <1>5, <1>6, DialKeeps, Zenon

LEMMA OpenKeeps ==
  ASSUME ManagerInv, UNCHANGED <<local_nat, udp_blocked, call>>, Manager!try_simultaneous_open
  PROVE  ManagerInv'
<1> DEFINE cond == ~call.blocked /\ "Cone" \in Manager!NatTypes(call) /\ Manager!Parsed(call.peer.v4) # {}
           a == <<"open", 1>>
           each == Manager!ParsedFrom("fallback", call.peer.v4)[1]
           rest == Manager!FromPrediction(call)
<1>1. pc = "open" /\ InChain(pc) /\ call \in CallRecords
  BY DEF Manager!try_simultaneous_open, ManagerInv, InChain
<1>2. a \in ChainSteps /\ each \in Seq(ChainSteps) /\ rest \in Seq(ChainSteps)
  <2>1. call.peer.v4 \in Seq({"ok", "bad"}) /\ 1 \in 1 .. Len(call.peer.v4) + 1
    BY <1>1, CallFacts
  <2>2. each \in Seq(ChainSteps)
    BY <2>1, StepNames, ListUnfolds, Zenon
  <2> QED BY <1>1, <2>2, StepNames, TreeTypes, Zenon
<1>3. Left(pc, at, call) = Manager!If(cond, <<a>> \o each) \o rest
  BY <1>1 DEF Left, Manager!FromOpen, Manager!EachParsed
<1>4. Manager!HasCone <=> "Cone" \in Manager!NatTypes(call)
  BY DEF Manager!HasCone, Manager!NatTypes, Manager!peer_nat
<1>5. pc' = "predict" => Left(pc', at', call) = rest /\ Place(pc', at', call) /\ InChain(pc')
  BY DEF Left, Place, InChain
<1>6. pc' = "fallback" /\ at' = 1 /\ cond =>
        Left(pc', at', call) = each \o rest /\ Place(pc', at', call) /\ InChain(pc')
  <2>1. 1 \in 1 .. Len(call.peer.v4) + 1
    BY <1>1, CallFacts
  <2> QED BY <2>1 DEF Left, Place, InChain
<1> HIDE DEF each, rest
<1>7. ~cond => Left(pc, at, call) = rest
  <2>1. << >> \o rest = rest
    BY <1>2, ConcatEmpty
  <2> HIDE DEF a, cond
  <2> QED BY <1>3, <2>1 DEF Manager!If
<1>8. /\ cond => Left(pc, at, call) = <<a>> \o (each \o rest)
      /\ each \o rest \in Seq(ChainSteps)
  <2> HIDE DEF a, cond
  <2>1. /\ <<a>> \o each \in Seq(ChainSteps) /\ each \o rest \in Seq(ChainSteps)
        /\ (<<a>> \o each) \o rest = <<a>> \o (each \o rest)
    BY <1>2, OneThen
  <2>2. cond => Manager!If(cond, <<a>> \o each) \o rest = (<<a>> \o each) \o rest
    BY DEF Manager!If
  <2> QED BY <1>3, <2>1, <2>2, Zenon
<1>9. CASE ~cond /\ Manager!Goto("predict")
  <2>1. tried' = tried /\ pc' = "predict"
    BY <1>9 DEF Manager!Goto
  <2> QED BY <1>1, <1>5, <1>7, <1>9, <2>1, ManagerGoes, SMTT(30)
<1>10. CASE cond /\ Manager!Attempt(a) /\ pc' = "fallback" /\ at' = 1
  <2>1. tried' = Append(tried, a)
    BY <1>10 DEF Manager!Attempt
  <2> HIDE DEF a
  <2> QED BY <1>1, <1>2, <1>6, <1>8, <1>10, <2>1, ManagerTries, Zenon
<1>11. CASE cond /\ Manager!Attempt(a) /\ Manager!Connected("Ipv4Cone", "v4")
  <2>1. tried' = Append(tried, a)
    BY <1>11 DEF Manager!Attempt
  <2>2. Tells(a[1], "Ipv4Cone", "v4", call.blocked)
    BY <1>11 DEF Tells
  <2> HIDE DEF a
  <2> QED BY <1>1, <1>2, <1>8, <1>11, <2>1, <2>2, ManagerConnects, Zenon
<1>12. CASE cond /\ Manager!Attempt(a) /\ pc' = "panicked"
  <2>1. tried' = Append(tried, a)
    BY <1>12 DEF Manager!Attempt
  <2> HIDE DEF a
  <2>2. tried' \in Seq(ChainSteps) /\ tried' \o (each \o rest) = Manager!DecisionTree(call)
    BY <1>1, <1>2, <1>8, <1>12, <2>1, LastAttempt, Zenon
  <2>3. /\ call' = call /\ local_nat' = local_nat /\ udp_blocked' = udp_blocked
        /\ Place(pc', at', call') /\ ~InChain(pc')
    BY <1>12 DEF Place, InChain
  <2>4. \E r \in Seq(ChainSteps) : tried' \o r = Manager!DecisionTree(call')
    BY <1>8, <2>2, <2>3, Zenon
  <2>5. Manager!MethodTruthful'
    BY <1>12 DEF Manager!MethodTruthful, Manager!Returned
  <2> QED BY <1>12, <2>2, <2>3, <2>4, <2>5, Zenon DEF ManagerInv
<1> QED BY <1>4, <1>9, <1>10, <1>11, <1>12, SMTT(30) DEF Manager!try_simultaneous_open


LEMMA PredictionKeeps ==
  ASSUME ManagerInv, UNCHANGED <<local_nat, udp_blocked, call>>, Manager!try_port_prediction
  PROVE  ManagerInv'
<1> DEFINE cond == /\ ~call.blocked
                   /\ Manager!NatTypes(call) \cap {"SymmetricSequential", "SymmetricPseudo"} # {}
                   /\ Manager!NatInfoFromWire(call.peer.nat).prediction # Manager!NoPrediction
           a == <<"predict", 1>>
           rest == Manager!FromHttp3(call)
<1>1. pc = "predict" /\ InChain(pc) /\ call \in CallRecords
  BY DEF Manager!try_port_prediction, ManagerInv, InChain
<1>2. rest \in Seq(ChainSteps) /\ a \in ChainSteps
  BY <1>1, StepNames, TreeTypes, Zenon
<1>3. Left(pc, at, call) = Manager!If(cond, <<a>>) \o rest
  BY <1>1 DEF Left, Manager!FromPrediction
<1>4. cond <=> /\ Manager!Predictable /\ ~call.blocked
               /\ Manager!peer_nat.prediction # Manager!NoPrediction
  <2>1. Manager!Predictable <=> Manager!NatTypes(call) \cap {"SymmetricSequential", "SymmetricPseudo"} # {}
    BY DEF Manager!Predictable, Manager!NatTypes, Manager!peer_nat, Manager!is_predictable
  <2> QED BY <2>1, SMTT(30) DEF Manager!peer_nat
<1>5. pc' = "http3" /\ at' = 1 => Left(pc', at', call) = rest /\ Place(pc', at', call) /\ InChain(pc')
  <2>1. 1 \in 1 .. Manager!Attempts(call.peer.proxies) + 1
    BY <1>1, CallFacts, SMTT(30)
  <2>2. Left("http3", 1, call) = rest
    BY DEF Left, Manager!FromHttp3
  <2> QED BY <2>1, <2>2, SMTT(30) DEF Place, InChain
<1> HIDE DEF rest
<1>6. /\ cond => Left(pc, at, call) = <<a>> \o rest
      /\ ~cond => Left(pc, at, call) = rest
  <2>1. << >> \o rest = rest
    BY <1>2, ConcatEmpty, SMTT(30)
  <2> HIDE DEF a, cond
  <2> QED BY <1>3, <2>1, Zenon DEF Manager!If
<1> HIDE DEF a, cond
<1>7. CASE ~cond /\ Manager!Goto("http3")
  <2>1. tried' = tried /\ pc' = "http3" /\ at' = 1
    BY <1>7 DEF Manager!Goto
  <2> QED BY <1>1, <1>5, <1>6, <1>7, <2>1, ManagerGoes, SMTT(30)
<1>8. CASE cond /\ Manager!Attempt(a) /\ pc' = "http3" /\ at' = 1
  <2>1. tried' = Append(tried, a)
    BY <1>8 DEF Manager!Attempt
  <2> QED BY <1>1, <1>2, <1>5, <1>6, <1>8, <2>1, ManagerTries, Zenon
<1>9. CASE cond /\ Manager!Attempt(a) /\ Manager!Connected("Ipv4Prediction", "v4")
  <2>1. tried' = Append(tried, a)
    BY <1>9 DEF Manager!Attempt
  <2>2. Tells(a[1], "Ipv4Prediction", "v4", call.blocked)
    BY <1>4, <1>9 DEF Tells, a
  <2> QED BY <1>1, <1>2, <1>6, <1>9, <2>1, <2>2, ManagerConnects, Zenon
<1>10. CASE ~cond
  <2>1. Manager!Goto("http3")
    BY <1>4, <1>10 DEF Manager!try_port_prediction
  <2> QED BY <1>7, <1>10, <2>1
<1>11. CASE cond
  <2>1. /\ Manager!Attempt(a)
        /\ \/ pc' = "http3" /\ at' = 1 /\ UNCHANGED result
           \/ Manager!Connected("Ipv4Prediction", "v4")
    BY <1>4, <1>11, SMTT(30) DEF Manager!try_port_prediction, a
  <2> QED BY <1>8, <1>9, <1>11, <2>1, SMTT(30)
<1> QED BY <1>10, <1>11, SMTT(30)

(* A loop over the proxies, at a step p with what is left after it.        *)
LEMMA RelayKeeps ==
  ASSUME ManagerInv, UNCHANGED <<local_nat, udp_blocked, call>>, InChain(pc), call \in CallRecords,
         NEW name, \A i \in Nat : <<name, i>> \in ChainSteps,
         NEW next, NEW method, Manager!EachProxy(name, next, method),
         NEW rest \in Seq(ChainSteps), at \in 1 .. Manager!Attempts(call.peer.proxies) + 1,
         \A k \in 1 .. Manager!Attempts(call.peer.proxies) + 1 :
           Place(pc, k, call) /\ Left(pc, k, call) = Manager!RelaysFrom(call, name, k) \o rest,
         InChain(next), Place(next, 1, call), Left(next, 1, call) = rest,
         Tells(name, method, "tunnel", call.blocked)
  PROVE  ManagerInv'
<1> DEFINE A == Manager!Attempts(call.peer.proxies)
           R(k) == Manager!RelaysFrom(call, name, k)
           a == <<name, at>>
<1>0. Dwindles(call, name, rest, at)
  BY RelaysLeft
<1>1. /\ at > A => R(at) \o rest = rest
      /\ at <= A =>
           /\ at + 1 \in 1 .. A + 1 /\ R(at + 1) \o rest \in Seq(ChainSteps)
           /\ R(at) \o rest = <<a>> \o (R(at + 1) \o rest)
  BY <1>0, Zenon DEF Dwindles
<1>2. a \in ChainSteps /\ a[1] = name
  <2>1. at \in Nat
    <3>1. A \in Nat
      BY CallFacts, Zenon
    <3> QED BY <3>1
  <2> QED BY <2>1
<1>3. \A k \in 1 .. A + 1 : Place(pc, k, call) /\ Left(pc, k, call) = R(k) \o rest
  OBVIOUS
<1>4. Left(pc, at, call) = R(at) \o rest
  OBVIOUS
<1>5. \/ at > A /\ Manager!Goto(next)
      \/ /\ at <= A /\ Manager!Attempt(a)
         /\ (at' = at + 1 /\ UNCHANGED <<pc, result>>) \/ Manager!Connected(method, "tunnel")
  BY Zenon DEF Manager!EachProxy
<1> HIDE DEF R, A, a, ChainSteps
<1>6. CASE at > A /\ Manager!Goto(next)
  <2>1. pc' = next /\ at' = 1 /\ tried' = tried
    BY <1>6, SMTT(30) DEF Manager!Goto
  <2>2. Left(pc', at', call) = Left(pc, at, call) /\ Place(pc', at', call) /\ InChain(pc')
    BY <1>1, <1>4, <1>6, <2>1
  <2> QED BY <2>1, <2>2, ManagerGoes, SMTT(30)
<1>7. CASE at <= A /\ Manager!Attempt(a) /\ at' = at + 1 /\ UNCHANGED <<pc, result>>
  <2>1. /\ at' \in 1 .. A + 1 /\ R(at) \o rest = <<a>> \o (R(at') \o rest)
        /\ pc' = pc /\ tried' = Append(tried, a)
    BY <1>1, <1>7, Zenon DEF Manager!Attempt
  <2>2. Left(pc, at, call) = <<a>> \o Left(pc', at', call) /\ Place(pc', at', call) /\ InChain(pc')
    BY <1>3, <1>4, <2>1, Zenon
  <2> QED BY <1>2, <2>1, <2>2, ManagerTries, Zenon
<1>8. CASE at <= A /\ Manager!Attempt(a) /\ Manager!Connected(method, "tunnel")
  <2>1. /\ R(at + 1) \o rest \in Seq(ChainSteps) /\ tried' = Append(tried, a)
        /\ Left(pc, at, call) = <<a>> \o (R(at + 1) \o rest)
    BY <1>1, <1>4, <1>8, Zenon DEF Manager!Attempt
  <2>2. Tells(a[1], method, "tunnel", call.blocked)
    BY <1>2, SMTT(30)
  <2> QED BY <1>2, <1>8, <2>1, <2>2, ManagerConnects, Zenon
<1> QED BY <1>5, <1>6, <1>7, <1>8, SMTT(30)

LEMMA Http3Keeps ==
  ASSUME ManagerInv, UNCHANGED <<local_nat, udp_blocked, call>>, Manager!try_masque_http3
  PROVE  ManagerInv'
<1> DEFINE A == Manager!Attempts(call.peer.proxies)
           cond == ~call.blocked /\ call.peer.masque
           R(k) == Manager!RelaysFrom(call, "http3", k)
           rest == Manager!FromHttp2(call)
<1>1. pc = "http3" /\ InChain(pc) /\ call \in CallRecords /\ at \in 1 .. A + 1
  BY DEF Manager!try_masque_http3, ManagerInv, InChain, Place
<1>2. A \in Nat /\ rest \in Seq(ChainSteps) /\ \A i \in Nat : <<"http3", i>> \in ChainSteps
  BY <1>1, CallFacts, TreeTypes, StepNames, Zenon
<1>3. \A k \in 1 .. A + 1 : Place(pc, k, call) /\ Left(pc, k, call) = Manager!If(cond, R(k)) \o rest
  BY <1>1 DEF Place, Left
<1>4. << >> \o rest = rest
  BY <1>2, ConcatEmpty, SMTT(30)
<1>5. call.peer.masque =>
        InChain("http2") /\ Place("http2", 1, call) /\ Left("http2", 1, call) = rest
  <2>1. 1 \in 1 .. A + 1
    BY <1>2, SMTT(30)
  <2> QED BY <2>1 DEF InChain, Place, Left, Manager!FromHttp2
<1>6. InChain("failed") /\ Place("failed", 1, call) /\ Left("failed", 1, call) = << >>
  BY DEF InChain, Place, Left
<1>7. CASE cond /\ Manager!EachProxy("http3", "http2", "Masque")
  <2>1. \A k \in 1 .. A + 1 : Left(pc, k, call) = R(k) \o rest
    <3> HIDE DEF R, rest, A, cond
    <3> QED BY <1>3, <1>7 DEF Manager!If
  <2>2. Tells("http3", "Masque", "tunnel", call.blocked)
    BY SMTT(30) DEF Tells
  <2> QED BY <1>1, <1>2, <1>3, <1>5, <1>7, <2>1, <2>2, RelayKeeps, Zenon
<1>8. CASE ~cond /\ call.peer.masque /\ Manager!Goto("http2")
  <2>1. pc' = "http2" /\ at' = 1 /\ tried' = tried
    BY <1>8 DEF Manager!Goto
  <2>2. Left(pc, at, call) = rest
    <3> HIDE DEF R, rest, A, cond
    <3> QED BY <1>1, <1>3, <1>4, <1>8, Zenon DEF Manager!If
  <2> HIDE DEF rest
  <2> QED BY <1>1, <1>5, <1>8, <2>1, <2>2, ManagerGoes, SMTT(30)
<1>9. CASE ~Manager!MasqueApplies /\ Manager!Goto("failed")
  <2>1. pc' = "failed" /\ at' = 1 /\ tried' = tried
    BY <1>9 DEF Manager!Goto
  <2>2. Left(pc, at, call) = << >>
    <3>1. CASE ~call.peer.masque
      <4>1. rest = << >>
        BY <3>1 DEF Manager!FromHttp2, Manager!If
      <4> HIDE DEF R, rest, A
      <4> QED BY <1>1, <1>3, <1>4, <3>1, <4>1, SMTT(30) DEF Manager!If
    <3>2. CASE call.peer.masque
      <4>1. A = 0
        <5>1. call.peer.proxies \in Nat /\ MaxProxies \in Nat
          BY <1>1, CalleeAssumption, SMTT(30) DEF CallRecords
        <5>2. call.peer.proxies = 0
          BY <1>9, <3>2, <5>1, SMTT(30) DEF Manager!MasqueApplies
        <5> QED BY <5>1, <5>2 DEF Manager!Attempts
      <4>2. at = 1 /\ 1 \in 1 .. A + 1 /\ 1 > A
        BY <1>1, <4>1
      <4>3. R(1) = << >> /\ Manager!RelaysFrom(call, "http2", 1) = << >>
        BY <1>1, <1>2, <4>2, StepNames, RelaysUnfold, Zenon
      <4>4. rest = << >>
        BY <4>3, SMTT(30) DEF Manager!FromHttp2, Manager!If
      <4>5. Left(pc, at, call) = Manager!If(cond, R(1)) \o rest
        BY <1>3, <4>2, SMTT(30)
      <4> HIDE DEF R, rest, A, cond
      <4> QED BY <1>4, <4>3, <4>4, <4>5, SMTT(30) DEF Manager!If
    <3> QED BY <3>1, <3>2, SMTT(30)
  <2> QED BY <1>1, <1>6, <2>1, <2>2, ManagerGoes, SMTT(30)
<1>10. Manager!MasqueApplies => call.peer.masque
  BY DEF Manager!MasqueApplies
<1> QED BY <1>7, <1>8, <1>9, <1>10, SMTT(30) DEF Manager!try_masque_http3

LEMMA Http2Keeps ==
  ASSUME ManagerInv, UNCHANGED <<local_nat, udp_blocked, call>>, Manager!try_masque_http2
  PROVE  ManagerInv'
<1> DEFINE A == Manager!Attempts(call.peer.proxies)
           R(k) == Manager!RelaysFrom(call, "http2", k)
<1>1. /\ pc = "http2" /\ InChain(pc) /\ call \in CallRecords /\ at \in 1 .. A + 1 /\ call.peer.masque
      /\ Manager!EachProxy("http2", "failed", "MasqueHttp2")
  BY DEF Manager!try_masque_http2, ManagerInv, InChain, Place
<1>2. A \in Nat /\ << >> \in Seq(ChainSteps) /\ \A i \in Nat : <<"http2", i>> \in ChainSteps
  <2>1. << >> \in Seq(ChainSteps)
    OBVIOUS
  <2> QED BY <1>1, <2>1, CallFacts, StepNames, Zenon
<1>3. \A k \in 1 .. A + 1 : R(k) \in Seq(ChainSteps)
  BY <1>1, <1>2, RelaysUnfold, Zenon
<1>4. \A k \in 1 .. A + 1 : Place(pc, k, call) /\ Left(pc, k, call) = R(k)
  BY <1>1 DEF Place, Left, Manager!If
<1>5. \A k \in 1 .. A + 1 : R(k) \o << >> = R(k)
  <2> HIDE DEF R, A
  <2> QED BY <1>3, ConcatEmpty
<1>6. InChain("failed") /\ Place("failed", 1, call) /\ Left("failed", 1, call) = << >>
  BY DEF InChain, Place, Left
<1>7. Tells("http2", "MasqueHttp2", "tunnel", call.blocked)
  BY DEF Tells
<1>8. \A k \in 1 .. A + 1 : Place(pc, k, call) /\ Left(pc, k, call) = R(k) \o << >>
  BY <1>4, <1>5, SMTT(30)
<1> QED BY <1>1, <1>2, <1>6, <1>7, <1>8, RelayKeeps, Zenon

LEMMA FailedKeeps ==
  ASSUME ManagerInv, UNCHANGED <<local_nat, udp_blocked, call>>, Manager!AllMethodsFailed
  PROVE  ManagerInv'
<1>1. /\ pc = "failed" /\ pc' = "returned" /\ tried' = tried
      /\ result' = [error |-> "AllMethodsFailed", logged |-> Manager!EndReason]
      /\ call' = call /\ local_nat' = local_nat /\ udp_blocked' = udp_blocked
  BY SMTT(30) DEF Manager!AllMethodsFailed
<1>2. tried \in Seq(ChainSteps) /\ tried \o << >> = Manager!DecisionTree(call) /\ call \in CallRecords
  BY <1>1 DEF ManagerInv, InChain, Left
<1>3. tried = Manager!DecisionTree(call) /\ << >> \in Seq(ChainSteps)
  BY <1>2, ConcatEmpty, SMTT(30)
<1>4. ~Manager!IsConn'
  BY <1>1 DEF Manager!IsConn
<1>5. Manager!MethodTruthful'
  BY <1>4, SMTT(30) DEF Manager!MethodTruthful
<1>6. Place(pc', at', call') /\ ~InChain(pc')
  BY <1>1 DEF Place, InChain
<1>7. \E r \in Seq(ChainSteps) : tried' \o r = Manager!DecisionTree(call')
  BY <1>1, <1>2, <1>3, Zenon
<1> QED BY <1>1, <1>2, <1>3, <1>5, <1>6, <1>7, SMTT(30) DEF ManagerInv

LEMMA EstablishKeeps ==
  ASSUME ManagerInv, Manager!establish_connection
  PROVE  ManagerInv'
<1>1. /\ pc = "idle" /\ pc' = "ipv6" /\ tried' = tried /\ at' = at
      /\ call' = [call EXCEPT !.local = local_nat, !.blocked = udp_blocked]
      /\ local_nat' = local_nat /\ udp_blocked' = udp_blocked
  BY DEF Manager!establish_connection
<1>2. call' \in CallRecords
  BY <1>1, Zenon DEF ManagerInv, CallRecords
<1>3. tried' = << >> /\ tried' \in Seq(ChainSteps)
  BY <1>1 DEF ManagerInv
<1>4. Left(pc', at', call') = Manager!DecisionTree(call')
  BY <1>1 DEF Left
<1>5. << >> \o Manager!DecisionTree(call') = Manager!DecisionTree(call')
  BY <1>2, TreeTypes, ConcatEmpty
<1>6. Place(pc', at', call') /\ InChain(pc')
  BY <1>1 DEF Place, InChain
<1>7. Manager!MethodTruthful'
  BY <1>1 DEF Manager!MethodTruthful, Manager!Returned
<1> QED BY <1>1, <1>2, <1>3, <1>4, <1>5, <1>6, <1>7, SMTT(30) DEF ManagerInv

LEMMA SettersKeep ==
  ASSUME ManagerInv, Manager!set_local_nat_info \/ Manager!set_nat_prober \/ Manager!set_udp_blocked
  PROVE  ManagerInv'
<1>1. /\ UNCHANGED <<pc, at, call, tried, result>>
      /\ local_nat' \in SUBSET LocalNats /\ udp_blocked' \in BOOLEAN
  BY DEF ManagerInv, Manager!set_local_nat_info, Manager!set_nat_prober, Manager!set_udp_blocked
<1> QED BY <1>1, Zenon DEF ManagerInv, Manager!MethodTruthful, Manager!Returned, Manager!IsConn

LEMMA ManagerStep ==
  ASSUME ManagerInv, Manager!Next
  PROVE  ManagerInv'
<1>1. CASE Manager!establish_connection
  BY <1>1, EstablishKeeps, SMTT(30)
<1>2. CASE Manager!Chain
  BY <1>2, Ipv6Keeps, RaceKeeps, Ipv6DirectKeeps, OpenKeeps, FallbackKeeps, PredictionKeeps,
     Http3Keeps, Http2Keeps, FailedKeeps, SMTT(30) DEF Manager!Chain
<1>3. CASE Manager!set_local_nat_info \/ Manager!set_nat_prober \/ Manager!set_udp_blocked
  BY <1>3, SettersKeep
<1> QED BY <1>1, <1>2, <1>3 DEF Manager!Next
=============================================================================
