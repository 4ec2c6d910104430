----------------------------- MODULE Discovery -----------------------------
(***************************************************************************)
(* The discovery layer (discovery.rs): a peer, a user name or the MASQUE   *)
(* proxies are looked up in the DHT and at the signaling server, one after *)
(* the other in the order of the discovery mode, while other nodes publish *)
(* and refresh records and time passes.                                    *)
(*                                                                         *)
(* A record is known by the time it was made and where it was read.  The   *)
(* DHT and the server may fail every request, answer it late (a timeout)   *)
(* or with bytes that do not parse: for the caller all these are errors.   *)
(* A behaviour has lookups of one kind, which Init chooses, and the stores *)
(* that matter to them.                                                    *)
(***************************************************************************)
EXTENDS Naturals, Sequences, StableSort

CONSTANTS
  Proxies,      \* the node ids that discover_proxy is given, in order
  Latency,      \* latency_hint_ms of each proxy
  Capacity,     \* capacity of each proxy
  Region,       \* region of each proxy, "" if it has none
  Ttl,          \* ttl_seconds of every record
  MaxTime       \* bound on the clock

VARIABLES
  now,          \* Unix time
  dht,          \* what the DHT holds under the keys of the peer, its name and the proxies
  pub,          \* the peer's publish_peer_record and its record refresh
  op,           \* the lookup in progress, or the last one
  picked        \* what select_proxy returned last

vars == <<now, dht, pub, op, picked>>

Nodes == {Proxies[i] : i \in 1 .. Len(Proxies)}
Keys == {"peer", "name"} \cup Nodes
Absent == [at |-> 0, there |-> FALSE]
Made(t) == [at |-> t, there |-> TRUE]

expired_at(r, t) == t > r.at + Ttl
is_expired(r) == expired_at(r, now)

Idle(kind) ==
        [kind |-> kind, src |-> "none", step |-> "none", fallback |-> FALSE, left |-> << >>,
         asked |-> << >>, found |-> << >>, result |-> "none", via |-> "none", rec |-> Absent, when |-> 0]

NonePicked == [proxy |-> "none", rec |-> Absent, when |-> 0]

Init ==
  /\ now = 0
  /\ dht = [k \in Keys |-> Absent]
  /\ pub = [pc |-> "idle", rec |-> Absent, refresh |-> Absent, at |-> "peer"]
  /\ op \in {Idle(kind) : kind \in {"peer", "name", "proxy"}}
  /\ picked = NonePicked

----------------------------------------------------------------------------
(* Publishing a record that was made now or earlier.  A put stores the     *)
(* record or fails.                                                        *)
Put(k, r) == dht' = [dht EXCEPT ![k] = r]

publish_peer_record(made) ==
  /\ pub.pc = "idle" /\ op.kind # "proxy"
  /\ pub' = [pub EXCEPT !.pc = "peer", !.rec = Made(made)]
  /\ UNCHANGED <<now, dht, op, picked>>

PutPeer ==
  /\ pub.pc = "peer"
  /\ \/ Put("peer", pub.rec) /\ pub' = [pub EXCEPT !.pc = "name"]
     \/ UNCHANGED dht /\ pub' = [pub EXCEPT !.pc = "idle"]
  /\ UNCHANGED <<now, op, picked>>

(* The name record has no time of its own.                                 *)
PutName ==
  /\ pub.pc = "name"
  /\ Put("name", Made(0)) \/ UNCHANGED dht
  /\ pub' = [pub EXCEPT !.pc = "idle"]
  /\ UNCHANGED <<now, op, picked>>

publish_proxy_record(p, made) ==
  /\ op.kind = "proxy"
  /\ Put(p, Made(made))
  /\ UNCHANGED <<now, pub, op, picked>>

(* The refresh task stores the bytes it was given, time stamp included, in *)
(* the order of its list.                                                  *)
start_record_refresh ==
  /\ pub.rec.there
  /\ pub' = [pub EXCEPT !.refresh = pub.rec, !.at = "peer"]
  /\ UNCHANGED <<now, dht, op, picked>>

stop_record_refresh ==
  /\ pub.refresh.there
  /\ pub' = [pub EXCEPT !.refresh = Absent, !.at = "peer"]
  /\ UNCHANGED <<now, dht, op, picked>>

Refresh ==
  /\ pub.refresh.there
  /\ \/ Put(pub.at, IF pub.at = "peer" THEN pub.refresh ELSE Made(0))
     \/ UNCHANGED dht
  /\ pub' = [pub EXCEPT !.at = IF pub.at = "peer" THEN "name" ELSE "peer"]
  /\ UNCHANGED <<now, op, picked>>

Tick ==
  /\ now < MaxTime
  /\ now' = now + 1
  /\ UNCHANGED <<dht, pub, op, picked>>

----------------------------------------------------------------------------
(* Looking up.  Each request to a source is one step.                      *)
Ask(o, src) ==
  [o EXCEPT !.src = src, !.step = o.kind, !.asked = Append(@, src),
            !.left = IF o.kind = "proxy" /\ src = "dht" THEN Proxies ELSE << >>,
            !.found = << >>]

(* The mode that set_mode chose last decides which source is asked first.  *)
Discover(kind, privacy_first) ==
  /\ op.src = "none" /\ op.kind = kind
  /\ op' = Ask(Idle(op.kind), IF privacy_first THEN "dht" ELSE "sig")
  /\ picked' = NonePicked
  /\ UNCHANGED <<now, dht, pub>>

discover_peer(privacy_first) == Discover("peer", privacy_first)

discover_peer_by_username(privacy_first) == Discover("name", privacy_first)

discover_proxy(privacy_first) == Discover("proxy", privacy_first)

Done(o) == [o EXCEPT !.src = "none", !.step = "none", !.when = now]

(* The source failed: the other one is asked, or its error is the result.  *)
Failed ==
  IF op.fallback THEN Done([op EXCEPT !.result = "err"])
  ELSE Ask([op EXCEPT !.fallback = TRUE], IF op.src = "dht" THEN "sig" ELSE "dht")

Found(r) == Done([op EXCEPT !.result = "ok", !.via = op.src, !.rec = r])

Replies(src, step) == op.src = src /\ op.step = step /\ UNCHANGED <<now, dht, pub, picked>>

discover_peer_dht ==
  /\ Replies("dht", "peer")
  /\ \/ /\ dht["peer"].there
        /\ op' = IF is_expired(dht["peer"]) THEN Failed ELSE Found(dht["peer"])
     \/ op' = Failed

resolve_username_dht ==
  /\ Replies("dht", "name")
  /\ \/ dht["name"].there /\ op' = [op EXCEPT !.step = "peer"]
     \/ op' = Failed

(* What SignalingClient::lookup_peer may return: an unsigned record made   *)
(* of the reply, now, or an error.                                         *)
lookup_peer == {Made(now), Absent}

(* SignalingClient::lookup_username: a peer id or an error.                *)
lookup_username == BOOLEAN

discover_peer_signaling ==
  /\ Replies("sig", "peer")
  /\ \E r \in lookup_peer : op' = IF r.there THEN Found(r) ELSE Failed

resolve_username_signaling ==
  /\ Replies("sig", "name")
  /\ \E known \in lookup_username : op' = IF known THEN [op EXCEPT !.step = "peer"] ELSE Failed

----------------------------------------------------------------------------
ByLatency(s) == sort_by_key(s, [i \in DOMAIN s |-> Latency[s[i].proxy]])

(* A list is the result if it is not empty or there is no other source.    *)
List(s) ==
  IF s # << >> \/ op.fallback
  THEN Done([op EXCEPT !.result = "ok", !.via = op.src, !.found = s])
  ELSE Failed

(* One node id after the other, without a timeout of its own; one that is  *)
(* not found, does not parse or has expired is skipped.                    *)
discover_proxy_dht ==
  /\ Replies("dht", "proxy")
  /\ IF op.left = << >> THEN op' = List(ByLatency(op.found))
     ELSE LET p == Head(op.left) IN
          \/ /\ dht[p].there /\ ~is_expired(dht[p])
             /\ op' = [op EXCEPT !.left = Tail(@),
                                 !.found = Append(@, [proxy |-> p, rec |-> dht[p]])]
          \/ op' = [op EXCEPT !.left = Tail(@)]

(* SignalingClient::get_proxies: some of the proxies in the server's       *)
(* order, as unsigned records made now.                                    *)
get_proxies ==
  LET all == [i \in 1 .. Len(Proxies) |-> [proxy |-> Proxies[i], rec |-> Made(now)]]
  IN {SelectSeq(all, LAMBDA e : e.proxy \in ps) : ps \in SUBSET Nodes}

discover_proxy_signaling ==
  /\ Replies("sig", "proxy")
  /\ (\E s \in get_proxies : op' = List(s)) \/ op' = Failed

Eligible_unchecked(e, near) ==
  /\ Capacity[e.proxy] > 0
  /\ near => Region[e.proxy] = ""

(* The filters of select_proxy; near: a max_region_distance was given.     *)
Eligible(e, near) ==
  /\ ~is_expired(e.rec)
  /\ Capacity[e.proxy] > 0
  /\ near => Region[e.proxy] = ""

(* The first of those with the least latency.                              *)
select_proxy(near) ==
  LET ok == {i \in 1 .. Len(op.found) : Eligible(op.found[i], near)}
      latency(i) == Latency[op.found[i].proxy]
  IN /\ op.src = "none" /\ op.kind = "proxy" /\ op.result = "ok"
     /\ \/ ok = {} /\ picked' = NonePicked
        \/ \E i \in ok :
             /\ \A j \in ok : latency(i) < latency(j) \/ (latency(i) = latency(j) /\ i <= j)
             /\ picked' = [proxy |-> op.found[i].proxy, rec |-> op.found[i].rec, when |-> now]
     /\ UNCHANGED <<now, dht, pub, op>>

----------------------------------------------------------------------------
Next ==
  \/ PutPeer \/ PutName \/ Refresh \/ Tick
  \/ start_record_refresh \/ stop_record_refresh
  \/ \E made \in 0 .. now : publish_peer_record(made)
  \/ \E p \in Nodes, made \in 0 .. now : publish_proxy_record(p, made)
  \/ \E privacy_first \in BOOLEAN : \/ discover_peer(privacy_first)
                                  \/ discover_peer_by_username(privacy_first)
                                  \/ discover_proxy(privacy_first)
  \/ discover_peer_dht \/ resolve_username_dht
  \/ discover_peer_signaling \/ resolve_username_signaling
  \/ discover_proxy_dht \/ discover_proxy_signaling
  \/ \E near \in BOOLEAN : select_proxy(near)

Spec == Init /\ [][Next]_vars

----------------------------------------------------------------------------
Stamps == [at : 0 .. MaxTime, there : BOOLEAN]

TypeOK ==
  /\ now \in 0 .. MaxTime
  /\ dht \in [Keys -> Stamps]
  /\ pub \in [pc : {"idle", "peer", "name"}, rec : Stamps, refresh : Stamps, at : {"peer", "name"}]
  /\ op.result \in {"none", "ok", "err"} /\ op.rec \in Stamps
  /\ picked \in [proxy : Nodes \cup {"none"}, rec : Stamps, when : 0 .. MaxTime]

(* What a lookup returns is honest: it fails only after both sources       *)
(* failed, and a peer record from the DHT is at most Ttl old, counted from *)
(* when the peer made it, however often and late it was stored again.      *)
Honest ==
  /\ op.result = "err" => op.asked \in {<<"dht", "sig">>, <<"sig", "dht">>}
  /\ (op.result = "ok" /\ op.via = "dht" /\ op.kind # "proxy") => op.when <= op.rec.at + Ttl

(* The proxy that select_proxy returns was not expired when it was chosen, *)
(* even if the lookups took so long that a part of the list had expired.   *)
PickedIsLive == picked.proxy # "none" => ~expired_at(picked.rec, picked.when)
=============================================================================
