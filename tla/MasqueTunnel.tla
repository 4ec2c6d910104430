---------------------------- MODULE MasqueTunnel ----------------------------
(***************************************************************************)
(* A client's MASQUE tunnel (masque.rs): how it is established over HTTP/3 *)
(* or HTTP/2, recovered over the known proxies and closed, the tasks that  *)
(* bridge an HTTP/2 tunnel to a loopback QUIC connection, and the cache of *)
(* proxies with the order in which recovery tries them (proxy.rs).         *)
(*                                                                         *)
(* The methods take the tunnel by &mut, so at most one of them runs.  The  *)
(* awaits of one attempt to connect differ only in the error they report:  *)
(* an attempt goes on until it fails, succeeds, or the caller drops the    *)
(* call.  A bridge is what create_loopback_quic_pair starts: one task for  *)
(* each direction.  The task that starts the two returns when the first of *)
(* them ends, and that does not stop the other.                            *)
(***************************************************************************)
EXTENDS Naturals, Sequences, FiniteSets, Functions, StableSort

CONSTANTS
  Lists,        \* the lists of proxies that discovery may return
  Latency,      \* proxy -> latency_hint_ms
  Ttl,          \* ProxyCache.ttl
  MaxTime,      \* bound on the clock
  MaxTunnels    \* bound on the HTTP/2 tunnels ever established

VARIABLES now, cache, tun, op, bridges, tried

vars == <<now, cache, tun, op, bridges, tried>>

Proxies == UNION {Range(l) : l \in Lists}

(* last_used and last_proxy_url: {} or {proxy}.                            *)
NoCache == [proxies |-> << >>, last_used |-> {}, created_at |-> 0]
NoTunnel == [proxy_url |-> {}, transport |-> "Http3", state |-> "none", bridge |-> 0]
Idle == [name |-> "idle", list |-> << >>, via |-> "Http3", order |-> << >>]

Init ==
  /\ now = 0 /\ cache = NoCache /\ tun = NoTunnel /\ op = Idle
  /\ bridges = << >> /\ tried = << >>

----------------------------------------------------------------------------
(* ProxyCache and TunnelRecoveryHandler, which are given the same records. *)
is_valid == now - cache.created_at < Ttl /\ cache.proxies # << >>

(* The first one with the least latency.                                   *)
Fastest(list) ==
  list[CHOOSE i \in DOMAIN list :
         \A j \in DOMAIN list : \/ Latency[list[i]] < Latency[list[j]]
                                \/ Latency[list[i]] = Latency[list[j]] /\ i <= j]

get_best ==
  IF ~is_valid THEN {}
  ELSE IF cache.last_used \cap Range(cache.proxies) # {} THEN cache.last_used
  ELSE {Fastest(cache.proxies)}

(* The last proxy, if it is listed, then the others by latency.            *)
recovery_proxy_order ==
  LET known == cache.last_used \cap Range(cache.proxies)
      listed == IF known = {} THEN << >> ELSE <<CHOOSE r \in known : TRUE>>
      others == SelectSeq(cache.proxies, LAMBDA r : r \notin cache.last_used)
  IN listed \o sort_by_key(others, [i \in DOMAIN others |-> Latency[others[i]]])

update(list) ==
  /\ cache' = [cache EXCEPT !.proxies = list, !.created_at = now]
  /\ UNCHANGED <<now, tun, op, bridges, tried>>

clear ==
  /\ cache' = [NoCache EXCEPT !.created_at = now]
  /\ UNCHANGED <<now, tun, op, bridges, tried>>

Tick ==
  /\ now < MaxTime
  /\ now' = now + 1
  /\ UNCHANGED <<cache, tun, op, bridges, tried>>

----------------------------------------------------------------------------
(* detect_masque_need.                                                     *)
NatTypes == {"None", "Cone", "SymmetricSequential", "SymmetricPseudo", "SymmetricRandom"}
predictable == {"SymmetricSequential", "SymmetricPseudo"}

detect_masque_need(local, peer, udp_blocked) ==
  \/ udp_blocked
  \/ local = "SymmetricRandom" /\ peer = "SymmetricRandom"
  \/ {local, peer} \cap ({"None", "Cone"} \cup predictable) = {}

Bridge == [loopback |-> "open", h2_to_quic |-> "reads", quic_to_h2 |-> TRUE]

Busy == op.name \in {"establish", "recover"}

Begin(name, list, via) ==
  /\ op' = [name |-> name, list |-> list, via |-> via, order |-> list]
  /\ tried' = <<<<list[1], via>>>>

(* establish_masque_tunnel_with_token for the proxy the cache suggests.    *)
establish(udp_blocked) ==
  /\ ~Busy /\ tun.state = "none"
  /\ \E p \in get_best :
       Begin("establish", <<p>>, IF udp_blocked THEN "Http2" ELSE "Http3")
  /\ UNCHANGED <<now, cache, tun, bridges>>

(* recover sets the state before its loop, which may have nothing to try.  *)
recover ==
  LET order == recovery_proxy_order
  IN /\ ~Busy /\ tun.state # "none"
     /\ IF order = << >>
        THEN op' = Idle /\ tried' = << >> /\ tun' = [tun EXCEPT !.state = "Failed"]
        ELSE Begin("recover", order, "Http3") /\ tun' = [tun EXCEPT !.state = "Recovering"]
     /\ UNCHANGED <<now, cache, bridges>>

(* connect_http3 or connect_http2 succeeds: *self is replaced, and the     *)
(* caller notes the proxy.                                                 *)
Connected(via, new) ==
  /\ Busy /\ op.via = via
  /\ tun' = [new EXCEPT !.proxy_url = {op.list[1]}, !.transport = via, !.state = "Active"]
  /\ cache' = [cache EXCEPT !.last_used = {op.list[1]}]
  /\ op' = Idle /\ tried' = << >> /\ UNCHANGED now

connect_http3 == Connected("Http3", NoTunnel) /\ UNCHANGED bridges

connect_http2 ==
  /\ Len(bridges) < MaxTunnels
  /\ Connected("Http2", [NoTunnel EXCEPT !.bridge = Len(bridges) + 1])
  /\ bridges' = Append(bridges, Bridge)

(* An attempt fails: the other transport, then the next proxy, then an error. *)
Retry(list, via) ==
  /\ op' = [op EXCEPT !.list = list, !.via = via]
  /\ tried' = Append(tried, <<list[1], via>>)
  /\ UNCHANGED tun

GiveUp ==
  IF op.name = "recover"
  THEN /\ op' = [op EXCEPT !.name = "gave up"]
       /\ tun' = [tun EXCEPT !.state = "Failed"]
       /\ UNCHANGED tried
  ELSE op' = Idle /\ tried' = << >> /\ UNCHANGED tun

(* Faulty: HTTP/2 is tried at the last proxy only.                         *)
attempt_failed_http2_once ==
  IF op.via = "Http3" /\ Len(op.list) = 1 THEN Retry(op.list, "Http2")
  ELSE IF Len(op.list) > 1 THEN Retry(Tail(op.list), "Http3")
  ELSE GiveUp

attempt_failed ==
  IF op.via = "Http3" THEN Retry(op.list, "Http2")
  ELSE IF Len(op.list) > 1 THEN Retry(Tail(op.list), "Http3")
  ELSE GiveUp

fail ==
  /\ Busy
  /\ attempt_failed
  /\ UNCHANGED <<now, cache, bridges>>

(* The caller drops the call; a tunnel in recovery stays Recovering.       *)
abandon ==
  /\ Busy
  /\ op' = Idle /\ tried' = << >>
  /\ UNCHANGED <<now, cache, tun, bridges>>

close ==
  /\ ~Busy /\ tun.state # "none"
  /\ op' = Idle /\ tried' = << >>
  /\ tun' = [tun EXCEPT !.state = "Failed"]
  /\ bridges' = [b \in DOMAIN bridges |->
                   IF b = tun.bridge THEN [bridges[b] EXCEPT !.loopback = "closed"]
                                     ELSE bridges[b]]
  /\ UNCHANGED <<now, cache>>

----------------------------------------------------------------------------
Bridged(b, new) ==
  /\ bridges' = [bridges EXCEPT ![b] = new]
  /\ UNCHANGED <<now, cache, tun, op, tried>>

(* The proxy ends the stream.                                              *)
proxy_ends(b) ==
  /\ bridges[b].h2_to_quic = "reads"
  /\ Bridged(b, [bridges[b] EXCEPT !.h2_to_quic = "at end"])

(* The last handle of a tunnel that recovery replaced is dropped.          *)
drop_old(b) ==
  /\ b # tun.bridge /\ bridges[b].loopback = "open"
  /\ Bridged(b, [bridges[b] EXCEPT !.loopback = "closed"])

(* The loop ends with the stream.                                          *)
h2_to_quic(b) ==
  /\ bridges[b].h2_to_quic = "at end"
  /\ Bridged(b, [bridges[b] EXCEPT !.h2_to_quic = "ended"])

(* A capsule arrives that cannot be forwarded, since the loopback          *)
(* connection is closed, or that decode_datagram_capsule panics on.        *)
bad_capsule(b) ==
  /\ bridges[b].h2_to_quic = "reads"
  /\ Bridged(b, [bridges[b] EXCEPT !.h2_to_quic = "ended"])

(* The other direction ends with the loopback connection only: a failed    *)
(* send_data is logged.                                                    *)
quic_to_h2(b) ==
  /\ bridges[b].quic_to_h2 /\ bridges[b].loopback = "closed"
  /\ Bridged(b, [bridges[b] EXCEPT !.quic_to_h2 = FALSE])

BridgeEnds == \E b \in DOMAIN bridges : quic_to_h2(b) \/ h2_to_quic(b)

Next ==
  \/ \E l \in Lists : update(l)
  \/ clear \/ Tick
  \/ \E blocked \in BOOLEAN : establish(blocked)
  \/ recover \/ connect_http3 \/ connect_http2 \/ fail \/ abandon \/ close
  \/ \E b \in DOMAIN bridges :
       proxy_ends(b) \/ drop_old(b) \/ h2_to_quic(b) \/ bad_capsule(b) \/ quic_to_h2(b)

(* The runtime polls a task that can go on.                                *)
Fairness == WF_vars(BridgeEnds)

Spec == Init /\ [][Next]_vars /\ Fairness

----------------------------------------------------------------------------
TypeOK ==
  /\ now \in 0 .. MaxTime
  /\ cache.proxies \in Lists \cup {<< >>} /\ cache.last_used \in SUBSET Proxies
  /\ tun.state \in {"none", "Active", "Recovering", "Failed"}
  /\ tun.bridge \in 0 .. Len(bridges)
  /\ op.name \in {"idle", "establish", "recover", "gave up"}

(* A tunnel that says Active over HTTP/2 has the bridge that was built     *)
(* last, whose loopback connection is open and whose task still sends; one *)
(* over HTTP/3 has none.  Whether the other task still receives, nobody    *)
(* asks: the tunnel stays Active when the proxy ends the stream.           *)
ActiveIsWhole ==
  tun.state = "Active" =>
    /\ (tun.transport = "Http2") <=> (tun.bridge # 0)
    /\ tun.bridge # 0 => /\ tun.bridge = Len(bridges)
                         /\ bridges[tun.bridge].loopback = "open"
                         /\ bridges[tun.bridge].quic_to_h2

(* No attempt is made twice, each proxy is tried over HTTP/2 right after   *)
(* HTTP/3, and recover fails only after it tried every proxy it was given. *)
TriesEverything ==
  /\ \A i, j \in DOMAIN tried : tried[i] = tried[j] => i = j
  /\ \A i, j \in DOMAIN tried :
       (tried[i] = <<tried[j][1], "Http3">> /\ tried[j][2] = "Http2") => j = i + 1
  /\ op.name = "gave up" => Range(tried) = Range(op.order) \X {"Http3", "Http2"}

(* The proxy get_best suggests is the one recovery would try first, is at  *)
(* most the ttl old, and both peers of a call agree whether they need one. *)
BestIsFirst ==
  /\ \A p \in get_best : p = recovery_proxy_order[1] /\ now - cache.created_at < Ttl
  /\ Range(recovery_proxy_order) = Range(cache.proxies)
  /\ \A l, r \in NatTypes, u \in BOOLEAN :
       detect_masque_need(l, r, u) = detect_masque_need(r, l, u)

Over(b) ==
  b \in DOMAIN bridges /\ (bridges[b].loopback = "closed" \/ bridges[b].h2_to_quic = "at end")

Released(b) ==
  /\ b \in DOMAIN bridges
  /\ bridges[b].loopback = "closed" => ~bridges[b].quic_to_h2
  /\ bridges[b].h2_to_quic # "at end"

(* Once the loopback connection is closed, by close() or by dropping the   *)
(* tunnel, the task that sends to the proxy ends, and once the proxy ended *)
(* the stream the one that receives does.                                  *)
BridgesEnd == \A b \in 1 .. MaxTunnels : Over(b) ~> Released(b)
=============================================================================
