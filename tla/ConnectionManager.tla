-------------------------- MODULE ConnectionManager --------------------------
(***************************************************************************)
(* ConnectionManager::establish_connection (connection.rs): the fallback   *)
(* chain of one call, while other tasks store new NAT information and set  *)
(* the udp_blocked flag.  The races inside one method are HappyEyeballs,   *)
(* SimultaneousOpen and PredictionProbe; here a method is one attempt with *)
(* an outcome.  An address list is a sequence of "ok" (parses) and "bad".  *)
(***************************************************************************)
EXTENDS WireTypes, FiniteSets

CONSTANTS
  Peers,        \* the peer records a call may be for
  LocalNats,    \* NAT types the local prober may report
  MaxProxies    \* config.masque_max_proxy_attempts

VARIABLES
  local_nat,    \* local_nat_info: {} or the NAT type
  udp_blocked,
  pc,           \* the method the chain is at
  at,           \* position in the list the method goes through
  call,         \* the peer record, proxies, and the two values read at the start
  tried,        \* history: the attempts made, in order
  result        \* "none", "AllMethodsFailed", or the connection

vars == <<local_nat, udp_blocked, pc, at, call, tried, result>>

Parsed(addrs) == {i \in 1 .. Len(addrs) : addrs[i] = "ok"}
peer_nat == NatInfoFromWire(call.peer.nat)
Attempts(proxies) == IF proxies < MaxProxies THEN proxies ELSE MaxProxies

Init ==
  /\ local_nat = {} /\ udp_blocked = FALSE
  /\ pc = "idle" /\ at = 1
  /\ call \in {[peer |-> p, local |-> {}, blocked |-> FALSE] : p \in Peers}
  /\ tried = <<>> /\ result = "none"

----------------------------------------------------------------------------
(* set_local_nat_info, or probe_nat and reprobe_nat storing their result.  *)
set_local_nat_info ==
  /\ \E n \in LocalNats : local_nat' = {n}
  /\ UNCHANGED <<udp_blocked, pc, at, call, tried, result>>

(* set_nat_prober stores what the prober has cached, perhaps nothing.      *)
set_nat_prober ==
  /\ \E n \in {{}} \cup {{t} : t \in LocalNats} : local_nat' = n
  /\ UNCHANGED <<udp_blocked, pc, at, call, tried, result>>

set_udp_blocked ==
  /\ \E b \in BOOLEAN : udp_blocked' = b
  /\ UNCHANGED <<local_nat, pc, at, call, tried, result>>

(* The call reads both values once and then looks at its copies.           *)
establish_connection ==
  /\ pc = "idle"
  /\ call' = [call EXCEPT !.local = local_nat, !.blocked = udp_blocked]
  /\ pc' = "ipv6"
  /\ UNCHANGED <<local_nat, udp_blocked, at, tried, result>>

Goto(next) == pc' = next /\ at' = 1 /\ UNCHANGED <<tried, result>>
Attempt(a) == tried' = Append(tried, a)
Connected(method, family) ==
  /\ pc' = "returned" /\ at' = 1
  /\ result' = [method |-> method, family |-> family]

(* Steps 1a and 1b.  The race of try_happy_eyeballs is over all addresses. *)
Ipv6 ==
  /\ pc = "ipv6"
  /\ call.peer.v6 # <<>> /\ ~call.blocked
  /\ IF call.peer.v4 # <<>> THEN Goto("race") ELSE Goto("ipv6direct")

NoIpv6 ==
  /\ pc = "ipv6"
  /\ call.peer.v6 = <<>> \/ call.blocked
  /\ Goto("open")

try_happy_eyeballs ==
  /\ pc = "race"
  /\ \/ /\ Parsed(call.peer.v6) = {} /\ Parsed(call.peer.v4) = {}
        /\ Goto("open")
     \/ /\ Parsed(call.peer.v6) # {} \/ Parsed(call.peer.v4) # {}
        /\ Attempt(<<"race", 1>>)
        /\ \/ pc' = "open" /\ at' = 1 /\ UNCHANGED result
           \/ Parsed(call.peer.v6) # {} /\ Connected("Ipv6Direct", "v6")
           \/ Parsed(call.peer.v4) # {} /\ Connected("Ipv4Cone", "v4")

(* A loop over addresses: skips what does not parse, leaves at the end.    *)
DialEach(list, name, next, method, family) ==
  \/ at > Len(list) /\ Goto(next)
  \/ /\ at <= Len(list) /\ list[at] = "bad"
     /\ at' = at + 1 /\ UNCHANGED <<pc, tried, result>>
  \/ /\ at <= Len(list) /\ list[at] = "ok"
     /\ Attempt(<<name, at>>)
     /\ \/ at' = at + 1 /\ UNCHANGED <<pc, result>>
        \/ Connected(method, family)

try_ipv6_direct ==
  pc = "ipv6direct" /\ DialEach(call.peer.v6, "ipv6direct", "open", "Ipv6Direct", "v6")

(* Step 2, if at least one side is behind a cone NAT.                      *)
HasCone == "Cone" \in call.local \/ peer_nat.nat_type = "Cone"

try_simultaneous_open ==
  /\ pc = "open"
  /\ \/ /\ ~HasCone \/ call.blocked \/ Parsed(call.peer.v4) = {}
        /\ Goto("predict")
     \/ /\ HasCone /\ ~call.blocked /\ Parsed(call.peer.v4) # {}
        /\ Attempt(<<"open", 1>>)
        /\ \/ Connected("Ipv4Cone", "v4")
           \/ pc' = "fallback" /\ at' = 1 /\ UNCHANGED result
           \/ pc' = "panicked" /\ UNCHANGED <<at, result>>

OpenFallback ==
  pc = "fallback" /\ DialEach(call.peer.v4, "fallback", "predict", "Ipv4Cone", "v4")

(* Step 3, if one side is predictable; only the peer's range is probed.    *)
Predictable ==
  (\E n \in call.local : is_predictable(n)) \/ is_predictable(peer_nat.nat_type)

try_port_prediction ==
  /\ pc = "predict"
  /\ \/ /\ ~Predictable \/ call.blocked \/ peer_nat.prediction = NoPrediction
        /\ Goto("http3")
     \/ /\ Predictable /\ ~call.blocked /\ peer_nat.prediction # NoPrediction
        /\ Attempt(<<"predict", 1>>)
        /\ \/ pc' = "http3" /\ at' = 1 /\ UNCHANGED result
           \/ Connected("Ipv4Prediction", "v4")

(* Steps 4 and 5: the first MaxProxies proxies, then the same over HTTP/2. *)
MasqueApplies == call.peer.masque /\ call.peer.proxies > 0

EachProxy(name, next, method) ==
  \/ at > Attempts(call.peer.proxies) /\ Goto(next)
  \/ /\ at <= Attempts(call.peer.proxies)
     /\ Attempt(<<name, at>>)
     /\ \/ at' = at + 1 /\ UNCHANGED <<pc, result>>
        \/ Connected(method, "tunnel")

try_masque_http3_rereads ==
  /\ pc = "http3"
  /\ IF MasqueApplies /\ ~udp_blocked THEN EachProxy("http3", "http2", "Masque")
     ELSE IF MasqueApplies THEN Goto("http2") ELSE Goto("failed")

try_masque_http3 ==
  /\ pc = "http3"
  /\ IF MasqueApplies /\ ~call.blocked THEN EachProxy("http3", "http2", "Masque")
     ELSE IF MasqueApplies THEN Goto("http2") ELSE Goto("failed")

try_masque_http2_all ==
  /\ pc = "http2"
  /\ EachProxy("http2", "failed", "Masque")

try_masque_http2 ==
  /\ pc = "http2"
  /\ EachProxy("http2", "failed", "MasqueHttp2")

(* Step 6: the reason is computed and logged; the error does not carry it. *)
EndReason ==
  CASE call.blocked -> "FailedUdpBlocked"
    [] ~call.blocked /\ "SymmetricRandom" \in call.local
         /\ peer_nat.nat_type = "SymmetricRandom" -> "FailedIpv4Random"
    [] OTHER -> IF call.peer.proxies = 0 THEN "FailedMasqueUnreachable"
                                         ELSE "FailedNetwork"

AllMethodsFailed ==
  /\ pc = "failed"
  /\ pc' = "returned" /\ result' = [error |-> "AllMethodsFailed", logged |-> EndReason]
  /\ UNCHANGED <<at, tried>>

Chain ==
  /\ \/ Ipv6 \/ NoIpv6 \/ try_happy_eyeballs \/ try_ipv6_direct
     \/ try_simultaneous_open \/ OpenFallback \/ try_port_prediction
     \/ try_masque_http3 \/ try_masque_http2 \/ AllMethodsFailed
  /\ UNCHANGED <<local_nat, udp_blocked, call>>

Next ==
  \/ establish_connection \/ Chain \/ set_local_nat_info \/ set_nat_prober \/ set_udp_blocked

Spec == Init /\ [][Next]_vars

----------------------------------------------------------------------------
Returned == pc = "returned"
IsConn == "method" \in DOMAIN result

TypeOK ==
  /\ local_nat \in SUBSET LocalNats /\ Cardinality(local_nat) <= 1
  /\ udp_blocked \in BOOLEAN
  /\ call.peer \in Peers /\ call.local \subseteq LocalNats
  /\ at \in 1 .. 4
  /\ Returned =>
       \/ IsConn /\ result.method \in Members(ConnectionMethod) \ {"None"}
       \/ ~IsConn /\ is_failure(result.logged)

(* The fallback chain (connection.rs:5) as the list of attempts for the    *)
(* NAT information and the flag of one moment, from each step on.          *)
ParsedFrom(name, addrs) ==
  LET from[i \in 1 .. Len(addrs) + 1] ==
        IF i > Len(addrs) THEN <<>>
        ELSE IF addrs[i] = "ok" THEN <<<<name, i>>>> \o from[i + 1] ELSE from[i + 1]
  IN from

EachParsed(name, addrs) == ParsedFrom(name, addrs)[1]
RelaysFrom(c, name, k) ==
  [i \in 1 .. Attempts(c.peer.proxies) - k + 1 |-> <<name, i + k - 1>>]
If(cond, attempts) == IF cond THEN attempts ELSE <<>>

NatTypes(c) == c.local \cup {NatInfoFromWire(c.peer.nat).nat_type}

FromHttp2(c) == If(c.peer.masque, RelaysFrom(c, "http2", 1))

FromHttp3(c) == If(~c.blocked /\ c.peer.masque, RelaysFrom(c, "http3", 1)) \o FromHttp2(c)

FromPrediction(c) ==
  If(/\ ~c.blocked /\ NatTypes(c) \cap {"SymmetricSequential", "SymmetricPseudo"} # {}
     /\ NatInfoFromWire(c.peer.nat).prediction # NoPrediction, <<<<"predict", 1>>>>)
  \o FromHttp3(c)

FromOpen(c) ==
  If(~c.blocked /\ "Cone" \in NatTypes(c) /\ Parsed(c.peer.v4) # {},
     <<<<"open", 1>>>> \o EachParsed("fallback", c.peer.v4))
  \o FromPrediction(c)

FromRace(c) ==
  If(Parsed(c.peer.v6) # {} \/ Parsed(c.peer.v4) # {}, <<<<"race", 1>>>>) \o FromOpen(c)

DecisionTree(c) ==
  IF c.peer.v6 = <<>> \/ c.blocked THEN FromOpen(c)
  ELSE IF c.peer.v4 # <<>> THEN FromRace(c)
  ELSE EachParsed("ipv6direct", c.peer.v6) \o FromOpen(c)

(* Whatever is stored meanwhile, the attempts made are those the decision  *)
(* tree lists for the values read at the start, in its order, and the call *)
(* fails only at the end of that list.                                     *)
FollowsDecisionTree ==
  /\ Len(tried) <= Len(DecisionTree(call))
  /\ tried = SubSeq(DecisionTree(call), 1, Len(tried))
  /\ (Returned /\ ~IsConn) => tried = DecisionTree(call)

(* The reported method tells how the connection was made: its last attempt,*)
(* the address family and whether it is relayed (a tunnel is attached).    *)
MethodTruthful ==
  (Returned /\ IsConn) =>
    LET last == tried[Len(tried)][1] IN
      /\ (result.family = "tunnel") <=> is_relayed(result.method)
      /\ (result.family = "v6") <=> (result.method = "Ipv6Direct")
      /\ (last = "http2") <=> (result.method = "MasqueHttp2")
      /\ is_direct(result.method) => ~call.blocked

=============================================================================
