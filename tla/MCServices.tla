----------------------------- MODULE MCServices -----------------------------
(* The rate limiter, the front of the signaling server and the parts of a  *)
(* client around a call (discovery and its records, caches, the fallback   *)
(* chain, predicted ports, audio), checked side by side.  They share no    *)
(* state, so a behaviour is one of the part that its first state names.    *)
(* It leaves the limiter as Init gives it and the variables of the other   *)
(* parts unused.  The limiter's interval is three ticks, so that requests  *)
(* fall inside, on and after its edge, and its time goes past the age at   *)
(* which cleanup drops a bucket.                                           *)
EXTENDS RateLimiter, GatePart, ManagerPart, ServiceParts

VARIABLES
  part,
  sequence, timestamp, jitter_buffer, last_playback_ts, played,    \* of AudioPipeline
  kind, signed, bytes, edited, hops,                               \* of DhtRecords
  step, ports, ipv6, build, info, cached, dialled                  \* of PortPrediction

discVars == <<dht, pub, op, picked>>
ticketVars == <<servers, inserting, issued, taken>>
bookVars == <<book, adding, unswept>>
managerVars == <<local_nat, udp_blocked, pc, at, call, tried, result>>
gateVars == <<wall, key, peers, tokens, reqs, sessions, answer>>
audioVars == <<sequence, timestamp, jitter_buffer, last_playback_ts, played>>
recordVars == <<kind, signed, bytes, edited, hops>>
portVars == <<step, ports, ipv6, build, info, cached, dialled>>
all ==
  <<part, vars, time, discVars, ticketVars, bookVars, managerVars, gateVars, audioVars, recordVars, portVars>>

OneToken == [calls |-> [max_tokens |-> 1, refill_amount |-> 1, refill_interval |-> 3]]

ProxyList == <<"near", "far">>
ProxyLatency == [near |-> 2, far |-> 1]
ProxyCapacity == [near |-> 1, far |-> 1]
ProxyRegion == [near |-> "", far |-> "eu"]

Lists == {<<>>, <<"bad">>, <<"bad", "ok">>}
CalleeKinds ==
  [v6 : Lists, v4 : Lists, proxies : {0, 3}, masque : {TRUE},
   nat : [nat_type : 0 .. 5, prediction : {{}, {0}}]]
  \cup [v6 : {<<"ok", "ok">>}, v4 : {<<>>}, proxies : {1}, masque : BOOLEAN,
        nat : [nat_type : {1}, prediction : {{}}]]

Requests ==
  {[display_name |-> "", nat_type |-> {}, status |-> {}],
   [display_name |-> "ann", nat_type |-> {"CONE"}, status |-> {"IN_CALL"}]}
UnknownEnums == {[display_name |-> "bob", nat_type |-> 9, status |-> 9]}

Audio == INSTANCE AudioPipeline WITH
  FrameSize <- 960, SampleRate <- 48, TargetMs <- 20, MaxFrames <- 5, MaxArrivals <- 6

Records == INSTANCE DhtRecords WITH NewMembers <- 1

Builds == {"debug", "release"}
Ports == INSTANCE PortPrediction WITH
  MinPort <- 4, MaxPort <- 23, MarginSequential <- 1, MarginPseudo <- 3,
  CachedSequential <- 1, CachedPseudo <- 3, MaxProbes <- 7, Threshold <- 3, NumProbes <- 3,
  tried <- dialled

NoTime == time = "unused"
NoDisc == dht = "unused" /\ pub = "unused" /\ op = "unused" /\ picked = "unused"
NoTickets == servers = "unused" /\ inserting = "unused" /\ issued = "unused" /\ taken = "unused"
NoBook == book = "unused" /\ adding = "unused" /\ unswept = "unused"
NoManager ==
  /\ local_nat = "unused" /\ udp_blocked = "unused" /\ pc = "unused" /\ at = "unused"
  /\ call = "unused" /\ tried = "unused" /\ result = "unused"
NoGate ==
  /\ wall = "unused" /\ key = "unused" /\ peers = "unused" /\ tokens = "unused" /\ reqs = "unused"
  /\ sessions = "unused" /\ answer = "unused"
NoAudio ==
  /\ sequence = "unused" /\ timestamp = "unused" /\ jitter_buffer = "unused"
  /\ last_playback_ts = "unused" /\ played = "unused"
NoRecords ==
  kind = "unused" /\ signed = "unused" /\ bytes = "unused" /\ edited = "unused" /\ hops = "unused"
NoPorts ==
  /\ step = "unused" /\ ports = "unused" /\ ipv6 = "unused" /\ build = "unused"
  /\ info = "unused" /\ cached = "unused" /\ dialled = "unused"

PartsInit ==
  /\ Init
  /\ \/ /\ part = "rate" /\ NoTime
        /\ NoDisc /\ NoTickets /\ NoBook /\ NoManager /\ NoGate /\ NoAudio /\ NoRecords /\ NoPorts
     \/ /\ part = "discovery" /\ Disc!Init
        /\ NoTickets /\ NoBook /\ NoManager /\ NoGate /\ NoAudio /\ NoRecords /\ NoPorts
     \/ /\ part = "tickets" /\ Tickets!Init
        /\ NoDisc /\ NoBook /\ NoManager /\ NoGate /\ NoAudio /\ NoRecords /\ NoPorts
     \/ /\ part = "book" /\ Book!Init
        /\ NoDisc /\ NoTickets /\ NoManager /\ NoGate /\ NoAudio /\ NoRecords /\ NoPorts
     \/ /\ part = "manager" /\ Manager!Init /\ NoTime
        /\ NoDisc /\ NoTickets /\ NoBook /\ NoGate /\ NoAudio /\ NoRecords /\ NoPorts
     \/ /\ part = "gateway" /\ Gate!Init /\ NoTime
        /\ NoDisc /\ NoTickets /\ NoBook /\ NoManager /\ NoAudio /\ NoRecords /\ NoPorts
     \/ /\ part = "audio" /\ Audio!Init /\ NoTime
        /\ NoDisc /\ NoTickets /\ NoBook /\ NoManager /\ NoGate /\ NoRecords /\ NoPorts
     \/ /\ part = "records" /\ Records!Init /\ NoTime
        /\ NoDisc /\ NoTickets /\ NoBook /\ NoManager /\ NoGate /\ NoAudio /\ NoPorts
     \/ /\ part = "ports" /\ Ports!Init /\ NoTime
        /\ NoDisc /\ NoTickets /\ NoBook /\ NoManager /\ NoGate /\ NoAudio /\ NoRecords

IsRate ==
  /\ part = "rate"
  /\ UNCHANGED <<part, time, discVars, ticketVars, bookVars, managerVars, gateVars,
                 audioVars, recordVars, portVars>>
IsDisc ==
  /\ part = "discovery"
  /\ UNCHANGED <<part, vars, ticketVars, bookVars, managerVars, gateVars, audioVars, recordVars, portVars>>
IsTickets ==
  /\ part = "tickets"
  /\ UNCHANGED <<part, vars, discVars, bookVars, managerVars, gateVars, audioVars, recordVars, portVars>>
IsBook ==
  /\ part = "book"
  /\ UNCHANGED <<part, vars, discVars, ticketVars, managerVars, gateVars, audioVars, recordVars, portVars>>
IsManager ==
  /\ part = "manager"
  /\ UNCHANGED <<part, vars, time, discVars, ticketVars, bookVars, gateVars, audioVars, recordVars, portVars>>
IsGate ==
  /\ part = "gateway"
  /\ UNCHANGED <<part, vars, time, discVars, ticketVars, bookVars, managerVars, audioVars, recordVars, portVars>>
IsAudio ==
  /\ part = "audio"
  /\ UNCHANGED <<part, vars, time, discVars, ticketVars, bookVars, managerVars, gateVars, recordVars, portVars>>
IsRecords ==
  /\ part = "records"
  /\ UNCHANGED <<part, vars, time, discVars, ticketVars, bookVars, managerVars, gateVars, audioVars, portVars>>
IsPorts ==
  /\ part = "ports"
  /\ UNCHANGED <<part, vars, time, discVars, ticketVars, bookVars, managerVars, gateVars, audioVars, recordVars>>

PartsNext ==
  \/ IsRate /\ Next
  \/ IsDisc /\ Disc!Next
  \/ IsTickets /\ Tickets!Next
  \/ IsBook /\ Book!Next
  \/ IsManager /\ Manager!Next
  \/ IsGate /\ Gate!Next
  \/ IsAudio /\ Audio!Next
  \/ IsRecords /\ Records!Next
  \/ IsPorts /\ Ports!Next
  \/ IsRecords /\ edited /\ hops = 2 /\ UNCHANGED recordVars    \* the record has made its way
  \/ IsPorts /\ step = "sent" /\ UNCHANGED portVars             \* the call has its ports

PartsSpec == PartsInit /\ [][PartsNext]_all

-----------------------------------------------------------------------------
\* The variables of each part have their types.
PartTypesOK ==
  /\ TypeOK
  /\ part = "discovery" => Disc!TypeOK
  /\ part = "audio" => Audio!TypeOK
  /\ part = "tickets" => Tickets!TypeOK
  /\ part = "book" => Book!TypeOK
  /\ part = "records" => Records!TypeOK
  /\ part = "manager" => Manager!TypeOK
  /\ part = "ports" => Ports!TypeOK
  /\ part = "gateway" => Gate!TypeOK

\* A lookup fails only after the DHT and the signaling server both failed, a peer
\* record from the DHT is at most its ttl old when it is returned, counted from
\* when it was made however often it was stored again, and select_proxy returns
\* no proxy that expired while the list was looked up.
DiscoveryHonest == part = "discovery" => Disc!Honest /\ Disc!PickedIsLive

\* The jitter buffer plays datagrams in the order of their numbers, except for
\* one that arrived after the other was played, and drain_buffer leaves nothing
\* behind that is two jitter targets older than the local clock.
PlayedInOrder == part = "audio" => Audio!PlaysInOrder /\ Audio!DrainLeavesNothingDue

\* take_tls13_ticket returns no ticket that was in the store for the ttl and none
\* twice, although inserts store their time stamps out of order and takes leave
\* them behind; PeerAddressBook::get never shows that cleanup_expired ran.
CachesHonest ==
  /\ part = "tickets" => Tickets!NeverStale /\ Tickets!TakenOnce /\ Tickets!StampsCover
  /\ part = "book" => Book!CleanupUnseen

\* A DHT record that sign or sign_peer_record and its like signed is accepted by
\* both verifiers however often it is decoded and encoded again, unless it has
\* an enum value or a field this version does not know, and neither accepts one
\* whose fields differ from the signed ones.
RecordsVerify == part = "records" => Records!AcceptsOnlySigned /\ Records!AcceptsSigned

\* Whatever is stored meanwhile, establish_connection makes the attempts that
\* the decision tree lists for the values read at the start, in its order, and
\* fails only at the end of that list.
FollowsDecisionTree == part = "manager" => Manager!FollowsDecisionTree

\* The ConnectionMethod reported tells how the connection was made: the last
\* attempt, the address family and whether it is relayed.
MethodTruthful == part = "manager" => Manager!MethodTruthful

\* Where the NAT allocates ports with a constant step, the peer's probe_range
\* includes the port of the next mapping, as long as the range fits in a u16, and
\* no port beyond the margin of the predicted one.
RightPortsTried == part = "ports" => Ports!NextPortTried /\ Ports!TriedWithinMargin

\* For IPv4, cached_to_nat_info gives back what probe() returned.
CacheAgrees == part = "ports" => Ports!CacheAgrees

\* A token opens the server exactly from the second of its issue to its expiry,
\* by a clock that may be set back and under the key it was signed with; behind
\* auth_middleware and ws_upgrade are only peers that registered with a server of
\* this key; and PUTting back what GET shows leaves an entry as it was.
GatewayHonest == part = "gateway" => Gate!Honest
=============================================================================
