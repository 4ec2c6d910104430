--------------------------- MODULE ServicesProofs ---------------------------
(* Theorems about the parts that MCServices checks side by side, for every  *)
(* value of their constants, from the inductive invariants of AccessProofs  *)
(* and ServicePartsProofs.                                                  *)
EXTENDS MCServices, AccessProofs, ServicePartsProofs

(* The invariant of whichever part runs.                                   *)
Inv ==
  /\ part = "discovery" => DiscInv
  /\ part = "tickets" => TicketsInv
  /\ part = "book" => BookInv
  /\ part = "manager" => ManagerInv
  /\ part = "gateway" => GateInv

LEMMA InvInit == PartsInit => Inv
BY DiscInitially, TicketsInitially, BookInitially, ManagerInitially, GateInitially, Zenon
   DEF PartsInit, Inv

(* A step of a part is one of its own steps and keeps the name of the part. *)
LEMMA InvStep ==
  ASSUME Inv, [PartsNext]_all
  PROVE  Inv'
<1>1. CASE IsDisc /\ Disc!Next
  <2>1. part = "discovery" /\ part' = part
    BY <1>1, SMTT(30) DEF IsDisc
  <2> QED BY <1>1, <2>1, DiscStep, SMTT(30) DEF Inv
<1>2. CASE IsTickets /\ Tickets!Next
  <2>1. part = "tickets" /\ part' = part
    BY <1>2, SMTT(30) DEF IsTickets
  <2> QED BY <1>2, <2>1, TicketsStep, SMTT(30) DEF Inv
<1>3. CASE IsBook /\ Book!Next
  <2>1. part = "book" /\ part' = part
    BY <1>3, SMTT(30) DEF IsBook
  <2> QED BY <1>3, <2>1, BookStep, SMTT(30) DEF Inv
<1>4. CASE IsManager /\ Manager!Next
  <2>1. part = "manager" /\ part' = part
    BY <1>4, SMTT(30) DEF IsManager
  <2> QED BY <1>4, <2>1, ManagerStep, SMTT(30) DEF Inv
<1>5. CASE IsGate /\ Gate!Next
  <2>1. part = "gateway" /\ part' = part
    BY <1>5, SMTT(30) DEF IsGate
  <2> QED BY <1>5, <2>1, GateStep, SMTT(30) DEF Inv
<1>6. CASE IsRate \/ IsAudio \/ IsRecords \/ IsPorts
  <2>1. part \in {"rate", "audio", "records", "ports"} /\ part' = part
    BY <1>6, SMTT(30) DEF IsRate, IsAudio, IsRecords, IsPorts
  <2> QED BY <2>1, SMTT(30) DEF Inv
<1>7. CASE UNCHANGED all
  <2>1. /\ part' = part /\ UNCHANGED Disc!vars /\ UNCHANGED Tickets!vars
        /\ UNCHANGED Book!vars /\ UNCHANGED Manager!vars /\ UNCHANGED Gate!vars
    BY <1>7, SMTT(30) DEF all, discVars, ticketVars, bookVars, managerVars, gateVars,
                Disc!vars, Tickets!vars, Book!vars, Manager!vars, Gate!vars
  <2> QED BY <2>1, DiscStutter, TicketsStutter, BookStutter, ManagerStutter, GateStutter, SMTT(30) DEF Inv
<1> QED BY <1>1, <1>2, <1>3, <1>4, <1>5, <1>6, <1>7, SMTT(30) DEF PartsNext

LEMMA InvHolds == PartsSpec => []Inv
<1>1. Inv /\ [PartsNext]_all => Inv'
  BY InvStep, SMTT(30)
<1> QED BY <1>1, InvInit, PTL DEF PartsSpec

(* A lookup fails only after the DHT and the signaling server both failed, *)
(* a record found in the DHT was valid when it was returned, and           *)
(* select_proxy returns no proxy whose record expired during the lookup    *)
(* (discovery.rs), whatever is published, refreshed or expires meanwhile.  *)
THEOREM LookupsAreHonest == PartsSpec => []DiscoveryHonest
<1>1. Inv => DiscoveryHonest
  BY SMTT(30) DEF Inv, DiscoveryHonest, DiscInv, LookupOK
<1> QED BY <1>1, InvHolds, PTL

(* No ticket is taken at or past its ttl and none twice, for any number of *)
(* threads that insert and take, servers, tickets and any ttl; and         *)
(* cleanup_expired cannot be seen through PeerAddressBook::get.            *)
THEOREM CachesAreHonest == PartsSpec => []CachesHonest
<1>1. Inv => CachesHonest
  BY BookHolds, SMTT(30) DEF Inv, CachesHonest, TicketsInv, TicketsFresh, TicketsOnce
<1> QED BY <1>1, InvHolds, PTL

(* establish_connection makes the attempts of the decision tree for the    *)
(* values read at the start, in its order, and fails only after the last,  *)
(* for any lists of addresses and any number of proxies.                   *)
THEOREM ChainFollowsTree == PartsSpec => []FollowsDecisionTree
<1>1. Inv => FollowsDecisionTree
  BY ManagerHolds, SMTT(30) DEF Inv, FollowsDecisionTree
<1> QED BY <1>1, InvHolds, PTL

(* The ConnectionMethod that establish_connection reports tells how the    *)
(* connection was made, whatever the setters store during the call.        *)
THEOREM ChainTellsMethod == PartsSpec => []MethodTruthful
<1>1. Inv => MethodTruthful
  BY ManagerHolds, SMTT(30) DEF Inv, MethodTruthful
<1> QED BY <1>1, InvHolds, PTL

(* A token opens the server from its issue to its expiry under its own key *)
(* only, only registered peers get in, and PUTting back what GET shows     *)
(* leaves an entry as it was (jwt.rs, auth.rs, handlers.rs), for any       *)
(* number of requests at once, restarts and settings of the clock.         *)
THEOREM GatewayIsHonest == PartsSpec => []GatewayHonest
<1>1. Inv => GatewayHonest
  BY GateHolds, SMTT(30) DEF Inv, GatewayHonest
<1> QED BY <1>1, InvHolds, PTL
=============================================================================
