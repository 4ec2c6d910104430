----------------------- MODULE MCSignalingScenarios -----------------------
(* Three instances of SignalingServer, checked side by side: a behaviour   *)
(* belongs to the scenario its first state names.  They share the state    *)
(* and the properties of SignalingServer and differ in what clients may do *)
(* and in how much the registries hold.                                    *)
EXTENDS SignalingServer, TLC

CONSTANTS alice, bob, carol, s1, s2, c1, c2

VARIABLE scenario

OneEach == (s1 :> alice) @@ (s2 :> bob)

AliceBob == {alice, bob}
RelayOrFinal == {"relay", "final"}
CallTraffic == {"register", "call_request", "call_accept", "call_reject", "call_failed", "call_ended"}
RegistryTraffic == {"register", "unregister", "rest_register", "rest_update", "rest_unregister"}
EvictTraffic == {"register", "call_request", "rest_register"}

\* Two connected peers, one call id and every call message.
Calls == INSTANCE SignalingServer WITH
  Peer <- AliceBob, Call <- {c1}, MaxPeers <- 2, MaxCalls <- 1, HasProxy <- TRUE,
  AnyId <- FALSE, WsSendFails <- TRUE, FailReasons <- RelayOrFinal, Traffic <- CallTraffic

\* Registrations and REST requests under a registry of one entry, with clients
\* that name either peer.
Registry == INSTANCE SignalingServer WITH
  Peer <- AliceBob, Call <- {}, MaxPeers <- 1, MaxCalls <- 1, HasProxy <- TRUE,
  AnyId <- TRUE, WsSendFails <- TRUE, FailReasons <- {}, Traffic <- RegistryTraffic

\* Three peers and two calls compete for caches of two and one entries.
Evict == INSTANCE SignalingServer WITH
  MaxPeers <- 2, MaxCalls <- 1, HasProxy <- FALSE,
  AnyId <- FALSE, WsSendFails <- FALSE, FailReasons <- {}, Traffic <- EvictTraffic

ScenarioInit == scenario \in {"calls", "registry", "evict"} /\ Init

ScenarioNext ==
  /\ \/ scenario = "calls" /\ Calls!Next
     \/ scenario = "registry" /\ Registry!Next
     \/ scenario = "evict" /\ Evict!Next
  /\ UNCHANGED scenario

ScenarioSpec == ScenarioInit /\ [][ScenarioNext]_<<scenario, vars>>

\* The two sessions are interchangeable, each with its peer.
Symmetry ==
  {p \in Permutations({alice, bob, s1, s2}) :
     \A s \in Session : p[s] \in Session /\ Owner[p[s]] = p[Owner[s]]}

=============================================================================
