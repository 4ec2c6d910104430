------------------------------ MODULE GatePart ------------------------------
(* The gateway as a part of MCServices, kept apart from the others so that   *)
(* its proofs need not see those.                                            *)
EXTENDS Integers

CONSTANTS
  Owners, Slots, Bodies, SessionInfos, ExpirySecs, GateClock, MaxKeys, MaxTokens    \* of Gateway

VARIABLES wall, key, peers, tokens, reqs, sessions, answer

Gate == INSTANCE Gateway WITH Peers <- Owners, MaxTime <- GateClock, now <- wall

\* What the gateway is sent has the types that its handlers parse.
ASSUME GateAssumption ==
  /\ ExpirySecs \in Nat /\ GateClock \in Nat
  /\ Bodies \subseteq [display_name : STRING, nat_type : SUBSET STRING, status : SUBSET STRING]
  /\ SessionInfos \subseteq [display_name : STRING, nat_type : Int, status : Int]
=============================================================================
