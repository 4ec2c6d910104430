------------------------------ MODULE WireTrip ------------------------------
(***************************************************************************)
(* A value of each native type is encoded, may be written by a newer       *)
(* version that has more members, is decoded, and is encoded again for the *)
(* next hop (signaling server, DHT record or peer).                        *)
(***************************************************************************)
EXTENDS WireTypes

CONSTANT NewMembers     \* members a newer version may have added to each enum

VARIABLES kind, sent, wire, read, hops

vars == <<kind, sent, wire, read, hops>>

Enums ==
  [NATType |-> NATType, PredictionConfidence |-> PredictionConfidence,
   ProbeMethod |-> ProbeMethod, DiscoveryMethod |-> DiscoveryMethod, MediaType |-> MediaType,
   CallState |-> CallState, SubscriptionState |-> SubscriptionState, PeerStatus |-> PeerStatus,
   ConnectionMethod |-> ConnectionMethod, CallEndReason |-> CallEndReason]

(* The constructors of NATInfo.                                            *)
Constructed ==
  {no_nat, cone_nat} \cup {symmetric_with_prediction(c) : c \in Members(PredictionConfidence)}

Codes(k) == 0 .. Len(Enums[k]) - 1 + NewMembers

Init ==
  /\ hops = 0
  /\ \/ /\ kind = "NATInfo" /\ sent \in Constructed
        /\ wire = NatInfoToWire(sent) /\ read = [nat_type |-> "none", prediction |-> "none"]
     \/ /\ kind \in DOMAIN Enums /\ sent \in Codes(kind)
        /\ wire = sent /\ read = "none"

Decode ==
  /\ hops % 2 = 0 /\ hops < 4
  /\ read' = IF kind = "NATInfo" THEN NatInfoFromWire(wire) ELSE FromWire(Enums[kind], wire)
  /\ hops' = hops + 1
  /\ UNCHANGED <<kind, sent, wire>>

Encode ==
  /\ hops % 2 = 1
  /\ wire' = IF kind = "NATInfo" THEN NatInfoToWire(read) ELSE ToWire(Enums[kind], read)
  /\ hops' = hops + 1
  /\ UNCHANGED <<kind, sent, read>>

Next == Decode \/ Encode

Spec == Init /\ [][Next]_vars

----------------------------------------------------------------------------
(* A value both versions know arrives unchanged after any number of hops;  *)
(* any other value is read as the zero value, at the first hop and for     *)
(* good.                                                                   *)
KnownSurvives ==
  (kind # "NATInfo" /\ hops > 0) =>
    read = (IF sent < Len(Enums[kind]) THEN Enums[kind][sent + 1] ELSE Enums[kind][1])

(* NAT information keeps its meaning: a predictable type comes with a      *)
(* prediction that is worth using, and no other type does.                 *)
NatInfoKeepsMeaning ==
  (kind = "NATInfo" /\ hops > 0) =>
    /\ read = sent
    /\ is_predictable(read.nat_type) <=> read.prediction \in {"Sequential", "PseudoSequential"}
=============================================================================
