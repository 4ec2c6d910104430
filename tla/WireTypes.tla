------------------------------ MODULE WireTypes ------------------------------
(***************************************************************************)
(* The native types of voip-core (types.rs) and their wire form.  A proto3 *)
(* enum travels as an i32: the position in its table, counted from zero.   *)
(* A value that the receiver does not know is read as the zero value.      *)
(***************************************************************************)
EXTENDS Naturals, Sequences

NATType == <<"None", "Cone", "SymmetricSequential", "SymmetricPseudo", "SymmetricRandom">>
PredictionConfidence == <<"Sequential", "PseudoSequential", "Random">>
ProbeMethod == <<"QuicPathProbing">>
DiscoveryMethod == <<"Dht", "Signaling", "Cache">>
MediaType == <<"Audio", "Video", "Screen">>
CallState == <<"Ringing", "Accepted", "Connected", "Failed", "Ended">>
SubscriptionState == <<"Pending", "Active", "Paused", "Ended">>
PeerStatus == <<"Online", "Offline", "InCall">>
ConnectionMethod ==
  <<"None", "Ipv6Direct", "Ipv4Cone", "Ipv4Prediction", "Masque", "MasqueHttp2">>
CallEndReason ==
  <<"Normal", "Rejected", "Timeout", "FailedIpv4Random", "FailedUdpBlocked",
    "FailedNetwork", "MigrationFailed", "FailedMasqueUnreachable", "FailedTcpBlocked">>

Members(E) == {E[i] : i \in 1 .. Len(E)}

(* From<native> for the proto enum, as i32.                                *)
ToWire(E, v) == CHOOSE i \in 0 .. Len(E) - 1 : E[i + 1] = v

(* i32_to_native_enum: falls back to the value 0.                          *)
FromWire(E, i) == IF i \in 0 .. Len(E) - 1 THEN E[i + 1] ELSE E[1]

is_predictable(n) == n \in {"SymmetricSequential", "SymmetricPseudo"}
is_direct(m) == m \in {"Ipv6Direct", "Ipv4Cone", "Ipv4Prediction"}
is_relayed(m) == m \in {"Masque", "MasqueHttp2"}
is_failure(r) ==
  r \in {"Timeout", "FailedIpv4Random", "FailedUdpBlocked", "FailedNetwork",
         "MigrationFailed", "FailedMasqueUnreachable", "FailedTcpBlocked"}
should_retry(r) == r \in {"FailedIpv4Random", "FailedMasqueUnreachable"}

NoPrediction == "absent"

(* NATInfo: the type, and the confidence of the prediction if there is one *)
NATInfo == [nat_type : Members(NATType),
            prediction : Members(PredictionConfidence) \cup {NoPrediction}]

no_nat == [nat_type |-> "None", prediction |-> NoPrediction]
cone_nat == [nat_type |-> "Cone", prediction |-> NoPrediction]

symmetric_with_prediction(c) ==
  [nat_type |-> CASE c = "Sequential" -> "SymmetricSequential"
                  [] c = "PseudoSequential" -> "SymmetricPseudo"
                  [] c = "Random" -> "SymmetricRandom",
   prediction |-> c]

NatInfoToWire(n) ==
  [nat_type |-> ToWire(NATType, n.nat_type),
   prediction |-> IF n.prediction = NoPrediction THEN {}
                  ELSE {ToWire(PredictionConfidence, n.prediction)}]

NatInfoFromWire_no_default(w) ==
  [nat_type |-> FromWire(NATType, w.nat_type),
   prediction |-> FromWire(PredictionConfidence,
                    IF w.prediction = {} THEN 0 ELSE CHOOSE i \in w.prediction : TRUE)]

NatInfoFromWire(w) ==
  [nat_type |-> FromWire(NATType, w.nat_type),
   prediction |-> IF w.prediction = {} THEN NoPrediction
                  ELSE FromWire(PredictionConfidence, CHOOSE i \in w.prediction : TRUE)]
=============================================================================
