----------------------------- MODULE DhtRecords -----------------------------
(***************************************************************************)
(* The signed records of the DHT (record.rs): a record is signed, by this  *)
(* version or by a newer one, encoded, perhaps decoded and encoded again   *)
(* by a node that passes it on, perhaps changed without being signed       *)
(* again, and verified in both of the ways the code has.                   *)
(*                                                                         *)
(* Bytes are the message that they encode and the set of fields in them    *)
(* that this version does not know; prost drops those when it decodes.     *)
(* Fields without a conversion of their own are one value, rest.  A        *)
(* signature is the message that was signed.  An Option is the set of its  *)
(* value or the empty set, and so is a signature.                          *)
(***************************************************************************)
EXTENDS WireTypes

CONSTANT NewMembers     \* members a newer version may have added to each enum

VARIABLES kind, signed, bytes, edited, hops

vars == <<kind, signed, bytes, edited, hops>>

NoSig == {}
OrElse(E, i, default) == IF i \in 0 .. Len(E) - 1 THEN E[i + 1] ELSE default

(* From<signaling::X> for X after try_from, with each caller's unwrap_or,  *)
(* and From<X> for signaling::X as i32.                                    *)
nat_type_from(i) == OrElse(NATType, i, "None")
nat_type_into(t) == ToWire(NATType, t)
confidence_from(i) == OrElse(PredictionConfidence, i, "Random")
confidence_into(c) == ToWire(PredictionConfidence, c)
media_type_from(i) == OrElse(MediaType, i, "Audio")
media_type_into(t) == ToWire(MediaType, t)
status_from(i) == OrElse(PeerStatus, i, "Offline")
status_into(s) == ToWire(PeerStatus, s)

(* PortPrediction does not keep the probe method.                          *)
PortPrediction_to_proto(p) == [confidence |-> confidence_into(p.confidence), probe_method |-> 0]
PortPrediction_from_proto(w) == [confidence |-> confidence_from(w.confidence)]

NatInfo_to_proto(n) ==
  [nat_type |-> nat_type_into(n.nat_type),
   prediction |-> {PortPrediction_to_proto(p) : p \in n.prediction}]

NatInfo_from_proto_flat(w) == [nat_type |-> nat_type_from(w.nat_type), prediction |-> {}]

NatInfo_from_proto(w) ==
  [nat_type |-> nat_type_from(w.nat_type),
   prediction |-> {PortPrediction_from_proto(p) : p \in w.prediction}]

TrackAnnouncement_to_proto(t) == [t EXCEPT !.media_type = media_type_into(@)]
TrackAnnouncement_from_proto(w) == [w EXCEPT !.media_type = media_type_from(@)]

PeerRecord_to_proto(r) ==
  [rest |-> r.rest, status |-> status_into(r.status),
   nat_info |-> {NatInfo_to_proto(n) : n \in r.nat_info},
   tracks |-> [i \in DOMAIN r.tracks |-> TrackAnnouncement_to_proto(r.tracks[i])]]

PeerRecord_from_proto(w) ==
  [rest |-> w.rest, status |-> status_from(w.status),
   nat_info |-> {NatInfo_from_proto(n) : n \in w.nat_info},
   tracks |-> [i \in DOMAIN w.tracks |-> TrackAnnouncement_from_proto(w.tracks[i])]]

ProxyRecord_to_proto(r) == [rest |-> r.rest, cert_fingerprint |-> r.cert_fingerprint]
ProxyRecord_from_proto(w) == [rest |-> w.rest, cert_fingerprint |-> w.cert_fingerprint]

(* The user name and the peer id around a colon; a name may have colons.   *)
username_signing_input(r) == r.username \o <<":">> \o r.peer_id

----------------------------------------------------------------------------
(* prost, and serde_json for the record of a name.                         *)
Bytes(w, extra, sig) == [msg |-> w, extra |-> extra, sig |-> sig]

(* What is signed: the encoded record with an empty signature.             *)
PeerRecord_signing_input(r) == Bytes(PeerRecord_to_proto(r), {}, NoSig)
ProxyRecord_signing_input(r) == Bytes(ProxyRecord_to_proto(r), {}, NoSig)

PeerRecord_verify(b) == b.sig = {PeerRecord_signing_input(PeerRecord_from_proto(b.msg))}
ProxyRecord_verify(b) == b.sig = {ProxyRecord_signing_input(ProxyRecord_from_proto(b.msg))}
UsernameRecord_verify(b) == b.sig = {username_signing_input(b.msg)}

(* The functions work on the message as it was decoded by prost.           *)
verify_peer_record(b) == b.sig = {Bytes(b.msg, {}, NoSig)}
verify_proxy_record(b) == b.sig = {Bytes(b.msg, {}, NoSig)}
verify_username_record(b) == b.sig = {username_signing_input(b.msg)}

(* Signing, by this version or by one that writes more fields.             *)
sign_peer_record(w, extra) == {Bytes(w, extra, NoSig)}
sign_proxy_record(w, extra) == {Bytes(w, extra, NoSig)}
sign_username_record(w) == {username_signing_input(w)}

verify(b) ==
  CASE kind = "peer" -> PeerRecord_verify(b)
    [] kind = "proxy" -> ProxyRecord_verify(b)
    [] kind = "name" -> UsernameRecord_verify(b)

verify_standalone(b) ==
  CASE kind = "peer" -> verify_peer_record(b)
    [] kind = "proxy" -> verify_proxy_record(b)
    [] kind = "name" -> verify_username_record(b)

sign_standalone(w, extra) ==
  CASE kind = "peer" -> sign_peer_record(w, extra)
    [] kind = "proxy" -> sign_proxy_record(w, extra)
    [] kind = "name" -> sign_username_record(w)

(* PeerRecord::sign, ProxyRecord::sign and UsernameRecord::sign.           *)
sign(r) ==
  {CASE kind = "peer" -> PeerRecord_signing_input(r)
     [] kind = "proxy" -> ProxyRecord_signing_input(r)
     [] kind = "name" -> username_signing_input(r)}

decode(b) ==
  CASE kind = "peer" -> PeerRecord_from_proto(b.msg)
    [] kind = "proxy" -> ProxyRecord_from_proto(b.msg)
    [] kind = "name" -> b.msg

encode(r, sig) ==
  Bytes(CASE kind = "peer" -> PeerRecord_to_proto(r)
          [] kind = "proxy" -> ProxyRecord_to_proto(r)
          [] kind = "name" -> r, {}, sig)

----------------------------------------------------------------------------
(* The messages of a version with so many new members in every enum.       *)
Codes(E, new) == 0 .. Len(E) - 1 + new
Predictions(new) ==
  [confidence : Codes(PredictionConfidence, new), probe_method : Codes(ProbeMethod, new)]
Nats(new) ==
  [nat_type : Codes(NATType, new), prediction : {{}} \cup {{p} : p \in Predictions(new)}]
Tracks(new) == [media_type : Codes(MediaType, new), codec : {"opus"}]
Messages(k, new) ==
  CASE k = "peer" -> [rest : {"r"}, status : Codes(PeerStatus, new),
                      nat_info : {{}} \cup {{n} : n \in Nats(new)},
                      tracks : {<<>>} \cup {<<t>> : t \in Tracks(new)}]
    [] k = "proxy" -> [rest : {"r"}, cert_fingerprint : {"c"}]
    [] k = "name" -> [username : {<<"a">>, <<"a", ":", "b">>}, peer_id : {<<"b">>, <<"c">>}]

Known(w) == w \in Messages(kind, 0)

Init ==
  /\ kind \in {"peer", "proxy", "name"}
  /\ \E w \in Messages(kind, NewMembers), extra \in {{}, {"new field"}} :
       /\ signed = [msg |-> w, extra |-> extra]
       /\ \/ bytes = Bytes(w, extra, NoSig)
          \/ bytes = Bytes(w, extra, sign_standalone(w, extra))
          \/ LET r == decode(signed)
             IN Known(w) /\ extra = {} /\ bytes = encode(r, sign(r))
  /\ edited = FALSE /\ hops = 0

(* A node reads the record and stores it again.                            *)
Relay ==
  /\ hops < 2
  /\ bytes' = encode(decode(bytes), bytes.sig)
  /\ hops' = hops + 1
  /\ UNCHANGED <<kind, signed, edited>>

Changed(w) ==
  IF kind = "name"
  THEN {[w EXCEPT !.username = <<"a", ":", "b">>], [w EXCEPT !.username = <<"a">>],
        [w EXCEPT !.peer_id = <<"c">>]}
  ELSE {[w EXCEPT !.rest = "other"]} \cup
       IF kind = "peer" THEN {[w EXCEPT !.status = s] : s \in Codes(PeerStatus, NewMembers)} ELSE {}

(* A field is assigned after the record was signed.                        *)
Edit ==
  /\ ~edited
  /\ \E w \in Changed(bytes.msg) : w # bytes.msg /\ bytes' = [bytes EXCEPT !.msg = w]
  /\ edited' = TRUE
  /\ UNCHANGED <<kind, signed, hops>>

Next == Relay \/ Edit

Spec == Init /\ [][Next]_vars

----------------------------------------------------------------------------
TypeOK ==
  /\ kind \in {"peer", "proxy", "name"} /\ edited \in BOOLEAN /\ hops \in 0 .. 2
  /\ DOMAIN bytes = {"msg", "extra", "sig"} /\ DOMAIN signed = {"msg", "extra"}

(* A record that either verifier accepts has the fields that were signed,  *)
(* whatever was passed on or assigned since.                               *)
AcceptsOnlySigned ==
  /\ verify(bytes) => decode(bytes) = decode(signed)
  /\ verify_standalone(bytes) => bytes.msg = signed.msg

(* A signed record with no enum value and no field that this version does  *)
(* not know is accepted by both, after any number of hops.  Of the others, *)
(* the methods accept nothing that the functions refuse.                   *)
AcceptsSigned ==
  ~edited =>
  /\ (bytes.sig # NoSig /\ (Known(signed.msg) /\ (kind = "name" \/ signed.extra = {})))
       => verify(bytes) /\ verify_standalone(bytes)
  /\ verify(bytes) => verify_standalone(bytes)
=============================================================================
