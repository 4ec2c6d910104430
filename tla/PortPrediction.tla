--------------------------- MODULE PortPrediction ---------------------------
(***************************************************************************)
(* NAT classification and port prediction: what a client concludes from    *)
(* the external ports its probes saw (nat_probe.rs), what its cache gives  *)
(* back, and which ports its peer then probes (connection.rs, probe.rs).   *)
(*                                                                         *)
(* The port space, the margins and the probe limit are constants, so that  *)
(* TLC can use a small space; the casts between i32, u32 and u16 are kept. *)
(* A debug build panics where u16 or u32 arithmetic overflows, a release   *)
(* build wraps: Build says which one runs.                                 *)
(***************************************************************************)
EXTENDS Integers, Sequences

CONSTANTS
  MinPort,              \* 1024
  MaxPort,              \* 65535, the largest u16
  MarginSequential,     \* prediction_margin_sequential
  MarginPseudo,         \* prediction_margin_pseudo
  CachedSequential,     \* the margins cached_to_nat_info has written into it,
  CachedPseudo,         \* 3 and 8: the defaults of the two above
  MaxProbes,            \* prediction_max_probes
  Threshold,            \* nat_delta_variance_threshold
  NumProbes,            \* successful path probes, at least 3
  Builds                \* subset of {"debug", "release"}

VARIABLES
  step,         \* "probed", "classified", "sent"
  ports,        \* the external ports the probes saw, in order
  ipv6,         \* whether the observed address is an IPv6 address
  build,
  info,         \* the NATInfo of probe()
  cached,       \* the NATInfo the cache returns afterwards
  tried         \* what the peer's probe_range does with the prediction

vars == <<step, ports, ipv6, build, info, cached, tried>>

Port == 0 .. MaxPort
AsU16(x) == x % (MaxPort + 1)

NatTypes == {"None", "Cone", "Sequential", "Pseudo", "Random"}
NoPrediction == [start |-> -1, end |-> -1, center |-> -1, margin |-> -1]
NatInfo(t, p) == [nat_type |-> t, prediction |-> p]

----------------------------------------------------------------------------
(* Rust's integer division rounds toward zero.                             *)
TruncDiv(a, b) == IF a >= 0 THEN a \div b ELSE -((-a) \div b)

Deltas(s) == [i \in 1 .. Len(s) - 1 |-> s[i + 1] - s[i]]
SumSeq(s) ==
  LET sum[n \in 0 .. Len(s)] == IF n = 0 THEN 0 ELSE sum[n - 1] + s[n]
  IN sum[Len(s)]

AvgDelta_by_probes(s) == TruncDiv(SumSeq(Deltas(s)), Len(s))

AvgDelta(s) == TruncDiv(SumSeq(Deltas(s)), Len(s) - 1)

(* (sum of squares / (n - 1)).sqrt() as i32: the floor of the root.        *)
DeltaVariance(s) ==
  LET d == Deltas(s)
      squares == SumSeq([i \in DOMAIN d |-> (d[i] - AvgDelta(s)) * (d[i] - AvgDelta(s))])
  IN IF Len(d) > 1
     THEN CHOOSE v \in 0 .. MaxPort * 2 :
            /\ v * v * (Len(d) - 1) <= squares
            /\ (v + 1) * (v + 1) * (Len(d) - 1) > squares
     ELSE 0

AllSame(s) == \A i \in 1 .. Len(s) - 1 : s[i] = s[i + 1]

Margin(confidence) ==
  CASE confidence = "Sequential" -> MarginSequential
    [] confidence = "Pseudo" -> MarginPseudo
    [] OTHER -> 0

Larger(a, b) == IF a >= b THEN a ELSE b
Smaller(a, b) == IF a <= b THEN a ELSE b

(* Each end is clamped on its own side only.                               *)
compute_prediction(s, confidence) ==
  LET center == s[Len(s)] + AvgDelta(s)
      margin == Margin(confidence)
  IN [start |-> Larger(center - margin, MinPort),
      end |-> Smaller(center + margin, MaxPort),
      center |-> center, margin |-> margin]

classify_nat(s, v6) ==
  LET variance == DeltaVariance(s)
      confidence == IF variance <= Threshold THEN "Sequential"
                    ELSE IF variance <= 3 * Threshold THEN "Pseudo"
                    ELSE "Random"
  IN IF v6 THEN NatInfo("None", NoPrediction)
     ELSE IF AllSame(s) THEN NatInfo("Cone", NoPrediction)
     ELSE NatInfo(confidence, IF confidence = "Random" THEN NoPrediction
                              ELSE compute_prediction(s, confidence))

----------------------------------------------------------------------------
(* The cache keeps the probes, the average and the confidence; without a   *)
(* prediction the confidence is Random.                                    *)
build_cache(s, nat) ==
  [probes |-> s,
   average_delta |-> AvgDelta(s),
   confidence |-> IF nat.prediction = NoPrediction THEN "Random"
                  ELSE nat.nat_type]

CachedMargin(confidence) ==
  IF confidence = "Sequential" THEN CachedSequential ELSE CachedPseudo

cached_to_nat_info_one_margin(c) ==
  LET center == c.probes[Len(c.probes)] + c.average_delta
  IN IF AllSame(c.probes) THEN NatInfo("Cone", NoPrediction)
     ELSE IF c.confidence = "Random" THEN NatInfo("Random", NoPrediction)
     ELSE NatInfo(c.confidence,
            [start |-> Larger(center - MarginPseudo, MinPort),
             end |-> Smaller(center + MarginPseudo, MaxPort),
             center |-> center, margin |-> MarginPseudo])

cached_to_nat_info(c) ==
  LET center == c.probes[Len(c.probes)] + c.average_delta
      margin == CachedMargin(c.confidence)
  IN IF AllSame(c.probes) THEN NatInfo("Cone", NoPrediction)
     ELSE IF c.confidence = "Random" THEN NatInfo("Random", NoPrediction)
     ELSE NatInfo(c.confidence,
            [start |-> Larger(center - margin, MinPort),
             end |-> Smaller(center + margin, MaxPort),
             center |-> center, margin |-> margin])

----------------------------------------------------------------------------
Panicked == [panic |-> TRUE, ports |-> {}]

(* probe_range(start as u16, end as u16): the ports that get an attempt.   *)
(* range_size is computed in u32 and only logged, effective_end in u16.    *)
probe_range(first, last) ==
  LET sum == first + MaxProbes
      effective_end == Smaller(last, AsU16(AsU16(sum) - 1))
  IN IF build = "debug" /\ (last < first \/ sum > MaxPort)
     THEN Panicked
     ELSE [panic |-> FALSE, ports |-> first .. effective_end]

(* try_port_prediction casts both ends to u16.                             *)
try_port_prediction(p) ==
  IF p = NoPrediction THEN [panic |-> FALSE, ports |-> {}]
  ELSE probe_range(AsU16(p.start), AsU16(p.end))

----------------------------------------------------------------------------
Init ==
  /\ step = "probed"
  /\ ports \in [1 .. NumProbes -> Port]
  /\ ipv6 \in BOOLEAN
  /\ build \in Builds
  /\ info = NatInfo("None", NoPrediction)
  /\ cached = NatInfo("None", NoPrediction)
  /\ tried = [panic |-> FALSE, ports |-> {}]

(* Steps 2 and 3 of probe().                                               *)
Classify ==
  /\ step = "probed"
  /\ step' = "classified"
  /\ info' = classify_nat(ports, ipv6)
  /\ cached' = cached_to_nat_info(build_cache(ports, info'))
  /\ UNCHANGED <<ports, ipv6, build, tried>>

(* The peer receives the NATInfo with the call and probes the range.       *)
Probe ==
  /\ step = "classified"
  /\ step' = "sent"
  /\ tried' = try_port_prediction(info.prediction)
  /\ UNCHANGED <<ports, ipv6, build, info, cached>>

Next == Classify \/ Probe

Spec == Init /\ [][Next]_vars

----------------------------------------------------------------------------
Prediction == [start : Int, end : Int, center : Int, margin : Int]

TypeOK ==
  /\ step \in {"probed", "classified", "sent"}
  /\ ports \in [1 .. NumProbes -> Port]
  /\ ipv6 \in BOOLEAN /\ build \in Builds
  /\ \A n \in {info, cached} :
       /\ n.nat_type \in NatTypes
       /\ n.prediction \in Prediction
       /\ n.prediction # NoPrediction =>
            n.prediction.start >= MinPort /\ n.prediction.end <= MaxPort
  /\ tried.ports \subseteq Port

(* The port a NAT with a constant step gives the next mapping.             *)
NextPort == ports[NumProbes] + (ports[NumProbes] - ports[NumProbes - 1])

ConstantStep ==
  /\ ~ipv6 /\ ~AllSame(ports)
  /\ \A i, j \in 1 .. NumProbes - 1 : Deltas(ports)[i] = Deltas(ports)[j]

(* Where the NAT allocates ports with a constant step, the peer's probes   *)
(* include the port of the next mapping: classification, prediction, the   *)
(* clamps and the limit on probes together do not lose it, as long as the  *)
(* first port plus the probe limit fits in a u16.                          *)
NextPortTried ==
  (step = "sent" /\ ConstantStep /\ NextPort \in MinPort .. MaxPort - MaxProbes)
    => NextPort \in tried.ports

(* Every port that gets an attempt is a port within the margin of the      *)
(* predicted one, whatever the casts do, if the predicted port exists.     *)
TriedWithinMargin ==
  LET p == info.prediction IN
  (step = "sent" /\ p.center \in MinPort .. MaxPort)
    => tried.ports \subseteq (p.center - p.margin) .. (p.center + p.margin)

(* For IPv4 the cache gives back what probe() returned: the conclusion is  *)
(* computed a second time from the stored probes, by other code.           *)
CacheAgrees == (step # "probed" /\ ~ipv6) => cached = info

=============================================================================
