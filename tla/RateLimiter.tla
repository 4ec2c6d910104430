---------------------------- MODULE RateLimiter ----------------------------
(***************************************************************************)
(* The signaling server's rate limiter (rate_limit.rs): one token bucket   *)
(* per kind of request and peer, refilled when it is used, dropped when    *)
(* the peer disconnects and by a periodic cleanup.                         *)
(*                                                                         *)
(* Every method takes the limiter's one mutex for its whole body, so each  *)
(* is one action.  Time is a bounded counter; the clock is monotonic       *)
(* (std::time::Instant).  Tokens are whole numbers: the code's f64 only    *)
(* ever holds sums of u32 amounts.                                         *)
(***************************************************************************)
EXTENDS Integers, Sequences, FiniteSets

CONSTANTS
  Peers,        \* keys of the bucket maps
  Kinds,        \* the bucket maps: calls, registrations, ws_messages
  Config,       \* kind -> [max_tokens, refill_amount, refill_interval]
  MaxEntries,   \* RateLimitConfig.max_entries
  MaxTime,      \* bound on the clock
  MaxGrants     \* bound on the requests let through per bucket

(* What the three BucketConfig constants have in common: a refill fills    *)
(* the bucket.                                                             *)
ASSUME ConfigAssumption ==
  /\ Peers # {} /\ Kinds # {}
  /\ MaxEntries \in Nat
  /\ MaxTime \in Nat
  /\ MaxGrants \in Nat
  /\ \A k \in Kinds :
       /\ Config[k].max_tokens \in Nat \ {0}
       /\ Config[k].refill_amount = Config[k].max_tokens
       /\ Config[k].refill_interval \in Nat \ {0}

VARIABLES
  now,          \* the clock
  buckets,      \* kind -> peer -> Bucket, or NoBucket
  granted,      \* history: the times at which requests were let through
  forgiven,     \* history: how many of them precede the last forced drop
  verdict       \* the last operation and what it returned

vars == <<now, buckets, granted, forgiven, verdict>>

NoBucket == [tokens |-> 0, last_refill |-> 0, live |-> FALSE]
Bucket == [tokens : Nat, last_refill : Nat, live : BOOLEAN]

Max_(k) == Config[k].max_tokens
Interval(k) == Config[k].refill_interval

new_bucket(k) ==
  [tokens |-> Max_(k), last_refill |-> now, live |-> TRUE]

(* What the last operation returned (history).                             *)
Verdict ==
  [op : {"check", "other"}, kind : Kinds, peer : Peers,
   ok : BOOLEAN, at : Nat, count : Nat]

NoVerdict ==
  [op |-> "other", kind |-> CHOOSE k \in Kinds : TRUE,
   peer |-> CHOOSE p \in Peers : TRUE, ok |-> TRUE, at |-> 0, count |-> 0]

Init ==
  /\ now = 0
  /\ buckets = [k \in Kinds |-> [p \in Peers |-> NoBucket]]
  /\ granted = [k \in Kinds |-> [p \in Peers |-> << >>]]
  /\ forgiven = [k \in Kinds |-> [p \in Peers |-> 0]]
  /\ verdict = NoVerdict

----------------------------------------------------------------------------
(* Faults the runs must notice: a refill on every later use, and one that  *)
(* moves the clock without adding tokens.                                  *)
refill_early(k, b) ==
  IF now > b.last_refill
  THEN [b EXCEPT !.tokens = Max_(k), !.last_refill = now]
  ELSE b

refill_forgets(k, b) ==
  IF now - b.last_refill >= Interval(k)
  THEN [b EXCEPT !.last_refill = now]
  ELSE b

(* Whole intervals only; the rest of the elapsed time is dropped, since    *)
(* last_refill becomes now.                                                *)
refill(k, b) ==
  LET elapsed == now - b.last_refill
      filled == b.tokens + (elapsed \div Interval(k)) * Config[k].refill_amount
  IN IF elapsed >= Interval(k)
     THEN [b EXCEPT !.tokens = IF filled <= Max_(k) THEN filled ELSE Max_(k),
                    !.last_refill = now]
     ELSE b

(* The bucket a check works on: the peer's, or a new one.                  *)
entry(k, p) == IF buckets[k][p].live THEN buckets[k][p] ELSE new_bucket(k)

allowed_at_zero(b) == b.tokens >= 0

(* The test of try_consume(1).                                             *)
allowed(b) == b.tokens >= 1

(* check_call, check_registration and check_ws_message: the same body on   *)
(* the three maps.                                                         *)
check(k, p) ==
  LET b == refill(k, entry(k, p))
  IN /\ Len(granted[k][p]) < MaxGrants
     /\ buckets' = [buckets EXCEPT ![k][p] =
                      IF allowed(b) THEN [b EXCEPT !.tokens = b.tokens - 1] ELSE b]
     /\ granted' = IF allowed(b)
                   THEN [granted EXCEPT ![k][p] = Append(granted[k][p], now)]
                   ELSE granted
     /\ verdict' = [op |-> "check", kind |-> k, peer |-> p, ok |-> allowed(b),
                    at |-> now, count |-> Len(granted[k][p])]
     /\ UNCHANGED <<now, forgiven>>

remove_peer(p) ==
  /\ buckets' = [k \in Kinds |-> [buckets[k] EXCEPT ![p] = NoBucket]]
  /\ forgiven' = [k \in Kinds |->
                    [forgiven[k] EXCEPT ![p] = Len(granted[k][p])]]
  /\ verdict' = NoVerdict
  /\ UNCHANGED <<now, granted>>

----------------------------------------------------------------------------
Fresh_eager(k) ==
  {p \in Peers : buckets[k][p].live /\ buckets[k][p].last_refill = now}

(* The entries map.retain keeps.                                           *)
Fresh(k) ==
  {p \in Peers : /\ buckets[k][p].live
                 /\ now - buckets[k][p].last_refill < 2 * Interval(k)}

(* The while loop removes keys().next() until the map fits: which entries  *)
(* those are depends on the hash order, so any choice is possible.         *)
cleanup_map(k, kept) ==
  /\ kept \subseteq Fresh(k)
  /\ IF Cardinality(Fresh(k)) > MaxEntries
     THEN Cardinality(kept) = MaxEntries
     ELSE kept = Fresh(k)

cleanup ==
  \E kept \in [Kinds -> SUBSET Peers] :
    /\ \A k \in Kinds : cleanup_map(k, kept[k])
    /\ buckets' = [k \in Kinds |-> [p \in Peers |->
                     IF p \in kept[k] THEN buckets[k][p] ELSE NoBucket]]
    /\ forgiven' = [k \in Kinds |-> [p \in Peers |->
                      IF p \in Fresh(k) \ kept[k] THEN Len(granted[k][p])
                                                 ELSE forgiven[k][p]]]
    /\ verdict' = NoVerdict
    /\ UNCHANGED <<now, granted>>

Tick ==
  /\ now < MaxTime
  /\ now' = now + 1
  /\ UNCHANGED <<buckets, granted, forgiven, verdict>>

Next ==
  \/ \E k \in Kinds, p \in Peers : check(k, p)
  \/ \E p \in Peers : remove_peer(p)
  \/ cleanup
  \/ Tick

Spec == Init /\ [][Next]_vars

----------------------------------------------------------------------------
TypeOK ==
  /\ now \in Nat
  /\ buckets \in [Kinds -> [Peers -> Bucket]]
  /\ granted \in [Kinds -> [Peers -> Seq(Nat)]]
  /\ forgiven \in [Kinds -> [Peers -> Nat]]
  /\ verdict \in Verdict

(* However a peer times its requests, and whenever the cleanup runs, the   *)
(* limiter lets at most 2 * max_tokens of one kind through in any time     *)
(* span shorter than the refill interval: a request and the one            *)
(* 2 * max_tokens later are at least an interval apart.  Requests from     *)
(* before remove_peer or an overflow eviction are not counted: both give   *)
(* the peer a full bucket.                                                 *)
BurstBounded ==
  \A k \in Kinds, p \in Peers :
    \A i, j \in DOMAIN granted[k][p] :
      (i > forgiven[k][p] /\ j - i >= 2 * Max_(k))
        => granted[k][p][j] - granted[k][p][i] >= Interval(k)

(* A request is refused only to a peer that was let through max_tokens     *)
(* times during the interval before it: no order of checks, evictions and  *)
(* cleanups refuses a peer that kept below the limit.                      *)
RefusalDeserved ==
  (verdict.op = "check" /\ ~verdict.ok) =>
    LET times == granted[verdict.kind][verdict.peer]
        first == verdict.count - Max_(verdict.kind) + 1
    IN /\ first >= 1
       /\ times[first] + Interval(verdict.kind) > verdict.at
=============================================================================
