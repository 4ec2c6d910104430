------------------------- MODULE ServicePartsProofs -------------------------
(***************************************************************************)
(* The rate limiter, for every configuration in which a refill fills the   *)
(* bucket (ConfigAssumption), any set of peers and any order of checks,    *)
(* disconnects and cleanups.  BurstBounded relates times that may be two   *)
(* refills apart, of which the bucket remembers only the last.  Good says  *)
(* what a bucket tells about the times granted: u = max_tokens - tokens of *)
(* them came after the last refill, the others came before it, and all but *)
(* the last max_tokens of those an interval before it.                     *)
(*                                                                         *)
(* The ticket store, the address book and discovery, for every value of    *)
(* their constants: any number of threads, servers, tickets, contacts and  *)
(* proxies and any ttl.  Each has an invariant that is true at the start   *)
(* and kept by every step (TicketsInv, BookInv, DiscInv); ServicesProofs   *)
(* draws the theorems from them.                                           *)
(***************************************************************************)
EXTENDS RateLimiter, ServiceParts, TLAPS

----------------------------------------------------------------------------
(* The rate limiter (rate_limit.rs).                                       *)

(* m, d: bucket size and refill interval; t: now; r: the last refill;      *)
(* g: the n times granted; f: how many of those are forgiven.              *)
Times(t, n, g) ==
  /\ \A i \in 1 .. n : g[i] <= t
  /\ \A i, j \in 1 .. n : i <= j => g[i] <= g[j]

Spaced(m, d, n, g, f) ==
  \A i, j \in 1 .. n : (i > f /\ j - i >= 2 * m) => g[j] - g[i] >= d

Live(m, d, t, u, r, n, g, f) ==
  /\ 0 <= u /\ r <= t /\ f + u <= n
  /\ \A i \in 1 .. n : i > n - u => g[i] >= r
  /\ \A i \in 1 .. n : (i > f /\ i <= n - u) => g[i] <= r
  /\ \A i \in 1 .. n : (i > f /\ i <= n - u - m) => g[i] + d <= r
  /\ \A i \in 1 .. n : i > f => g[i] < r + d

Dead(d, t, n, g, f) == \A i \in 1 .. n : i > f => g[i] + d <= t

Good(m, d, t, b, g, f) ==
  /\ f \in Nat /\ f <= Len(g)
  /\ Times(t, Len(g), g)
  /\ Spaced(m, d, Len(g), g, f)
  /\ b.live => Live(m, d, t, m - b.tokens, b.last_refill, Len(g), g, f)
  /\ ~b.live => Dead(d, t, Len(g), g, f)

LimiterInv ==
  /\ TypeOK
  /\ \A k \in Kinds, p \in Peers :
       Good(Max_(k), Interval(k), now, buckets[k][p], granted[k][p], forgiven[k][p])
  /\ RefusalDeserved

----------------------------------------------------------------------------
(* Arithmetic of the parts of Good.                                        *)
LEMMA LaterParts ==
  ASSUME NEW m \in Nat, NEW d \in Nat, NEW t \in Nat, NEW u \in Int, NEW r \in Nat,
         NEW n \in Nat, NEW g \in [1 .. n -> Nat], NEW f \in Nat
  PROVE  /\ Times(t, n, g) => Times(t + 1, n, g)
         /\ Dead(d, t, n, g, f) => Dead(d, t + 1, n, g, f)
         /\ Live(m, d, t, u, r, n, g, f) => Live(m, d, t + 1, u, r, n, g, f)
<1>1. Times(t, n, g) => Times(t + 1, n, g)
  BY DEF Times
<1>2. Dead(d, t, n, g, f) => Dead(d, t + 1, n, g, f)
  BY DEF Dead
<1>3. Live(m, d, t, u, r, n, g, f) => Live(m, d, t + 1, u, r, n, g, f)
  BY DEF Live
<1> QED
  BY <1>1, <1>2, <1>3

LEMMA RefillParts ==
  ASSUME NEW m \in Nat, NEW d \in Nat \ {0}, NEW t \in Nat, NEW u \in Int, NEW r \in Nat,
         NEW n \in Nat, NEW g \in [1 .. n -> Nat], NEW f \in Nat,
         Times(t, n, g), f <= n, u <= m,
         Live(m, d, t, u, r, n, g, f), t - r >= d
  PROVE  Live(m, d, t, 0, t, n, g, f)
<1>1. \A i \in 1 .. n : g[i] \in Nat
  OBVIOUS
<1>2. \A i \in 1 .. n : (i > f /\ i <= n - m) => g[i] + d <= t
  <2> SUFFICES ASSUME NEW i \in 1 .. n, i > f, i <= n - m PROVE g[i] + d <= t
    OBVIOUS
  <2>1. i <= n - u
    OBVIOUS
  <2>2. g[i] <= r
    BY <2>1 DEF Live
  <2> QED
    BY <2>2, <1>1
<1>3. \A i \in 1 .. n : g[i] <= t
  BY DEF Times
<1> QED
  BY <1>1, <1>2, <1>3 DEF Live

LEMMA NewParts ==
  ASSUME NEW m \in Nat, NEW d \in Nat \ {0}, NEW t \in Nat,
         NEW n \in Nat, NEW g \in [1 .. n -> Nat], NEW f \in Nat,
         Times(t, n, g), f <= n, Dead(d, t, n, g, f)
  PROVE  Live(m, d, t, 0, t, n, g, f)
BY DEF Times, Dead, Live

LEMMA ConsumeParts ==
  ASSUME NEW m \in Nat \ {0}, NEW d \in Nat \ {0}, NEW t \in Nat, NEW u \in Int, NEW r \in Nat,
         NEW n \in Nat, NEW g \in [1 .. n -> Nat], NEW f \in Nat,
         NEW h \in [1 .. n + 1 -> Nat], \A i \in 1 .. n : h[i] = g[i], h[n + 1] = t,
         Times(t, n, g), Spaced(m, d, n, g, f), f <= n, u < m,
         Live(m, d, t, u, r, n, g, f), t - r < d
  PROVE  /\ Times(t, n + 1, h)
         /\ Live(m, d, t, u + 1, r, n + 1, h, f)
         /\ Spaced(m, d, n + 1, h, f)
<1>0. \A i \in 1 .. n + 1 : (i \in 1 .. n /\ h[i] = g[i] /\ g[i] \in Nat) \/ (i = n + 1 /\ h[i] = t)
  <2> SUFFICES ASSUME NEW i \in 1 .. n + 1
               PROVE  (i \in 1 .. n /\ h[i] = g[i] /\ g[i] \in Nat) \/ (i = n + 1 /\ h[i] = t)
    OBVIOUS
  <2>1. CASE i = n + 1
    BY <2>1
  <2>2. CASE i # n + 1
    <3>1. i \in 1 .. n
      BY <2>2
    <3> QED
      BY <3>1
  <2> QED
    BY <2>1, <2>2
<1>1. Times(t, n + 1, h)
  <2>1. \A i \in 1 .. n + 1 : h[i] <= t
    BY <1>0 DEF Times
  <2>2. ASSUME NEW i \in 1 .. n + 1, NEW j \in 1 .. n + 1, i <= j PROVE h[i] <= h[j]
    <3>1. CASE j = n + 1
      BY <2>1, <3>1
    <3>2. CASE j # n + 1
      <4>1. i \in 1 .. n /\ j \in 1 .. n
        BY <2>2, <3>2
      <4> QED
        BY <4>1, <2>2 DEF Times
    <3> QED
      BY <3>1, <3>2
  <2> QED
    BY <2>1, <2>2 DEF Times
<1>2. Live(m, d, t, u + 1, r, n + 1, h, f)
  <2>1. 0 <= u /\ r <= t /\ f + u <= n
    BY DEF Live
  <2>2. ASSUME NEW i \in 1 .. n + 1, i > n - u PROVE h[i] >= r
    BY <1>0, <2>1, <2>2 DEF Live
  <2>3. ASSUME NEW i \in 1 .. n + 1, i > f, i <= n - u PROVE h[i] <= r
    BY <1>0, <2>1, <2>3, SMTT(30) DEF Live
  <2>4. ASSUME NEW i \in 1 .. n + 1, i > f, i <= n - u - m PROVE h[i] + d <= r
    BY SMTT(30), <1>0, <2>1, <2>4 DEF Live
  <2>5. ASSUME NEW i \in 1 .. n + 1, i > f PROVE h[i] < r + d
    BY <1>0, <2>1, <2>5 DEF Live
  <2>6. (n + 1) - (u + 1) = n - u /\ (n + 1) - (u + 1) - m = n - u - m
        /\ 0 <= u + 1 /\ f + (u + 1) <= n + 1
    BY <2>1
  <2> QED
    BY <2>1, <2>2, <2>3, <2>4, <2>5, <2>6 DEF Live
<1>3. Spaced(m, d, n + 1, h, f)
  <2> SUFFICES ASSUME NEW i \in 1 .. n + 1, NEW j \in 1 .. n + 1, i > f, j - i >= 2 * m
               PROVE  h[j] - h[i] >= d
    BY DEF Spaced
  <2>1. CASE j <= n
    <3>1. j \in 1 .. n /\ i \in 1 .. n
      BY <2>1
    <3>2. g[j] - g[i] >= d
      BY <3>1 DEF Spaced
    <3> QED
      BY <3>1, <3>2
  <2>2. CASE j = n + 1
    <3>1. i \in 1 .. n /\ i <= n - u - m
      <4>1. i <= n + 1 - 2 * m /\ 2 * m = m + m
        BY <2>2
      <4> QED
        BY <4>1
    <3>2. g[i] + d <= r /\ r <= t
      BY <3>1 DEF Live
    <3>3. h[i] = g[i] /\ g[i] \in Nat
      BY <3>1
    <3>4. h[j] = t
      BY <2>2
    <3>5. \A a, b \in Nat : a + d <= r /\ r <= t /\ b = t => b - a >= d
      OBVIOUS
    <3> QED
      BY <3>2, <3>3, <3>4, <3>5, Zenon
  <2> QED
    BY <2>1, <2>2
<1> QED
  BY <1>1, <1>2, <1>3

LEMMA DropParts ==
  ASSUME NEW m \in Nat, NEW d \in Nat, NEW t \in Nat, NEW u \in Int, NEW r \in Nat,
         NEW n \in Nat, NEW g \in [1 .. n -> Nat], NEW f \in Nat,
         Live(m, d, t, u, r, n, g, f), t - r >= 2 * d
  PROVE  Dead(d, t, n, g, f)
BY DEF Live, Dead

LEMMA WholeRefill ==
  ASSUME NEW e \in Nat, NEW d \in Nat \ {0}, NEW m \in Nat, NEW a \in Nat, e >= d
  PROVE  /\ a + (e \div d) * m \in Nat
         /\ a + (e \div d) * m >= m
<1>1. e \div d \in Nat /\ e \div d >= 1
  OBVIOUS
<1>2. \A q \in Nat : q >= 1 => q * m \in Nat /\ q * m >= m
  <2> SUFFICES ASSUME NEW q \in Nat, q >= 1 PROVE q * m \in Nat /\ q * m >= m
    OBVIOUS
  <2>1. (q - 1) * m >= 0 /\ q * m = (q - 1) * m + m
    OBVIOUS
  <2> QED
    BY <2>1
<1> QED
  BY <1>1, <1>2

----------------------------------------------------------------------------
(* The limiter's operations.                                               *)
LEMMA ConfigType ==
  ASSUME NEW k \in Kinds
  PROVE  /\ Max_(k) \in Nat \ {0} /\ Interval(k) \in Nat \ {0}
         /\ Config[k].refill_amount = Max_(k)
BY ConfigAssumption DEF Max_, Interval

LEMMA EntryGood ==
  ASSUME TypeOK, NEW k \in Kinds, NEW p \in Peers,
         Good(Max_(k), Interval(k), now, buckets[k][p], granted[k][p], forgiven[k][p])
  PROVE  /\ entry(k, p) \in Bucket /\ entry(k, p).live
         /\ Good(Max_(k), Interval(k), now, entry(k, p), granted[k][p], forgiven[k][p])
<1> DEFINE g == granted[k][p]  f == forgiven[k][p]  b == buckets[k][p]
<1>1. now \in Nat /\ b \in Bucket /\ g \in Seq(Nat) /\ f \in Nat
  BY DEF TypeOK
<1>2. Len(g) \in Nat /\ g \in [1 .. Len(g) -> Nat]
  BY <1>1, SMTT(30)
<1>3. CASE b.live
  BY <1>1, <1>3 DEF entry
<1>4. CASE ~b.live
  <2>1. entry(k, p) = [tokens |-> Max_(k), last_refill |-> now, live |-> TRUE]
    BY <1>4 DEF entry, new_bucket
  <2>2. entry(k, p) \in Bucket /\ entry(k, p).live
    BY <2>1, <1>1, ConfigType DEF Bucket
  <2>3. Live(Max_(k), Interval(k), now, 0, now, Len(g), g, f)
    <3>1. f <= Len(g) /\ Times(now, Len(g), g) /\ Dead(Interval(k), now, Len(g), g, f)
      BY <1>4, Zenon DEF Good
    <3> QED
      BY <1>1, <1>2, <3>1, ConfigType, NewParts, Zenon
  <2>4. Max_(k) - entry(k, p).tokens = 0 /\ entry(k, p).last_refill = now
    BY <2>1, ConfigType
  <2> QED
    BY <2>2, <2>3, <2>4 DEF Good
<1> QED
  BY <1>3, <1>4, Zenon

LEMMA RefillGood ==
  ASSUME TypeOK, NEW k \in Kinds, NEW p \in Peers, NEW b \in Bucket, b.live,
         Good(Max_(k), Interval(k), now, b, granted[k][p], forgiven[k][p])
  PROVE  /\ refill(k, b) \in Bucket /\ refill(k, b).live
         /\ Good(Max_(k), Interval(k), now, refill(k, b), granted[k][p], forgiven[k][p])
         /\ now - refill(k, b).last_refill < Interval(k)
<1> DEFINE g == granted[k][p]  f == forgiven[k][p]  m == Max_(k)  d == Interval(k)
<1>1. now \in Nat /\ g \in Seq(Nat) /\ f \in Nat
  BY DEF TypeOK
<1>2. Len(g) \in Nat /\ g \in [1 .. Len(g) -> Nat]
  BY <1>1
<1>3. b.tokens \in Nat /\ b.last_refill \in Nat /\ m \in Nat \ {0} /\ d \in Nat \ {0}
  BY ConfigType DEF Bucket
<1>4. Live(m, d, now, m - b.tokens, b.last_refill, Len(g), g, f)
  BY DEF Good
<1>5. CASE now - b.last_refill >= d
  <2>1. refill(k, b) = [b EXCEPT !.tokens = m, !.last_refill = now]
    <3>1. b.tokens + ((now - b.last_refill) \div d) * m \in Nat
      /\ b.tokens + ((now - b.last_refill) \div d) * m >= m
      <4>1. now - b.last_refill \in Nat
        BY <1>1, <1>3, <1>5
      <4> QED
        BY <4>1, <1>3, <1>5, WholeRefill, Zenon
    <3>2. \A x \in Nat : x >= m => (IF x <= m THEN x ELSE m) = m
      BY <1>3
    <3> QED
      BY <3>1, <3>2, <1>5, ConfigType, Zenon DEF refill
  <2>2. refill(k, b) = [tokens |-> m, last_refill |-> now, live |-> TRUE]
    BY <2>1, Zenon DEF Bucket
  <2>3. Live(m, d, now, 0, now, Len(g), g, f)
    <3>1. f <= Len(g) /\ Times(now, Len(g), g)
      BY DEF Good
    <3>2. m - b.tokens <= m /\ m - b.tokens \in Int
      BY <1>3
    <3> QED
      BY <1>1, <1>2, <1>3, <1>4, <1>5, <3>1, <3>2, RefillParts, Zenon
  <2>4. m - refill(k, b).tokens = 0 /\ refill(k, b).last_refill = now
    BY <2>2, <1>3
  <2>5. refill(k, b) \in Bucket /\ refill(k, b).live
    BY <2>2, <1>1, <1>3, SMTT(30) DEF Bucket
  <2>6. Good(m, d, now, refill(k, b), g, f)
    BY <2>3, <2>4, <2>5 DEF Good
  <2>7. now - refill(k, b).last_refill < d
    BY <2>4, <1>1, <1>3
  <2> QED
    BY <2>5, <2>6, <2>7
<1>6. CASE ~(now - b.last_refill >= d)
  <2>1. refill(k, b) = b
    BY <1>6 DEF refill
  <2>2. now - b.last_refill < d
    BY <1>1, <1>3, <1>6
  <2> QED
    BY <2>1, <2>2
<1> QED
  BY <1>5, <1>6, Zenon

LEMMA TakeToken ==
  ASSUME NEW b \in Bucket, b.tokens >= 1
  PROVE  LET c == [b EXCEPT !.tokens = b.tokens - 1]
         IN c.tokens = b.tokens - 1 /\ c.last_refill = b.last_refill /\ c.live = b.live /\ c \in Bucket
<1> DEFINE c == [b EXCEPT !.tokens = b.tokens - 1]
<1>1. b.tokens \in Nat /\ b.tokens - 1 \in Nat
  BY DEF Bucket
<1>2. c.tokens = b.tokens - 1
  BY DEF Bucket
<1>3. c.last_refill = b.last_refill
  BY DEF Bucket
<1>4. c.live = b.live
  BY DEF Bucket
<1>5. c \in Bucket
  BY <1>1 DEF Bucket
<1> QED
  BY <1>2, <1>3, <1>4, <1>5

\* What is in a sequence of times after one is appended.
LEMMA AppendAt ==
  ASSUME NEW g \in Seq(Nat), NEW n \in Nat
  PROVE  /\ \A i \in 1 .. Len(g) : Append(g, n)[i] = g[i]
         /\ Append(g, n)[Len(g) + 1] = n
  OBVIOUS

LEMMA ConsumeGood ==
  ASSUME TypeOK, NEW k \in Kinds, NEW p \in Peers, NEW b \in Bucket, b.live, allowed(b),
         Good(Max_(k), Interval(k), now, b, granted[k][p], forgiven[k][p]),
         now - b.last_refill < Interval(k)
  PROVE  /\ [b EXCEPT !.tokens = b.tokens - 1] \in Bucket
         /\ Good(Max_(k), Interval(k), now, [b EXCEPT !.tokens = b.tokens - 1],
                 Append(granted[k][p], now), forgiven[k][p])
<1> DEFINE g == granted[k][p]  f == forgiven[k][p]  m == Max_(k)  d == Interval(k)
           c == [b EXCEPT !.tokens = b.tokens - 1]  h == Append(g, now)
<1>1. now \in Nat /\ g \in Seq(Nat) /\ f \in Nat
  BY DEF TypeOK
<1>2. Len(g) \in Nat /\ g \in [1 .. Len(g) -> Nat]
  BY <1>1
<1>3. /\ Len(h) = Len(g) + 1 /\ h \in [1 .. Len(g) + 1 -> Nat]
      /\ \A i \in 1 .. Len(g) : h[i] = g[i]
      /\ h[Len(g) + 1] = now
  <2> HIDE DEF g
  <2>1. h \in Seq(Nat) /\ Len(h) = Len(g) + 1
    BY <1>1
  <2>2. h \in [1 .. Len(h) -> Nat]
    <3> HIDE DEF h
    <3> QED
      BY <2>1
  <2>3. (\A i \in 1 .. Len(g) : h[i] = g[i]) /\ h[Len(g) + 1] = now
    <3>1. /\ \A i \in 1 .. Len(g) : Append(g, now)[i] = g[i]
          /\ Append(g, now)[Len(g) + 1] = now
      BY <1>1, AppendAt
    <3> QED
      BY <3>1, Zenon
  <2> QED
    BY <2>1, <2>2, <2>3
<1>4. b.tokens \in Nat /\ b.last_refill \in Nat /\ m \in Nat \ {0} /\ d \in Nat \ {0}
      /\ b.tokens >= 1
  BY ConfigType DEF Bucket, allowed
<1>5. c.tokens = b.tokens - 1 /\ c.last_refill = b.last_refill /\ c.live = b.live /\ c \in Bucket
  BY <1>4, TakeToken, Zenon
<1>6. m - b.tokens \in Int /\ m - b.tokens < m /\ m - c.tokens = (m - b.tokens) + 1
  BY <1>4, <1>5
<1>7. f <= Len(g) /\ Times(now, Len(g), g) /\ Spaced(m, d, Len(g), g, f)
      /\ Live(m, d, now, m - b.tokens, b.last_refill, Len(g), g, f)
  BY Zenon DEF Good
<1> HIDE DEF g, f, m, d, c, h
<1>8. /\ Times(now, Len(g) + 1, h)
      /\ Live(m, d, now, (m - b.tokens) + 1, b.last_refill, Len(g) + 1, h, f)
      /\ Spaced(m, d, Len(g) + 1, h, f)
  <2> DEFINE u == m - b.tokens  r == b.last_refill  n == Len(g)
  <2>1. u \in Int /\ u < m /\ r \in Nat /\ n \in Nat /\ now - r < d
    BY <1>4, <1>2, <1>6 DEF d
  <2>2. Live(m, d, now, u, r, n, g, f)
    BY <1>7
  <2> HIDE DEF u, r, n
  <2>3. g \in [1 .. n -> Nat] /\ h \in [1 .. n + 1 -> Nat] /\ (\A i \in 1 .. n : h[i] = g[i])
        /\ h[n + 1] = now /\ f <= n /\ Times(now, n, g) /\ Spaced(m, d, n, g, f)
    BY <1>2, <1>3, <1>7 DEF n
  <2>4. Times(now, n + 1, h) /\ Live(m, d, now, u + 1, r, n + 1, h, f) /\ Spaced(m, d, n + 1, h, f)
    BY <2>1, <2>2, <2>3, <1>1, <1>4, ConsumeParts, Zenon
  <2> QED
    BY <2>4 DEF u, r, n
<1>9. f <= Len(h)
  BY <1>1, <1>2, <1>3, <1>7
<1>10. Good(m, d, now, c, h, f)
  BY <1>1, <1>3, <1>5, <1>6, <1>8, <1>9 DEF Good
<1> QED
  BY <1>5, <1>10 DEF g, f, m, d, c, h

LEMMA RefusedDeserved ==
  ASSUME TypeOK, NEW k \in Kinds, NEW p \in Peers, NEW b \in Bucket, b.live, ~allowed(b),
         Good(Max_(k), Interval(k), now, b, granted[k][p], forgiven[k][p]),
         now - b.last_refill < Interval(k)
  PROVE  /\ Len(granted[k][p]) - Max_(k) + 1 >= 1
         /\ granted[k][p][Len(granted[k][p]) - Max_(k) + 1] + Interval(k) > now
<1> DEFINE g == granted[k][p]  f == forgiven[k][p]  m == Max_(k)  d == Interval(k)
           n == Len(g)  r == b.last_refill
<1>1. now \in Nat /\ g \in Seq(Nat) /\ f \in Nat
  BY DEF TypeOK
<1>2. n \in Nat /\ g \in [1 .. n -> Nat]
  BY <1>1
<1>3. b.tokens = 0 /\ r \in Nat /\ m \in Nat \ {0} /\ d \in Nat \ {0} /\ m - b.tokens = m
  BY ConfigType DEF Bucket, allowed
<1>4. Live(m, d, now, m, r, n, g, f)
  BY <1>3 DEF Good
<1>5. now - r < d
  OBVIOUS
<1> HIDE DEF g, f, m, d, n, r
<1>6. f + m <= n /\ (\A i \in 1 .. n : i > n - m => g[i] >= r)
  BY <1>4 DEF Live
<1>7. n - m + 1 >= 1 /\ n - m + 1 \in 1 .. n /\ n - m + 1 > n - m
  BY <1>1, <1>2, <1>3, <1>6
<1>8. g[n - m + 1] >= r /\ g[n - m + 1] \in Nat
  BY <1>2, <1>6, <1>7
<1>9. g[n - m + 1] + d > now
  <2>1. \A x \in Nat : x >= r => x + d > now
    BY <1>1, <1>3, <1>5
  <2> QED
    BY <1>8, <2>1, Zenon
<1> QED
  BY <1>7, <1>9 DEF g, m, d, n

----------------------------------------------------------------------------
(* Each action keeps the invariant.                                        *)
LEMMA NoVerdictType == NoVerdict \in Verdict /\ NoVerdict.op = "other"
<1>1. (CHOOSE k \in Kinds : TRUE) \in Kinds /\ (CHOOSE p \in Peers : TRUE) \in Peers
  BY ConfigAssumption
<1> QED
  BY <1>1 DEF NoVerdict, Verdict

LEMMA DroppedGood ==
  ASSUME TypeOK, NEW k \in Kinds, NEW p \in Peers,
         Good(Max_(k), Interval(k), now, buckets[k][p], granted[k][p], forgiven[k][p])
  PROVE  /\ Good(Max_(k), Interval(k), now, NoBucket, granted[k][p], Len(granted[k][p]))
         /\ (~buckets[k][p].live \/ now - buckets[k][p].last_refill >= 2 * Interval(k))
              => Good(Max_(k), Interval(k), now, NoBucket, granted[k][p], forgiven[k][p])
<1> DEFINE g == granted[k][p]  f == forgiven[k][p]  b == buckets[k][p]
           m == Max_(k)  d == Interval(k)
<1>1. now \in Nat /\ b \in Bucket /\ g \in Seq(Nat) /\ f \in Nat
  BY DEF TypeOK
<1>2. Len(g) \in Nat /\ g \in [1 .. Len(g) -> Nat] /\ m \in Nat \ {0} /\ d \in Nat \ {0}
  BY <1>1, ConfigType
<1>3. ~NoBucket.live
  BY DEF NoBucket
<1>4. f <= Len(g) /\ Times(now, Len(g), g) /\ Spaced(m, d, Len(g), g, f)
  BY Zenon DEF Good
<1>5. Good(m, d, now, NoBucket, g, Len(g))
  <2> HIDE DEF g, m, d
  <2>1. Spaced(m, d, Len(g), g, Len(g)) /\ Dead(d, now, Len(g), g, Len(g))
    BY <1>2 DEF Spaced, Dead
  <2>2. Len(g) <= Len(g)
    BY <1>2
  <2> QED
    BY <1>2, <1>3, <1>4, <2>1, <2>2, Zenon DEF Good
<1>6. ASSUME ~b.live \/ now - b.last_refill >= 2 * d
      PROVE  Dead(d, now, Len(g), g, f)
  <2>1. CASE ~b.live
    BY <2>1 DEF Good
  <2>2. CASE b.live
    <3>1. Live(m, d, now, m - b.tokens, b.last_refill, Len(g), g, f)
      BY <2>2 DEF Good
    <3>2. m - b.tokens \in Int /\ b.last_refill \in Nat
      BY <1>1, <1>2 DEF Bucket
    <3>3. now - b.last_refill >= 2 * d
      BY <1>6, <2>2
    <3> QED
      BY <1>1, <1>2, <3>1, <3>2, <3>3, DropParts, Zenon
  <2> QED
    BY <2>1, <2>2
<1> HIDE DEF g, f, b, m, d
<1>7. (~b.live \/ now - b.last_refill >= 2 * d) => Good(m, d, now, NoBucket, g, f)
  BY <1>1, <1>3, <1>4, <1>6, Zenon DEF Good
<1> QED
  BY <1>5, <1>7 DEF g, f, b, m, d

LEMMA CheckStep ==
  ASSUME LimiterInv, NEW k \in Kinds, NEW p \in Peers, check(k, p)
  PROVE  LimiterInv'
<1> DEFINE b == refill(k, entry(k, p))
           c == IF allowed(b) THEN [b EXCEPT !.tokens = b.tokens - 1] ELSE b
           h == IF allowed(b) THEN Append(granted[k][p], now) ELSE granted[k][p]
<1> USE DEF LimiterInv
<1>1. now \in Nat /\ granted[k][p] \in Seq(Nat) /\ Len(granted[k][p]) \in Nat
  BY DEF TypeOK
<1>2. /\ b \in Bucket /\ b.live
      /\ Good(Max_(k), Interval(k), now, b, granted[k][p], forgiven[k][p])
      /\ now - b.last_refill < Interval(k)
  <2>1. /\ entry(k, p) \in Bucket /\ entry(k, p).live
        /\ Good(Max_(k), Interval(k), now, entry(k, p), granted[k][p], forgiven[k][p])
    BY EntryGood, Zenon
  <2> QED
    BY <2>1, RefillGood
<1> HIDE DEF b
<1>3. /\ c \in Bucket /\ h \in Seq(Nat)
      /\ Good(Max_(k), Interval(k), now, c, h, forgiven[k][p])
  <2>1. CASE allowed(b)
    BY <1>1, <1>2, <2>1, ConsumeGood
  <2>2. CASE ~allowed(b)
    BY <1>1, <1>2, <2>2
  <2> QED
    BY <2>1, <2>2
<1>4. /\ buckets' = [buckets EXCEPT ![k][p] = c]
      /\ granted' = [granted EXCEPT ![k][p] = h]
      /\ verdict' = [op |-> "check", kind |-> k, peer |-> p, ok |-> allowed(b),
                     at |-> now, count |-> Len(granted[k][p])]
      /\ now' = now /\ forgiven' = forgiven
  BY Zenon DEF check, b, TypeOK
<1> HIDE DEF c
<1>5. TypeOK'
  <2>1. buckets' \in [Kinds -> [Peers -> Bucket]]
    BY <1>3, <1>4 DEF TypeOK
  <2>2. granted' \in [Kinds -> [Peers -> Seq(Nat)]]
    <3> HIDE DEF h
    <3> QED
      BY <1>3, <1>4 DEF TypeOK
  <2>3. verdict' \in Verdict
    <3>1. allowed(b) \in BOOLEAN
      BY DEF allowed
    <3> QED
      BY <1>1, <1>4, <3>1, Zenon DEF Verdict
  <2> QED
    BY <1>4, <2>1, <2>2, <2>3 DEF TypeOK
<1>6. ASSUME NEW l \in Kinds, NEW q \in Peers
      PROVE  Good(Max_(l), Interval(l), now', buckets'[l][q], granted'[l][q], forgiven'[l][q])
  <2> HIDE DEF h
  <2>1. CASE l = k /\ q = p
    <3>1. buckets'[l][q] = c /\ granted'[l][q] = h
      BY <1>4, <2>1 DEF TypeOK
    <3> QED
      BY <1>3, <1>4, <2>1, <3>1
  <2>2. CASE ~(l = k /\ q = p)
    <3>1. buckets'[l][q] = buckets[l][q] /\ granted'[l][q] = granted[l][q]
      BY <1>4, <2>2, SMTT(30) DEF TypeOK
    <3> QED
      BY <1>4, <3>1
  <2> QED
    BY <2>1, <2>2
<1>7. RefusalDeserved'
  <2> SUFFICES ASSUME verdict'.op = "check", ~verdict'.ok
               PROVE  LET times == granted'[verdict'.kind][verdict'.peer]
                          first == verdict'.count - Max_(verdict'.kind) + 1
                      IN /\ first >= 1
                         /\ times[first] + Interval(verdict'.kind) > verdict'.at
    BY DEF RefusalDeserved, Max_, Interval
  <2>1. ~allowed(b)
    BY <1>4
  <2>2. granted'[k][p] = granted[k][p]
    BY <2>1, SMTT(30) DEF check, b
  <2>3. /\ Len(granted[k][p]) - Max_(k) + 1 >= 1
        /\ granted[k][p][Len(granted[k][p]) - Max_(k) + 1] + Interval(k) > now
    BY <1>2, <2>1, RefusedDeserved
  <2>4. verdict'.kind = k /\ verdict'.peer = p /\ verdict'.at = now
        /\ verdict'.count = Len(granted[k][p])
    BY <1>4
  <2> QED
    BY <2>2, <2>3, <2>4, SMTT(30)
<1> QED
  BY <1>5, <1>6, <1>7 DEF Max_, Interval

LEMMA RemoveStep ==
  ASSUME LimiterInv, NEW p \in Peers, remove_peer(p)
  PROVE  LimiterInv'
<1> USE DEF LimiterInv
<1>1. NoBucket \in Bucket
  BY Zenon DEF NoBucket, Bucket
<1>2. TypeOK'
  <2>1. buckets' \in [Kinds -> [Peers -> Bucket]]
    BY <1>1 DEF remove_peer, TypeOK
  <2>2. forgiven' \in [Kinds -> [Peers -> Nat]]
    <3>1. \A k \in Kinds : Len(granted[k][p]) \in Nat
      BY DEF TypeOK
    <3> QED
      BY <3>1 DEF remove_peer, TypeOK
  <2> QED
    BY <2>1, <2>2, NoVerdictType DEF remove_peer, TypeOK
<1>3. ASSUME NEW l \in Kinds, NEW q \in Peers
      PROVE  Good(Max_(l), Interval(l), now', buckets'[l][q], granted'[l][q], forgiven'[l][q])
  <2>1. CASE q = p
    <3>1. buckets'[l][q] = NoBucket /\ forgiven'[l][q] = Len(granted[l][q])
      BY <2>1, SMTT(30) DEF remove_peer, TypeOK
    <3> QED
      BY <3>1, DroppedGood DEF remove_peer
  <2>2. CASE q # p
    <3>1. buckets'[l][q] = buckets[l][q] /\ forgiven'[l][q] = forgiven[l][q]
      BY <2>2, SMTT(30) DEF remove_peer, TypeOK
    <3> QED
      BY <3>1 DEF remove_peer
  <2> QED
    BY <2>1, <2>2, Zenon
<1>4. RefusalDeserved'
  BY NoVerdictType DEF remove_peer, RefusalDeserved
<1> QED
  BY <1>2, <1>3, <1>4, Zenon DEF Max_, Interval

LEMMA CleanupStep ==
  ASSUME LimiterInv, cleanup
  PROVE  LimiterInv'
<1> USE DEF LimiterInv
<1>1. PICK kept \in [Kinds -> SUBSET Peers] :
        /\ \A k \in Kinds : kept[k] \subseteq Fresh(k)
        /\ buckets' = [k \in Kinds |-> [p \in Peers |->
                         IF p \in kept[k] THEN buckets[k][p] ELSE NoBucket]]
        /\ forgiven' = [k \in Kinds |-> [p \in Peers |->
                          IF p \in Fresh(k) \ kept[k] THEN Len(granted[k][p])
                                                     ELSE forgiven[k][p]]]
        /\ verdict' = NoVerdict
        /\ UNCHANGED <<now, granted>>
  BY SMTT(30) DEF cleanup, cleanup_map
<1>2. NoBucket \in Bucket
  BY DEF NoBucket, Bucket
<1>3. TypeOK'
  <2>1. buckets' \in [Kinds -> [Peers -> Bucket]]
    BY <1>1, <1>2 DEF TypeOK
  <2>2. forgiven' \in [Kinds -> [Peers -> Nat]]
    <3>1. \A k \in Kinds, p \in Peers : Len(granted[k][p]) \in Nat /\ forgiven[k][p] \in Nat
      BY DEF TypeOK
    <3> QED
      BY <1>1, <3>1, Zenon
  <2> QED
    BY <1>1, <2>1, <2>2, NoVerdictType DEF TypeOK
<1>4. ASSUME NEW l \in Kinds, NEW q \in Peers
      PROVE  Good(Max_(l), Interval(l), now', buckets'[l][q], granted'[l][q], forgiven'[l][q])
  <2>0. Good(Max_(l), Interval(l), now, buckets[l][q], granted[l][q], forgiven[l][q])
    BY Zenon
  <2>1. CASE q \in kept[l]
    <3>1. buckets'[l][q] = buckets[l][q] /\ forgiven'[l][q] = forgiven[l][q]
      BY <1>1, <2>1
    <3> QED
      BY <1>1, <2>0, <3>1, Zenon
  <2>2. CASE q \in Fresh(l) \ kept[l]
    <3>1. buckets'[l][q] = NoBucket /\ forgiven'[l][q] = Len(granted[l][q])
      BY <1>1, <2>2, Zenon
    <3> QED
      BY <1>1, <2>0, <3>1, DroppedGood, Zenon
  <2>3. CASE q \notin Fresh(l)
    <3>1. buckets'[l][q] = NoBucket /\ forgiven'[l][q] = forgiven[l][q]
      BY <1>1, <2>3, SMTT(30)
    <3>2. ~buckets[l][q].live \/ now - buckets[l][q].last_refill >= 2 * Interval(l)
      <4>1. buckets[l][q].last_refill \in Nat /\ now \in Nat /\ Interval(l) \in Nat
        BY ConfigType DEF TypeOK, Bucket
      <4>2. ~buckets[l][q].live \/ ~(now - buckets[l][q].last_refill < 2 * Interval(l))
        BY <2>3, SMTT(30) DEF Fresh
      <4> QED
        BY <4>1, <4>2
    <3> QED
      BY <1>1, <2>0, <3>1, <3>2, DroppedGood, Zenon
  <2> QED
    BY <2>1, <2>2, <2>3, Zenon
<1>5. RefusalDeserved'
  BY <1>1, NoVerdictType DEF RefusalDeserved
<1> QED
  BY <1>3, <1>4, <1>5, SMTT(30) DEF Max_, Interval

LEMMA LimiterTick ==
  ASSUME LimiterInv, Tick
  PROVE  LimiterInv'
<1> USE DEF LimiterInv
<1>1. TypeOK'
  BY DEF Tick, TypeOK
<1>2. ASSUME NEW l \in Kinds, NEW q \in Peers
      PROVE  Good(Max_(l), Interval(l), now', buckets'[l][q], granted'[l][q], forgiven'[l][q])
  <2> DEFINE g == granted[l][q]  f == forgiven[l][q]  b == buckets[l][q]
             m == Max_(l)  d == Interval(l)
  <2>1. now \in Nat /\ b \in Bucket /\ g \in Seq(Nat) /\ f \in Nat
    BY DEF TypeOK
  <2>2. Len(g) \in Nat /\ g \in [1 .. Len(g) -> Nat] /\ m \in Nat /\ d \in Nat
    <3>1. Len(g) \in Nat /\ g \in [1 .. Len(g) -> Nat]
      BY <2>1, SMTT(30)
    <3>2. m \in Nat /\ d \in Nat
      BY ConfigType
    <3> QED
      BY <3>1, <3>2
  <2>3. m - b.tokens \in Int /\ b.last_refill \in Nat
    BY <2>1, <2>2 DEF Bucket
  <2>4. Good(m, d, now, b, g, f)
    OBVIOUS
  <2> HIDE DEF g, f, b, m, d
  <2>5. /\ Times(now, Len(g), g) => Times(now + 1, Len(g), g)
        /\ Dead(d, now, Len(g), g, f) => Dead(d, now + 1, Len(g), g, f)
        /\ Live(m, d, now, m - b.tokens, b.last_refill, Len(g), g, f)
             => Live(m, d, now + 1, m - b.tokens, b.last_refill, Len(g), g, f)
    BY <2>1, <2>2, <2>3, LaterParts, Zenon
  <2>6. Good(m, d, now + 1, b, g, f)
    BY <2>4, <2>5, Zenon DEF Good
  <2> QED
    BY <2>6 DEF Tick, g, f, b, m, d
<1>3. RefusalDeserved'
  BY Zenon DEF Tick, RefusalDeserved, Max_, Interval
<1> QED
  BY <1>1, <1>2, <1>3 DEF Max_, Interval

LEMMA LimiterInit == Init => LimiterInv
<1> SUFFICES ASSUME Init PROVE LimiterInv
  OBVIOUS
<1>1. TypeOK
  BY NoVerdictType DEF Init, TypeOK, NoBucket, Bucket
<1>2. ASSUME NEW l \in Kinds, NEW q \in Peers
      PROVE  Good(Max_(l), Interval(l), now, buckets[l][q], granted[l][q], forgiven[l][q])
  <2>1. granted[l][q] = << >> /\ forgiven[l][q] = 0 /\ buckets[l][q] = NoBucket
    BY <1>2 DEF Init
  <2>2. Len(<< >>) = 0 /\ 1 .. 0 = {} /\ ~NoBucket.live
    BY DEF NoBucket
  <2>3. 0 \in Nat /\ 0 <= 0
    OBVIOUS
  <2> QED
    BY <2>1, <2>2, <2>3, Zenon DEF Good, Times, Spaced, Dead
<1>3. RefusalDeserved
  BY NoVerdictType DEF Init, RefusalDeserved
<1> QED
  BY <1>1, <1>2, <1>3, Zenon DEF LimiterInv

LEMMA LimiterHolds == Spec => []LimiterInv
<1>1. LimiterInv /\ [Next]_vars => LimiterInv'
  <2> SUFFICES ASSUME LimiterInv, [Next]_vars PROVE LimiterInv'
    OBVIOUS
  <2>1. CASE UNCHANGED vars
    <3>1. TypeOK'
      BY <2>1 DEF LimiterInv, TypeOK, vars
    <3>2. RefusalDeserved'
      BY <2>1, Zenon DEF LimiterInv, RefusalDeserved, vars, Max_, Interval
    <3> QED
      BY <2>1, <3>1, <3>2 DEF LimiterInv, vars, Max_, Interval
  <2>2. CASE Next
    BY <2>2, CheckStep, RemoveStep, CleanupStep, LimiterTick DEF Next
  <2> QED
    BY <2>1, <2>2
<1> QED
  BY LimiterInit, <1>1, PTL DEF Spec

----------------------------------------------------------------------------
(* check_call, check_registration and check_ws_message never let more than *)
(* 2 * max_tokens requests of one peer through in a span shorter than the  *)
(* refill interval, whatever the limits, the interval, the number of peers *)
(* and the moments at which cleanup_stale drops buckets.                   *)
THEOREM BurstIsBounded == Spec => []BurstBounded
<1>1. LimiterInv => BurstBounded
  <2> SUFFICES ASSUME LimiterInv, NEW k \in Kinds, NEW p \in Peers
               PROVE  \A i, j \in DOMAIN granted[k][p] :
                        (i > forgiven[k][p] /\ j - i >= 2 * Max_(k))
                          => granted[k][p][j] - granted[k][p][i] >= Interval(k)
    BY DEF BurstBounded
  <2>1. Spaced(Max_(k), Interval(k), Len(granted[k][p]), granted[k][p], forgiven[k][p])
    BY Zenon DEF LimiterInv, Good
  <2>2. DOMAIN granted[k][p] = 1 .. Len(granted[k][p])
    BY DEF LimiterInv, TypeOK
  <2> QED
    BY <2>1, <2>2, Zenon DEF Spaced
<1> QED
  BY <1>1, LimiterHolds, PTL

(* A peer is refused only after max_tokens of its requests were let        *)
(* through during the refill interval before: neither the refill on use    *)
(* nor any cleanup or disconnect costs a peer tokens it is entitled to.    *)
THEOREM RefusalIsDeserved == Spec => []RefusalDeserved
<1>1. LimiterInv => RefusalDeserved
  BY DEF LimiterInv
<1> QED
  BY <1>1, LimiterHolds, PTL

----------------------------------------------------------------------------
(* What Append adds to a sequence.                                         *)
LEMMA AppendGives ==
  ASSUME NEW S, NEW q \in Seq(S), NEW x \in S
  PROVE  /\ Append(q, x) \in Seq(S) /\ Len(q) \in Nat
         /\ Len(Append(q, x)) = Len(q) + 1
         /\ \A i \in 1 .. Len(q) : Append(q, x)[i] = q[i]
         /\ Append(q, x)[Len(q) + 1] = x
OBVIOUS

(* Append on short sequences.                                              *)
LEMMA AppendOne ==
  ASSUME NEW S, NEW a \in S, NEW b \in S
  PROVE  Append(<< >>, a) = <<a>> /\ Append(<<a>>, b) = <<a, b>>
<1>1. << >> \in Seq(S) /\ <<a>> \in Seq(S) /\ <<a, b>> \in Seq(S)
  OBVIOUS
<1>2. Append(<< >>, a) = <<a>>
  BY <1>1
<1>3. Append(<<a>>, b) = <<a, b>>
  <2> DEFINE x == Append(<<a>>, b)
             y == <<a, b>>
  <2>1. x \in Seq(S) /\ Len(x) = 2 /\ x[1] = a /\ x[2] = b
    BY <1>1
  <2>2. y \in Seq(S) /\ Len(y) = 2 /\ y[1] = a /\ y[2] = b
    BY <1>1
  <2> HIDE DEF x, y
  <2>3. \A i \in 1 .. 2 : i = 1 \/ i = 2
    OBVIOUS
  <2>4. \A i \in 1 .. 2 : x[i] = y[i]
    BY <2>1, <2>2, <2>3
  <2>5. x = y
    BY <2>1, <2>2, <2>4, SMTT(30)
  <2> QED BY <2>5 DEF x, y
<1> QED BY <1>2, <1>3

(* What SubSeq takes from a sequence.                                      *)
LEMMA SubSeqGives ==
  ASSUME NEW S, NEW q \in Seq(S), NEW m \in Nat, NEW n \in Nat, 1 <= m, m <= n + 1, n <= Len(q)
  PROVE  /\ SubSeq(q, m, n) \in Seq(S)
         /\ Len(SubSeq(q, m, n)) = n - m + 1
         /\ \A i \in 1 .. n - m + 1 : SubSeq(q, m, n)[i] = q[i + m - 1]
<1>1. Len(q) \in Nat /\ \A i \in 1 .. Len(q) : q[i] \in S
  OBVIOUS
<1>2. n - m + 1 \in Nat
  OBVIOUS
<1>3. SubSeq(q, m, n) = [i \in 1 .. n - m + 1 |-> q[i + m - 1]]
  OBVIOUS
<1>4. \A i \in 1 .. n - m + 1 : i + m - 1 \in 1 .. Len(q)
  BY <1>1
<1>5. [i \in 1 .. n - m + 1 |-> q[i + m - 1]] \in Seq(S)
  BY <1>1, <1>2, <1>4
<1>6. Len([i \in 1 .. n - m + 1 |-> q[i + m - 1]]) = n - m + 1
  BY <1>2
<1> QED BY <1>3, <1>5, <1>6

----------------------------------------------------------------------------
(* The TLS tickets (session_store.rs).                                     *)

(* What Drop leaves of a queue.                                            *)
LEMMA DropProperties ==
  ASSUME NEW S, NEW q \in Seq(S), NEW n \in Nat
  PROVE  /\ Tickets!Drop(q, n) \in Seq(S)
         /\ Len(Tickets!Drop(q, n)) = IF n < Len(q) THEN Len(q) - n ELSE 0
         /\ \A i \in 1 .. Len(Tickets!Drop(q, n)) : i + n \in 1 .. Len(q) /\ Tickets!Drop(q, n)[i] = q[i + n]
<1>1. CASE n < Len(q)
  <2>1. Tickets!Drop(q, n) = SubSeq(q, n + 1, Len(q))
    BY <1>1 DEF Tickets!Drop
  <2> DEFINE m == n + 1
  <2>2. Len(q) \in Nat /\ m \in Nat /\ 1 <= m /\ m <= Len(q) + 1 /\ Len(q) <= Len(q)
    BY <1>1
  <2> HIDE DEF m
  <2>3. /\ SubSeq(q, m, Len(q)) \in Seq(S)
        /\ Len(SubSeq(q, m, Len(q))) = Len(q) - m + 1
        /\ \A i \in 1 .. Len(q) - m + 1 : SubSeq(q, m, Len(q))[i] = q[i + m - 1]
    BY <2>2, SubSeqGives
  <2>4. /\ Len(q) - m + 1 = Len(q) - n
        /\ \A i \in 1 .. Len(q) - n : i + m - 1 = i + n /\ i + n \in 1 .. Len(q)
    BY <1>1, <2>2 DEF m
  <2>5. Tickets!Drop(q, n) = SubSeq(q, m, Len(q))
    BY <2>1 DEF m
  <2> QED BY <1>1, <2>3, <2>4, <2>5
<1>2. CASE ~(n < Len(q))
  BY <1>2 DEF Tickets!Drop
<1> QED BY <1>1, <1>2

(* evict_expired_tickets, and the pop of the limit: both queues lose their *)
(* first n elements.                                                       *)
LEMMA DropKeepsCovered ==
  ASSUME NEW d \in Tickets!ServerData, NEW t \in Nat, Tickets!Covered(d, t), NEW n \in Nat
  PROVE  LET e == Tickets!evict_expired_tickets(d, n)
         IN e \in Tickets!ServerData /\ Tickets!Covered(e, t)
<1> DEFINE e == Tickets!evict_expired_tickets(d, n)
<1>1. d.tls13 \in Seq(Tickets!Ticket) /\ d.stamps \in Seq(Nat)
  BY DEF Tickets!ServerData
<1>2. e = [d EXCEPT !.tls13 = Tickets!Drop(d.tls13, n), !.stamps = Tickets!Drop(d.stamps, n)]
  BY DEF Tickets!evict_expired_tickets
<1> HIDE DEF e
<1>3. e.tls13 = Tickets!Drop(d.tls13, n) /\ e.stamps = Tickets!Drop(d.stamps, n)
  BY <1>2 DEF Tickets!ServerData
<1>4. /\ Tickets!Drop(d.tls13, n) \in Seq(Tickets!Ticket)
      /\ Len(Tickets!Drop(d.tls13, n)) = IF n < Len(d.tls13) THEN Len(d.tls13) - n ELSE 0
      /\ \A i \in 1 .. Len(Tickets!Drop(d.tls13, n)) :
           i + n \in 1 .. Len(d.tls13) /\ Tickets!Drop(d.tls13, n)[i] = d.tls13[i + n]
  BY <1>1, DropProperties, Zenon
<1>5. /\ Tickets!Drop(d.stamps, n) \in Seq(Nat)
      /\ Len(Tickets!Drop(d.stamps, n)) = IF n < Len(d.stamps) THEN Len(d.stamps) - n ELSE 0
      /\ \A i \in 1 .. Len(Tickets!Drop(d.stamps, n)) :
           i + n \in 1 .. Len(d.stamps) /\ Tickets!Drop(d.stamps, n)[i] = d.stamps[i + n]
  BY <1>1, DropProperties, Zenon
<1>6. e \in Tickets!ServerData
  BY <1>2, <1>4, <1>5, Zenon DEF Tickets!ServerData
<1>7. Len(d.tls13) \in Nat /\ Len(d.stamps) \in Nat /\ Len(d.tls13) <= Len(d.stamps)
  BY <1>1, SMTT(30) DEF Tickets!Covered
<1>8. Len(e.tls13) <= Len(e.stamps)
  BY <1>3, <1>4, <1>5, <1>7
<1>9. \A i \in 1 .. Len(e.stamps) : e.stamps[i] <= t
  BY <1>3, <1>5, Zenon DEF Tickets!Covered
<1>10. \A i \in 1 .. Len(e.tls13) : e.stamps[i] <= e.tls13[i].at /\ e.tls13[i].at <= t
  <2> SUFFICES ASSUME NEW i \in 1 .. Len(e.tls13)
               PROVE  e.stamps[i] <= e.tls13[i].at /\ e.tls13[i].at <= t
    OBVIOUS
  <2>1. i \in 1 .. Len(e.stamps)
    BY <1>3, <1>4, <1>5, <1>7
  <2>2. e.stamps[i] = d.stamps[i + n]
    BY <1>3, <1>5, <2>1, Zenon
  <2>3. e.tls13[i] = d.tls13[i + n] /\ i + n \in 1 .. Len(d.tls13)
    BY <1>3, <1>4, Zenon
  <2> QED BY <2>2, <2>3, Zenon DEF Tickets!Covered
<1>11. \A i, j \in 1 .. Len(e.tls13) : i < j => e.tls13[i].at <= e.tls13[j].at
  <2> SUFFICES ASSUME NEW i \in 1 .. Len(e.tls13), NEW j \in 1 .. Len(e.tls13), i < j
               PROVE  e.tls13[i].at <= e.tls13[j].at
    OBVIOUS
  <2>1. /\ e.tls13[i] = d.tls13[i + n] /\ i + n \in 1 .. Len(d.tls13)
        /\ e.tls13[j] = d.tls13[j + n] /\ j + n \in 1 .. Len(d.tls13)
    BY <1>3, <1>4, Zenon
  <2>2. i + n < j + n
    BY <1>4
  <2> QED BY <2>1, <2>2, Zenon DEF Tickets!Covered
<1> QED BY <1>6, <1>8, <1>9, <1>10, <1>11 DEF e, Tickets!Covered

(* The ticket limit keeps every ticket beside an older time stamp.         *)
LEMMA LimitedKeepsCovered ==
  ASSUME NEW d \in Tickets!ServerData, NEW t \in Nat, Tickets!Covered(d, t)
  PROVE  Tickets!Limited(d) \in Tickets!ServerData /\ Tickets!Covered(Tickets!Limited(d), t)
BY DropKeepsCovered, Zenon DEF Tickets!Limited, Tickets!evict_expired_tickets

(* The push of insert_tls13_ticket: a ticket of now beside a time stamp of *)
(* now or earlier, or, after takes, beside an older time stamp.            *)
LEMMA PushedKeepsCovered ==
  ASSUME NEW d \in Tickets!ServerData, NEW t \in Nat, Tickets!Covered(d, t),
         NEW id \in Nat, NEW stamp \in Nat, stamp <= t
  PROVE  LET e == Tickets!Pushed(d, [id |-> id, at |-> t], stamp)
         IN e \in Tickets!ServerData /\ Tickets!Covered(e, t)
<1> DEFINE k == [id |-> id, at |-> t]
<1> DEFINE e == Tickets!Pushed(d, k, stamp)
<1>1. d.tls13 \in Seq(Tickets!Ticket) /\ d.stamps \in Seq(Nat)
  BY DEF Tickets!ServerData
<1>0. k \in Tickets!Ticket /\ k.at = t
  BY DEF Tickets!Ticket
<1> HIDE DEF k
<1>2. e = [d EXCEPT !.tls13 = Append(d.tls13, k), !.stamps = Append(d.stamps, stamp)]
  BY DEF Tickets!Pushed
<1>3. e.tls13 = Append(d.tls13, k) /\ e.stamps = Append(d.stamps, stamp)
  BY <1>2 DEF Tickets!ServerData
<1>6. Append(d.tls13, k) \in Seq(Tickets!Ticket) /\ Append(d.stamps, stamp) \in Seq(Nat)
  BY <1>0, <1>1, AppendGives
<1>12. e \in Tickets!ServerData
  BY <1>2, <1>6, Zenon DEF Tickets!ServerData
<1> HIDE DEF e
<1>4. /\ e.tls13 \in Seq(Tickets!Ticket) /\ Len(e.tls13) = Len(d.tls13) + 1
      /\ \A i \in 1 .. Len(d.tls13) : e.tls13[i] = d.tls13[i]
      /\ e.tls13[Len(d.tls13) + 1] = k
  BY <1>0, <1>1, <1>3, AppendGives
<1>5. /\ e.stamps \in Seq(Nat) /\ Len(e.stamps) = Len(d.stamps) + 1
      /\ \A i \in 1 .. Len(d.stamps) : e.stamps[i] = d.stamps[i]
      /\ e.stamps[Len(d.stamps) + 1] = stamp
  BY <1>1, <1>3, AppendGives
<1>7. Len(d.tls13) \in Nat /\ Len(d.stamps) \in Nat /\ Len(d.tls13) <= Len(d.stamps)
  BY <1>1 DEF Tickets!Covered
<1>8. \A i \in 1 .. Len(e.stamps) : e.stamps[i] <= t
  <2>1. \A i \in 1 .. Len(d.stamps) : d.stamps[i] <= t
    BY DEF Tickets!Covered
  <2>2. \A i \in 1 .. Len(e.stamps) : i \in 1 .. Len(d.stamps) \/ i = Len(d.stamps) + 1
    BY <1>5, <1>7
  <2> QED BY <1>5, <2>1, <2>2, Zenon
<1>9. \A i \in 1 .. Len(e.tls13) : e.stamps[i] <= e.tls13[i].at /\ e.tls13[i].at <= t
  <2> SUFFICES ASSUME NEW i \in 1 .. Len(e.tls13)
               PROVE  e.stamps[i] <= e.tls13[i].at /\ e.tls13[i].at <= t
    OBVIOUS
  <2>1. CASE i \in 1 .. Len(d.tls13)
    <3>1. i \in 1 .. Len(d.stamps) /\ e.tls13[i] = d.tls13[i]
      BY <1>4, <1>7, <2>1, SMTT(30)
    <3>2. e.stamps[i] = d.stamps[i]
      BY <1>5, <3>1
    <3> QED BY <2>1, <3>1, <3>2, SMTT(30) DEF Tickets!Covered
  <2>2. CASE i = Len(d.tls13) + 1
    <3>1. e.tls13[i].at = t
      BY <1>0, <1>4, <2>2
    <3>2. i \in 1 .. Len(e.stamps)
      BY <1>4, <1>5, <1>7
    <3> QED BY <1>8, <3>1, <3>2
  <2> QED BY <1>4, <1>7, <2>1, <2>2
<1>10. \A i, j \in 1 .. Len(e.tls13) : i < j => e.tls13[i].at <= e.tls13[j].at
  <2> SUFFICES ASSUME NEW i \in 1 .. Len(e.tls13), NEW j \in 1 .. Len(e.tls13), i < j
               PROVE  e.tls13[i].at <= e.tls13[j].at
    OBVIOUS
  <2>1. CASE j \in 1 .. Len(d.tls13)
    <3>1. i \in 1 .. Len(d.tls13)
      BY <2>1
    <3>2. e.tls13[i] = d.tls13[i] /\ e.tls13[j] = d.tls13[j]
      BY <1>4, <2>1, <3>1
    <3> QED BY <2>1, <3>1, <3>2, Zenon DEF Tickets!Covered
  <2>2. CASE j = Len(d.tls13) + 1
    <3>1. e.tls13[j].at = t
      BY <1>0, <1>4, <2>2
    <3> QED BY <1>9, <3>1
  <2> QED BY <1>4, <1>7, <2>1, <2>2
<1>11. Len(e.tls13) <= Len(e.stamps)
  BY <1>4, <1>5, <1>7
<1> QED BY <1>8, <1>9, <1>10, <1>11, <1>12, Zenon DEF Tickets!Covered, e, k

(* The pop of take_tls13_ticket, which leaves the time stamps alone.       *)
LEMMA PopKeepsCovered ==
  ASSUME NEW d \in Tickets!ServerData, NEW t \in Nat, Tickets!Covered(d, t), Len(d.tls13) # 0
  PROVE  LET e == [d EXCEPT !.tls13 = SubSeq(d.tls13, 1, Len(d.tls13) - 1)]
         IN e \in Tickets!ServerData /\ Tickets!Covered(e, t)
<1> DEFINE m == Len(d.tls13) - 1
<1> DEFINE e == [d EXCEPT !.tls13 = SubSeq(d.tls13, 1, m)]
<1>1. d.tls13 \in Seq(Tickets!Ticket) /\ d.stamps \in Seq(Nat)
  BY DEF Tickets!ServerData
<1>2. m \in Nat /\ Len(d.tls13) = m + 1
  BY <1>1
<1>3. /\ SubSeq(d.tls13, 1, m) \in Seq(Tickets!Ticket)
      /\ Len(SubSeq(d.tls13, 1, m)) = m
      /\ \A i \in 1 .. m : SubSeq(d.tls13, 1, m)[i] = d.tls13[i]
  BY <1>1, <1>2
<1>4. e.tls13 = SubSeq(d.tls13, 1, m) /\ e.stamps = d.stamps
  BY DEF Tickets!ServerData
<1>5. e \in Tickets!ServerData
  BY <1>3, Zenon DEF Tickets!ServerData
<1> HIDE DEF e, m
<1>6. Len(e.tls13) <= Len(e.stamps) /\ \A i \in 1 .. Len(e.stamps) : e.stamps[i] <= t
  BY <1>1, <1>2, <1>3, <1>4 DEF Tickets!Covered
<1>7. \A i \in 1 .. m : i \in 1 .. Len(d.tls13)
  BY <1>2
<1>8. Tickets!Covered(e, t)
  BY <1>2, <1>3, <1>4, <1>6, <1>7 DEF Tickets!Covered
<1> QED BY <1>5, <1>8 DEF e, m

(* Arithmetic: what is no older than a time stamp that has not expired is  *)
(* younger than the ttl.                                                   *)
LEMMA Younger ==
  ASSUME NEW t \in Nat, NEW ttl \in Nat, NEW stamp \in Nat, NEW first \in Nat, NEW last \in Nat,
         stamp <= first, first <= last, ~(t - stamp >= ttl)
  PROVE  t - last < ttl
OBVIOUS

(* What take_tls13_ticket pops after the loop is younger than the ttl: a   *)
(* time stamp that has not expired is no younger than the first ticket.    *)
LEMMA PoppedIsFresh ==
  ASSUME NEW d \in Tickets!ServerData, time \in Nat, TicketTtl \in Nat, Tickets!Covered(d, time),
         NEW n \in 0 .. Len(d.stamps), Tickets!EvictsExactly(d, n),
         Len(Tickets!evict_expired_tickets(d, n).tls13) # 0
  PROVE  LET e == Tickets!evict_expired_tickets(d, n)
         IN /\ e.tls13[Len(e.tls13)] \in Tickets!Ticket
            /\ time - e.tls13[Len(e.tls13)].at < TicketTtl
<1> DEFINE q == d.tls13
           r == Tickets!Drop(q, n)
           k == Len(r)
<1>1. q \in Seq(Tickets!Ticket) /\ d.stamps \in Seq(Nat) /\ n \in Nat
  BY DEF Tickets!ServerData
<1>2. Tickets!evict_expired_tickets(d, n).tls13 = r
  BY DEF Tickets!evict_expired_tickets, Tickets!ServerData
<1>3. k # 0
  BY <1>2
<1>4. /\ r \in Seq(Tickets!Ticket)
      /\ k = IF n < Len(q) THEN Len(q) - n ELSE 0
      /\ \A i \in 1 .. k : i + n \in 1 .. Len(q) /\ r[i] = q[i + n]
  BY <1>1, DropProperties, SMTT(30)
<1>5. /\ Len(q) <= Len(d.stamps)
      /\ \A i \in 1 .. Len(q) : d.stamps[i] <= q[i].at
      /\ \A i, j \in 1 .. Len(q) : i < j => q[i].at <= q[j].at
  BY DEF Tickets!Covered
<1>6. n < Len(d.stamps) => ~(time - d.stamps[n + 1] >= TicketTtl)
  BY DEF Tickets!EvictsExactly, Tickets!expired
<1> HIDE DEF q, r
<1>7. Len(q) \in Nat /\ Len(d.stamps) \in Nat /\ k \in Nat
  BY <1>1, <1>4
<1>8. n < Len(q) /\ k \in 1 .. k /\ k + n = Len(q) /\ n + 1 \in 1 .. Len(q)
  BY <1>1, <1>3, <1>4, <1>7
<1>9. r[k] = q[Len(q)] /\ Len(q) \in 1 .. Len(q)
  BY <1>4, <1>7, <1>8
<1>10. n < Len(d.stamps) /\ n + 1 \in 1 .. Len(d.stamps)
  BY <1>1, <1>5, <1>7, <1>8
<1>11. q[Len(q)] \in Tickets!Ticket /\ q[n + 1] \in Tickets!Ticket /\ d.stamps[n + 1] \in Nat
  BY <1>1, <1>8, <1>9, <1>10, SMTT(30)
<1>12. q[Len(q)].at \in Nat /\ q[n + 1].at \in Nat
  BY <1>11 DEF Tickets!Ticket
<1>13. d.stamps[n + 1] <= q[n + 1].at
  BY <1>5, <1>8
<1>14. q[n + 1].at <= q[Len(q)].at
  <2>1. CASE n + 1 = Len(q)
    BY <1>12, <2>1
  <2>2. CASE n + 1 < Len(q)
    BY <1>5, <1>8, <1>9, <2>2
  <2> QED BY <1>1, <1>7, <1>8, <2>1, <2>2
<1>15. ~(time - d.stamps[n + 1] >= TicketTtl)
  BY <1>6, <1>10
<1>16. time - q[Len(q)].at < TicketTtl
  BY <1>11, <1>12, <1>13, <1>14, <1>15, Younger, Zenon
<1> QED BY <1>2, <1>9, <1>11, <1>16

TicketsFresh == Tickets!TypeOK /\ Tickets!StampsCover /\ Tickets!NeverStale

(* TypeOK, StampsCover and NeverStale are inductive together.              *)
LEMMA FreshInit ==
  ASSUME Tickets!Init
  PROVE  TicketsFresh
<1>1. << >> \in Seq(Tickets!Ticket) /\ << >> \in Seq(Nat) /\ Len(<< >>) = 0
  OBVIOUS
<1>2. Tickets!NoData \in Tickets!ServerData
  BY <1>1 DEF Tickets!NoData, Tickets!ServerData
<1>3. Tickets!TypeOK
  BY <1>2 DEF Tickets!Init, Tickets!TypeOK, Tickets!Outside
<1>4. Tickets!Covered(Tickets!NoData, 0)
  BY <1>1 DEF Tickets!Covered, Tickets!NoData
<1>5. Tickets!StampsCover
  BY <1>4, SMTT(30) DEF Tickets!Init, Tickets!StampsCover, Tickets!Outside
<1> QED BY <1>3, <1>5 DEF TicketsFresh, Tickets!Init, Tickets!NeverStale

(* What a server's data is for keeps its cover when the clock moves on.    *)
LEMMA LaterStillCovered ==
  ASSUME NEW d \in Tickets!ServerData, NEW t \in Nat, Tickets!Covered(d, t)
  PROVE  Tickets!Covered(d, t + 1)
<1>1. d.tls13 \in Seq(Tickets!Ticket) /\ d.stamps \in Seq(Nat)
  BY DEF Tickets!ServerData
<1>0. \A a \in Nat : a <= t => a <= t + 1
  BY SMTT(30)
<1>2. \A i \in 1 .. Len(d.stamps) : d.stamps[i] \in Nat /\ d.stamps[i] <= t + 1
  BY <1>0, <1>1 DEF Tickets!Covered
<1>3. \A i \in 1 .. Len(d.tls13) : d.tls13[i].at \in Nat
  <2>1. \A i \in 1 .. Len(d.tls13) : d.tls13[i] \in Tickets!Ticket
    BY <1>1
  <2> QED BY <2>1 DEF Tickets!Ticket
<1>4. \A i \in 1 .. Len(d.tls13) : d.stamps[i] <= d.tls13[i].at /\ d.tls13[i].at <= t + 1
  BY <1>0, <1>3 DEF Tickets!Covered
<1> QED BY <1>2, <1>4 DEF Tickets!Covered

(* One server's data changes and keeps its type and its cover.             *)
LEMMA OneServerChanges ==
  ASSUME TicketsFresh, NEW s \in Servers, NEW e \in Tickets!ServerData, Tickets!Covered(e, time),
         servers' = [servers EXCEPT ![s] = e], time' = time
  PROVE  /\ servers' \in [Servers -> Tickets!ServerData]
         /\ \A u \in Servers : Tickets!Covered(servers'[u], time')
BY DEF TicketsFresh, Tickets!TypeOK, Tickets!StampsCover

(* Every step keeps them.                                                  *)
LEMMA FreshStep ==
  ASSUME TicketsFresh, Tickets!Next
  PROVE  TicketsFresh'
<1> USE DEF TicketsFresh
<1>1. CASE Tickets!Tick
  <2>1. Tickets!TypeOK' /\ Tickets!NeverStale'
    BY <1>1 DEF Tickets!Tick, Tickets!TypeOK, Tickets!NeverStale
  <2>2. \A s \in Servers : Tickets!Covered(servers'[s], time')
    BY <1>1, LaterStillCovered DEF Tickets!Tick, Tickets!TypeOK, Tickets!StampsCover
  <2>3. \A t \in Threads : inserting'[t].read <= time'
    BY <1>1 DEF Tickets!Tick, Tickets!TypeOK, Tickets!StampsCover
  <2> QED BY <2>1, <2>2, <2>3 DEF Tickets!StampsCover
<1>2. CASE Tickets!clear
  <2>1. << >> \in Seq(Tickets!Ticket) /\ << >> \in Seq(Nat) /\ Len(<< >>) = 0
    OBVIOUS
  <2>2. Tickets!NoData \in Tickets!ServerData /\ Tickets!Covered(Tickets!NoData, time)
    BY <2>1 DEF Tickets!NoData, Tickets!ServerData, Tickets!Covered
  <2> QED BY <1>2, <2>2 DEF Tickets!clear, Tickets!TypeOK, Tickets!StampsCover, Tickets!NeverStale
<1>3. ASSUME NEW t \in Threads, Tickets!ReadClock(t)
      PROVE  TicketsFresh'
  <2>1. inserting' \in [Threads -> [busy : BOOLEAN, read : Nat]]
    BY <1>3 DEF Tickets!ReadClock, Tickets!TypeOK
  <2>2. \A u \in Threads : inserting'[u].read <= time'
    BY <1>3 DEF Tickets!ReadClock, Tickets!TypeOK, Tickets!StampsCover
  <2> QED BY <1>3, <2>1, <2>2 DEF Tickets!ReadClock, Tickets!TypeOK, Tickets!StampsCover, Tickets!NeverStale
<1>4. ASSUME NEW t \in Threads, NEW s \in Servers, Tickets!insert_tls13_ticket(t, s)
      PROVE  TicketsFresh'
  <2>1. PICK n \in 0 .. Len(servers[s].stamps) :
               servers' = [servers EXCEPT ![s] =
                             Tickets!Pushed(Tickets!Limited(Tickets!evict_expired_tickets(servers[s], n)),
                                    [id |-> issued, at |-> time], inserting[t].read)]
    BY <1>4, Zenon DEF Tickets!insert_tls13_ticket
  <2> DEFINE d == Tickets!evict_expired_tickets(servers[s], n)
             e == Tickets!Pushed(Tickets!Limited(d), [id |-> issued, at |-> time], inserting[t].read)
  <2>2. /\ servers[s] \in Tickets!ServerData /\ Tickets!Covered(servers[s], time)
        /\ time \in Nat /\ issued \in Nat /\ inserting[t].read \in Nat /\ inserting[t].read <= time
    BY DEF Tickets!TypeOK, Tickets!StampsCover
  <2>3. n \in Nat
    BY <2>2, SMTT(30) DEF Tickets!ServerData
  <2>4. d \in Tickets!ServerData /\ Tickets!Covered(d, time)
    BY <2>2, <2>3, DropKeepsCovered, SMTT(30)
  <2>5. Tickets!Limited(d) \in Tickets!ServerData /\ Tickets!Covered(Tickets!Limited(d), time)
    BY <2>2, <2>4, LimitedKeepsCovered
  <2>6. e \in Tickets!ServerData /\ Tickets!Covered(e, time)
    BY <2>2, <2>5, PushedKeepsCovered, Zenon
  <2> HIDE DEF e
  <2>7. servers' = [servers EXCEPT ![s] = e] /\ time' = time /\ taken' = taken
    BY <1>4, <2>1, Zenon DEF e, Tickets!insert_tls13_ticket
  <2>8. /\ servers' \in [Servers -> Tickets!ServerData]
        /\ \A u \in Servers : Tickets!Covered(servers'[u], time')
    BY <2>6, <2>7, OneServerChanges, Zenon
  <2>9. /\ inserting' \in [Threads -> [busy : BOOLEAN, read : Nat]] /\ issued' \in Nat
        /\ \A u \in Threads : inserting'[u].read <= time'
    BY <1>4, <2>7 DEF Tickets!insert_tls13_ticket, Tickets!Outside, Tickets!TypeOK, Tickets!StampsCover
  <2> QED BY <2>7, <2>8, <2>9 DEF Tickets!TypeOK, Tickets!StampsCover, Tickets!NeverStale
<1>5. ASSUME NEW s \in Servers, Tickets!take_tls13_ticket(s)
      PROVE  TicketsFresh'
  <2>1. PICK n \in 0 .. Len(servers[s].stamps) :
          LET e == Tickets!evict_expired_tickets(servers[s], n)
              k == Len(e.tls13)
          IN /\ Tickets!EvictsExactly(servers[s], n)
             /\ servers' = [servers EXCEPT ![s] =
                              IF k = 0 THEN e ELSE [e EXCEPT !.tls13 = SubSeq(@, 1, k - 1)]]
             /\ taken' = IF k = 0 THEN taken
                         ELSE taken \cup {[id |-> e.tls13[k].id, at |-> e.tls13[k].at, when |-> time]}
    BY <1>5, Zenon DEF Tickets!take_tls13_ticket
  <2> DEFINE e == Tickets!evict_expired_tickets(servers[s], n)
             k == Len(e.tls13)
             f == [e EXCEPT !.tls13 = SubSeq(e.tls13, 1, k - 1)]
  <2>2. /\ servers[s] \in Tickets!ServerData /\ Tickets!Covered(servers[s], time) /\ time \in Nat
        /\ time' = time /\ inserting' = inserting /\ issued' = issued
    BY <1>5 DEF Tickets!TypeOK, Tickets!StampsCover, Tickets!take_tls13_ticket
  <2>3. n \in Nat
    BY <2>2 DEF Tickets!ServerData
  <2>4. e \in Tickets!ServerData /\ Tickets!Covered(e, time)
    BY <2>2, <2>3, DropKeepsCovered
  <2>5. k # 0 => f \in Tickets!ServerData /\ Tickets!Covered(f, time)
    BY <2>2, <2>4, PopKeepsCovered
  <2>6. k # 0 => e.tls13[k] \in Tickets!Ticket /\ time - e.tls13[k].at < TicketTtl
    BY <2>1, <2>2, TicketAssumption, PoppedIsFresh
  <2>7. /\ servers' = [servers EXCEPT ![s] = IF k = 0 THEN e ELSE f]
        /\ taken' = IF k = 0 THEN taken
                    ELSE taken \cup {[id |-> e.tls13[k].id, at |-> e.tls13[k].at, when |-> time]}
    BY <2>1
  <2> HIDE DEF e, f
  <2>8. (IF k = 0 THEN e ELSE f) \in Tickets!ServerData /\ Tickets!Covered(IF k = 0 THEN e ELSE f, time)
    BY <2>4, <2>5
  <2>9. /\ servers' \in [Servers -> Tickets!ServerData]
        /\ \A u \in Servers : Tickets!Covered(servers'[u], time')
    BY <2>2, <2>7, <2>8, OneServerChanges, Zenon
  <2>10. taken' \in SUBSET Tickets!Taken /\ \A m \in taken' : m.when - m.at < TicketTtl
    <3>1. CASE k = 0
      BY <2>7, <3>1 DEF Tickets!TypeOK, Tickets!NeverStale
    <3>2. CASE k # 0
      <4> DEFINE new == [id |-> e.tls13[k].id, at |-> e.tls13[k].at, when |-> time]
      <4>1. new \in Tickets!Taken /\ new.when - new.at < TicketTtl
        BY <2>2, <2>6, <3>2, Zenon DEF Tickets!Taken, Tickets!Ticket
      <4>2. taken' = taken \cup {new}
        BY <2>7, <3>2
      <4> HIDE DEF new
      <4> QED BY <4>1, <4>2 DEF Tickets!TypeOK, Tickets!NeverStale
    <3> QED BY <3>1, <3>2, SMTT(30)
  <2> QED BY <2>2, <2>9, <2>10 DEF Tickets!TypeOK, Tickets!StampsCover, Tickets!NeverStale
<1>6. ASSUME NEW s \in Servers,
             Tickets!set_kx_hint(s) \/ Tickets!set_tls12_session(s) \/ Tickets!remove_tls12_session(s)
      PROVE  TicketsFresh'
  <2>1. PICK e \in Tickets!ServerData : /\ servers' = [servers EXCEPT ![s] = e]
                               /\ e.tls13 = servers[s].tls13 /\ e.stamps = servers[s].stamps
    <3>1. \A b \in BOOLEAN : /\ [servers[s] EXCEPT !.kx_hint = b] \in Tickets!ServerData
                             /\ [servers[s] EXCEPT !.tls12 = b] \in Tickets!ServerData
                             /\ [servers[s] EXCEPT !.kx_hint = b].tls13 = servers[s].tls13
                             /\ [servers[s] EXCEPT !.kx_hint = b].stamps = servers[s].stamps
                             /\ [servers[s] EXCEPT !.tls12 = b].tls13 = servers[s].tls13
                             /\ [servers[s] EXCEPT !.tls12 = b].stamps = servers[s].stamps
      BY Zenon DEF Tickets!TypeOK, Tickets!ServerData
    <3> QED BY <1>6, <3>1, Zenon DEF Tickets!set_kx_hint, Tickets!set_tls12_session, Tickets!remove_tls12_session
  <2>2. UNCHANGED <<time, inserting, issued, taken>>
    BY <1>6 DEF Tickets!set_kx_hint, Tickets!set_tls12_session, Tickets!remove_tls12_session
  <2>3. Tickets!Covered(e, time)
    BY <2>1 DEF Tickets!StampsCover, Tickets!Covered
  <2>4. /\ servers' \in [Servers -> Tickets!ServerData]
        /\ \A u \in Servers : Tickets!Covered(servers'[u], time')
    BY <2>1, <2>2, <2>3, OneServerChanges, Zenon
  <2> QED BY <2>2, <2>4 DEF Tickets!TypeOK, Tickets!StampsCover, Tickets!NeverStale
<1> QED BY <1>1, <1>2, <1>3, <1>4, <1>5, <1>6, SMTT(30) DEF Tickets!Next


----------------------------------------------------------------------------
(* The numbers of a server's tickets, and that each is there once.         *)
TicketIds(d) == {d.tls13[i].id : i \in 1 .. Len(d.tls13)}

TicketsDiffer(d) ==
  \A i, j \in 1 .. Len(d.tls13) : d.tls13[i].id = d.tls13[j].id => i = j

(* A ticket is at one place: in the store once, or taken, or dropped.      *)
AtOnePlace ==
  /\ \A s \in Servers : TicketsDiffer(servers[s]) /\ \A n \in TicketIds(servers[s]) : n < issued
  /\ \A s, u \in Servers : s # u => TicketIds(servers[s]) \cap TicketIds(servers[u]) = {}
  /\ \A k \in taken : k.id < issued /\ \A s \in Servers : k.id \notin TicketIds(servers[s])

TicketsOnce == Tickets!TakenOnce /\ AtOnePlace

TicketsInv == TicketsFresh /\ TicketsOnce

(* Dropping tickets from the front brings no new ones.                     *)
LEMMA DropKeepsIds ==
  ASSUME NEW d \in Tickets!ServerData, NEW n \in Nat, TicketsDiffer(d)
  PROVE  LET e == Tickets!evict_expired_tickets(d, n)
         IN /\ e \in Tickets!ServerData
            /\ TicketsDiffer(e) /\ TicketIds(e) \subseteq TicketIds(d)
            /\ Len(e.tls13) = IF n < Len(d.tls13) THEN Len(d.tls13) - n ELSE 0
<1> DEFINE e == Tickets!evict_expired_tickets(d, n)
<1>1. d.tls13 \in Seq(Tickets!Ticket) /\ d.stamps \in Seq(Nat)
  BY DEF Tickets!ServerData
<1>2. e = [d EXCEPT !.tls13 = Tickets!Drop(d.tls13, n), !.stamps = Tickets!Drop(d.stamps, n)]
  BY DEF Tickets!evict_expired_tickets
<1>3. e.tls13 = Tickets!Drop(d.tls13, n) /\ e.stamps = Tickets!Drop(d.stamps, n)
  BY <1>2 DEF Tickets!ServerData
<1>4. /\ Tickets!Drop(d.tls13, n) \in Seq(Tickets!Ticket)
      /\ Tickets!Drop(d.stamps, n) \in Seq(Nat)
      /\ Len(Tickets!Drop(d.tls13, n)) = IF n < Len(d.tls13) THEN Len(d.tls13) - n ELSE 0
      /\ \A i \in 1 .. Len(Tickets!Drop(d.tls13, n)) :
           i + n \in 1 .. Len(d.tls13) /\ Tickets!Drop(d.tls13, n)[i] = d.tls13[i + n]
  BY <1>1, DropProperties, SMTT(30)
<1>5. e \in Tickets!ServerData
  BY <1>2, <1>4, Zenon DEF Tickets!ServerData
<1> HIDE DEF e
<1>6. \A i \in 1 .. Len(e.tls13) : i + n \in 1 .. Len(d.tls13) /\ e.tls13[i] = d.tls13[i + n]
  BY <1>3, <1>4
<1>7. TicketIds(e) \subseteq TicketIds(d)
  BY <1>6 DEF TicketIds
<1>8. \A i, j \in Nat : i + n = j + n => i = j
  OBVIOUS
<1>9. \A i \in 1 .. Len(e.tls13) : i \in Nat
  OBVIOUS
<1>10. TicketsDiffer(e)
  <2> SUFFICES ASSUME NEW i \in 1 .. Len(e.tls13), NEW j \in 1 .. Len(e.tls13),
                      e.tls13[i].id = e.tls13[j].id
               PROVE  i = j
    BY DEF TicketsDiffer
  <2>1. d.tls13[i + n].id = d.tls13[j + n].id /\ i + n \in 1 .. Len(d.tls13) /\ j + n \in 1 .. Len(d.tls13)
    BY <1>6, Zenon
  <2>2. i + n = j + n
    BY <2>1 DEF TicketsDiffer
  <2> QED BY <1>8, <1>9, <2>2
<1> QED BY <1>3, <1>4, <1>5, <1>7, <1>10 DEF e

(* The limit makes room for one more.                                      *)
LEMMA LimitedKeepsIds ==
  ASSUME NEW d \in Tickets!ServerData, TicketsDiffer(d), Len(d.tls13) <= MaxTickets
  PROVE  LET e == Tickets!Limited(d)
         IN /\ e \in Tickets!ServerData
            /\ TicketsDiffer(e) /\ TicketIds(e) \subseteq TicketIds(d)
            /\ Len(e.tls13) < MaxTickets
<1>1. Len(d.tls13) \in Nat /\ MaxTickets \in Nat \ {0}
  BY TicketAssumption DEF Tickets!ServerData
<1>2. CASE Len(d.tls13) >= MaxTickets
  <2>1. Tickets!Limited(d) = Tickets!evict_expired_tickets(d, 1)
    BY <1>2 DEF Tickets!Limited, Tickets!evict_expired_tickets
  <2> QED BY <1>1, <1>2, <2>1, DropKeepsIds
<1>3. CASE ~(Len(d.tls13) >= MaxTickets)
  <2>1. Tickets!Limited(d) = d
    BY <1>3 DEF Tickets!Limited
  <2> QED BY <1>1, <1>3, <2>1
<1> QED BY <1>2, <1>3

(* The ticket that is pushed has a number of its own.                      *)
LEMMA PushedIds ==
  ASSUME NEW d \in Tickets!ServerData, TicketsDiffer(d), NEW k \in Tickets!Ticket,
         NEW stamp \in Nat, k.id \notin TicketIds(d)
  PROVE  LET e == Tickets!Pushed(d, k, stamp)
         IN /\ TicketsDiffer(e) /\ TicketIds(e) = TicketIds(d) \cup {k.id}
            /\ Len(e.tls13) = Len(d.tls13) + 1
<1> DEFINE e == Tickets!Pushed(d, k, stamp)
<1>1. d.tls13 \in Seq(Tickets!Ticket)
  BY DEF Tickets!ServerData
<1>2. e.tls13 = Append(d.tls13, k)
  BY DEF Tickets!Pushed, Tickets!ServerData
<1> HIDE DEF e
<1>3. /\ Len(e.tls13) = Len(d.tls13) + 1 /\ Len(d.tls13) \in Nat
      /\ \A i \in 1 .. Len(d.tls13) : e.tls13[i] = d.tls13[i]
      /\ e.tls13[Len(d.tls13) + 1] = k
  BY <1>1, <1>2, AppendGives
<1>4. 1 .. Len(e.tls13) = (1 .. Len(d.tls13)) \cup {Len(d.tls13) + 1}
  BY <1>3
<1>5. TicketIds(e) = TicketIds(d) \cup {k.id}
  <2>1. \A i \in 1 .. Len(d.tls13) : e.tls13[i].id = d.tls13[i].id /\ i \in 1 .. Len(e.tls13)
    BY <1>3, <1>4
  <2>2. e.tls13[Len(d.tls13) + 1].id = k.id /\ Len(d.tls13) + 1 \in 1 .. Len(e.tls13)
    BY <1>3, <1>4
  <2>3. TicketIds(d) \cup {k.id} \subseteq TicketIds(e)
    BY <2>1, <2>2, Zenon DEF TicketIds
  <2>4. TicketIds(e) \subseteq TicketIds(d) \cup {k.id}
    <3> SUFFICES ASSUME NEW i \in 1 .. Len(e.tls13)
                 PROVE  e.tls13[i].id \in TicketIds(d) \cup {k.id}
      BY Zenon DEF TicketIds
    <3>1. i \in 1 .. Len(d.tls13) \/ i = Len(d.tls13) + 1
      BY <1>4
    <3> QED BY <2>1, <2>2, <3>1, Zenon DEF TicketIds
  <2> QED BY <2>3, <2>4
<1>6. \A i \in 1 .. Len(d.tls13) : e.tls13[i].id # k.id
  BY <1>3 DEF TicketIds
<1>7. TicketsDiffer(e)
  BY <1>3, <1>4, <1>6, Zenon DEF TicketsDiffer
<1> QED BY <1>3, <1>5, <1>7 DEF e

(* The ticket that is popped is no longer there.                           *)
LEMMA PoppedIds ==
  ASSUME NEW d \in Tickets!ServerData, TicketsDiffer(d), Len(d.tls13) # 0
  PROVE  LET m == Len(d.tls13)
             e == [d EXCEPT !.tls13 = SubSeq(d.tls13, 1, m - 1)]
         IN /\ d.tls13[m].id \in TicketIds(d)
            /\ TicketsDiffer(e) /\ TicketIds(e) \subseteq TicketIds(d) \ {d.tls13[m].id}
            /\ Len(e.tls13) < m
<1> DEFINE m == Len(d.tls13)
           e == [d EXCEPT !.tls13 = SubSeq(d.tls13, 1, m - 1)]
<1>1. d.tls13 \in Seq(Tickets!Ticket)
  BY DEF Tickets!ServerData
<1>2. m \in Nat /\ m # 0 /\ m - 1 \in Nat
  BY <1>1
<1>3. /\ Len(SubSeq(d.tls13, 1, m - 1)) = m - 1
      /\ \A i \in 1 .. m - 1 : SubSeq(d.tls13, 1, m - 1)[i] = d.tls13[i]
  BY <1>1, <1>2
<1>4. e.tls13 = SubSeq(d.tls13, 1, m - 1)
  BY DEF Tickets!ServerData
<1> HIDE DEF e
<1>5. Len(e.tls13) = m - 1 /\ \A i \in 1 .. m - 1 : e.tls13[i] = d.tls13[i]
  BY <1>3, <1>4
<1>6. m \in 1 .. m /\ \A i \in 1 .. m - 1 : i \in 1 .. m /\ i # m
  BY <1>2
<1> HIDE DEF m
<1>7. TicketsDiffer(e)
  <2> SUFFICES ASSUME NEW i \in 1 .. m - 1, NEW j \in 1 .. m - 1, e.tls13[i].id = e.tls13[j].id
               PROVE  i = j
    BY <1>5 DEF TicketsDiffer
  <2>1. d.tls13[i].id = d.tls13[j].id /\ i \in 1 .. Len(d.tls13) /\ j \in 1 .. Len(d.tls13)
    BY <1>5, <1>6, Zenon DEF m
  <2> QED BY <2>1 DEF TicketsDiffer
<1>8. \A i \in 1 .. m - 1 : d.tls13[i].id \in TicketIds(d) /\ d.tls13[i].id # d.tls13[m].id
  BY <1>6, SMTT(30) DEF TicketsDiffer, TicketIds, m
<1>9. TicketIds(e) \subseteq TicketIds(d) \ {d.tls13[m].id}
  BY <1>5, <1>8, Zenon DEF TicketIds
<1>10. d.tls13[m].id \in TicketIds(d)
  BY <1>6, SMTT(30) DEF TicketIds, m
<1>11. Len(e.tls13) < m
  BY <1>2, <1>5
<1> QED BY <1>7, <1>9, <1>10, <1>11, Zenon DEF e, m

(* One server gets other tickets: some of its own, and perhaps a new one.  *)
LEMMA OneServerKeeps ==
  ASSUME TicketsInv, NEW s \in Servers, NEW e, servers' = [servers EXCEPT ![s] = e],
         TicketsDiffer(e), Len(e.tls13) <= MaxTickets,
         issued' \in Nat, issued <= issued',
         \A n \in TicketIds(e) : n \in TicketIds(servers[s]) \/ (n = issued /\ issued < issued'),
         taken' = taken
  PROVE  TicketsOnce'
<1>1. \A u \in Servers : servers'[u] = IF u = s THEN e ELSE servers[u]
  BY DEF TicketsInv, TicketsFresh, Tickets!TypeOK
<1>2. issued \in Nat /\ taken \subseteq Tickets!Taken
  BY SMTT(30) DEF TicketsInv, TicketsFresh, Tickets!TypeOK
<1>3. \A u \in Servers : TicketsDiffer(servers'[u]) /\ Len(servers'[u].tls13) <= MaxTickets
  BY <1>1 DEF TicketsInv, TicketsOnce, Tickets!TakenOnce, AtOnePlace
<1>4. \A n \in Nat : n < issued => n < issued'
  BY <1>2, SMTT(30)
<1>5. ASSUME NEW u \in Servers, NEW n \in TicketIds(servers[u])
      PROVE  n \in Nat /\ n < issued
  <2>1. servers[u].tls13 \in Seq(Tickets!Ticket)
    BY SMTT(30) DEF TicketsInv, TicketsFresh, Tickets!TypeOK, Tickets!ServerData
  <2>2. PICK i \in 1 .. Len(servers[u].tls13) : n = servers[u].tls13[i].id
    BY <1>5, SMTT(30) DEF TicketIds
  <2>3. servers[u].tls13[i] \in Tickets!Ticket
    BY <2>1, SMTT(30)
  <2>4. n \in Nat
    BY <2>2, <2>3 DEF Tickets!Ticket
  <2> QED BY <1>5, <2>4 DEF TicketsInv, TicketsOnce, AtOnePlace
<1>6. ASSUME NEW u \in Servers, NEW n \in TicketIds(servers'[u])
      PROVE  n < issued' /\ (n \in TicketIds(servers[u]) \/ (u = s /\ n = issued))
  <2>1. CASE n \in TicketIds(servers[u])
    BY <1>4, <1>5, <2>1
  <2>2. CASE n \notin TicketIds(servers[u])
    BY <1>1, <1>6, <2>2
  <2> QED BY <2>1, <2>2
<1>7. \A u \in Servers : issued \notin TicketIds(servers[u])
  BY <1>2, <1>5
<1>8. ASSUME NEW u \in Servers, NEW v \in Servers, u # v
      PROVE  TicketIds(servers'[u]) \cap TicketIds(servers'[v]) = {}
  <2>1. TicketIds(servers[u]) \cap TicketIds(servers[v]) = {}
    BY <1>8 DEF TicketsInv, TicketsOnce, AtOnePlace
  <2> QED BY <1>6, <1>7, <1>8, <2>1, SMTT(30)
<1>9. ASSUME NEW k \in taken'
      PROVE  k.id < issued' /\ \A u \in Servers : k.id \notin TicketIds(servers'[u])
  <2>1. k \in taken /\ k.id \in Nat
    BY <1>2, <1>9, SMTT(30) DEF Tickets!Taken
  <2>2. k.id < issued /\ k.id # issued
    BY <1>2, <2>1, SMTT(30) DEF TicketsInv, TicketsOnce, AtOnePlace
  <2>3. \A u \in Servers : k.id \notin TicketIds(servers[u])
    BY <2>1 DEF TicketsInv, TicketsOnce, AtOnePlace
  <2> QED BY <1>4, <1>6, <2>1, <2>2, <2>3
<1>10. AtOnePlace'
  BY <1>3, <1>6, <1>8, <1>9, Zenon DEF AtOnePlace
<1>11. Tickets!TakenOnce'
  BY <1>3 DEF TicketsInv, TicketsOnce, Tickets!TakenOnce
<1> QED BY <1>10, <1>11 DEF TicketsOnce

(* A ticket is taken: it leaves the store for good.                        *)
LEMMA OneTicketTaken ==
  ASSUME TicketsInv, NEW s \in Servers, NEW e, servers' = [servers EXCEPT ![s] = e],
         TicketsDiffer(e), Len(e.tls13) <= MaxTickets, issued' = issued,
         NEW k \in Tickets!Taken, taken' = taken \cup {k}, k.id \in TicketIds(servers[s]),
         TicketIds(e) \subseteq TicketIds(servers[s]) \ {k.id}
  PROVE  TicketsOnce'
<1>1. \A u \in Servers : servers'[u] = IF u = s THEN e ELSE servers[u]
  BY SMTT(30) DEF TicketsInv, TicketsFresh, Tickets!TypeOK
<1>2. \A u \in Servers : TicketsDiffer(servers'[u]) /\ Len(servers'[u].tls13) <= MaxTickets
  BY <1>1, SMTT(30) DEF TicketsInv, TicketsOnce, Tickets!TakenOnce, AtOnePlace
<1>3. \A u \in Servers : TicketIds(servers'[u]) \subseteq TicketIds(servers[u]) /\ k.id \notin TicketIds(servers'[u])
  BY <1>1, SMTT(30) DEF TicketsInv, TicketsOnce, AtOnePlace
<1>4. \A u \in Servers : \A n \in TicketIds(servers[u]) : n < issued
  BY SMTT(30) DEF TicketsInv, TicketsOnce, AtOnePlace
<1>5. \A u, v \in Servers : u # v => TicketIds(servers'[u]) \cap TicketIds(servers'[v]) = {}
  BY <1>3, SMTT(30) DEF TicketsInv, TicketsOnce, AtOnePlace
<1>6. \A m \in taken : m.id < issued /\ m.id # k.id /\ \A u \in Servers : m.id \notin TicketIds(servers[u])
  BY DEF TicketsInv, TicketsOnce, AtOnePlace
<1>7. \A m \in taken' : m.id < issued /\ \A u \in Servers : m.id \notin TicketIds(servers'[u])
  BY <1>3, <1>4, <1>6
<1>8. AtOnePlace'
  BY <1>2, <1>3, <1>4, <1>5, <1>7, Zenon DEF AtOnePlace
<1>9. \A l, m \in taken' : l.id = m.id => l = m
  BY <1>6 DEF TicketsInv, TicketsOnce, Tickets!TakenOnce
<1>10. Tickets!TakenOnce'
  BY <1>2, <1>9 DEF Tickets!TakenOnce
<1> QED BY <1>8, <1>10 DEF TicketsOnce

(* No ticket is taken twice, whatever interleaves.                         *)
LEMMA OnceStep ==
  ASSUME TicketsInv, Tickets!Next
  PROVE  TicketsOnce'
<1>1. CASE Tickets!Tick
  BY <1>1 DEF Tickets!Tick, TicketsInv, TicketsOnce, AtOnePlace, Tickets!TakenOnce
<1>2. CASE Tickets!clear
  <2>1. Len(Tickets!NoData.tls13) = 0 /\ TicketIds(Tickets!NoData) = {} /\ TicketsDiffer(Tickets!NoData)
    BY DEF Tickets!NoData, TicketIds, TicketsDiffer
  <2>2. \A s \in Servers : servers'[s] = Tickets!NoData
    BY <1>2 DEF Tickets!clear
  <2>3. issued' = issued /\ taken' = taken
    BY <1>2 DEF Tickets!clear
  <2>4. AtOnePlace'
    BY <2>1, <2>2, <2>3, Zenon DEF TicketsInv, TicketsOnce, AtOnePlace
  <2>5. Tickets!TakenOnce'
    BY <2>1, <2>2, <2>3, TicketAssumption, SMTT(30) DEF TicketsInv, TicketsOnce, Tickets!TakenOnce
  <2> QED BY <2>4, <2>5, SMTT(30) DEF TicketsOnce
<1>3. ASSUME NEW t \in Threads, Tickets!ReadClock(t)
      PROVE  TicketsOnce'
  BY <1>3 DEF Tickets!ReadClock, TicketsInv, TicketsOnce, AtOnePlace, Tickets!TakenOnce
<1>4. ASSUME NEW t \in Threads, NEW s \in Servers, Tickets!insert_tls13_ticket(t, s)
      PROVE  TicketsOnce'
  <2> DEFINE k == [id |-> issued, at |-> time]
  <2>1. PICK n \in 0 .. Len(servers[s].stamps) :
          servers' = [servers EXCEPT ![s] =
            Tickets!Pushed(Tickets!Limited(Tickets!evict_expired_tickets(servers[s], n)), k, inserting[t].read)]
    BY <1>4, Zenon DEF Tickets!insert_tls13_ticket
  <2> DEFINE d == Tickets!evict_expired_tickets(servers[s], n)
             l == Tickets!Limited(d)
             e == Tickets!Pushed(l, k, inserting[t].read)
  <2>2. /\ servers[s] \in Tickets!ServerData /\ n \in Nat
        /\ time \in Nat /\ issued \in Nat /\ inserting[t].read \in Nat
    BY DEF TicketsInv, TicketsFresh, Tickets!TypeOK, Tickets!ServerData
  <2>3. TicketsDiffer(servers[s]) /\ Len(servers[s].tls13) <= MaxTickets
    BY DEF TicketsInv, TicketsOnce, Tickets!TakenOnce, AtOnePlace
  <2>4. Len(servers[s].tls13) \in Nat /\ MaxTickets \in Nat
    BY <2>2, TicketAssumption, SMTT(30) DEF Tickets!ServerData
  <2>5. /\ d \in Tickets!ServerData /\ TicketsDiffer(d) /\ TicketIds(d) \subseteq TicketIds(servers[s])
        /\ Len(d.tls13) = IF n < Len(servers[s].tls13) THEN Len(servers[s].tls13) - n ELSE 0
    BY <2>2, <2>3, DropKeepsIds, SMTT(30)
  <2> HIDE DEF d
  <2>6. Len(d.tls13) <= MaxTickets
    BY <2>2, <2>3, <2>4, <2>5, SMTT(30)
  <2>7. /\ l \in Tickets!ServerData /\ TicketsDiffer(l) /\ TicketIds(l) \subseteq TicketIds(d)
        /\ Len(l.tls13) < MaxTickets
    BY <2>5, <2>6, LimitedKeepsIds, SMTT(30)
  <2> HIDE DEF l
  <2>8. k \in Tickets!Ticket /\ k.id = issued
    BY <2>2 DEF Tickets!Ticket
  <2> HIDE DEF k
  <2>9. \A m \in TicketIds(servers[s]) : m # issued
    <3>1. \A m \in TicketIds(servers[s]) : m < issued
      BY Zenon DEF TicketsInv, TicketsOnce, AtOnePlace
    <3> QED BY <2>2, <3>1
  <2>10. /\ TicketsDiffer(e) /\ TicketIds(e) = TicketIds(l) \cup {k.id}
         /\ Len(e.tls13) = Len(l.tls13) + 1
    BY <2>2, <2>5, <2>7, <2>8, <2>9, PushedIds, Zenon
  <2> HIDE DEF e
  <2>11. Len(e.tls13) <= MaxTickets
    <3>1. Len(l.tls13) \in Nat
      BY <2>7 DEF Tickets!ServerData
    <3> QED BY <2>4, <2>7, <2>10, <3>1
  <2>12. issued' = issued + 1 /\ taken' = taken /\ servers' = [servers EXCEPT ![s] = e]
    BY <1>4, <2>1, Zenon DEF Tickets!insert_tls13_ticket, e, l, d
  <2>13. issued' \in Nat /\ issued <= issued' /\ issued < issued'
    BY <2>2, <2>12, SMTT(30)
  <2>14. \A m \in TicketIds(e) : m \in TicketIds(servers[s]) \/ (m = issued /\ issued < issued')
    BY <2>5, <2>7, <2>8, <2>10, <2>13
  <2> QED BY <2>10, <2>11, <2>12, <2>13, <2>14, OneServerKeeps, Zenon
<1>5. ASSUME NEW s \in Servers, Tickets!take_tls13_ticket(s)
      PROVE  TicketsOnce'
  <2>1. PICK n \in 0 .. Len(servers[s].stamps) :
          LET e == Tickets!evict_expired_tickets(servers[s], n)
              k == Len(e.tls13)
          IN /\ servers' = [servers EXCEPT ![s] =
                              IF k = 0 THEN e ELSE [e EXCEPT !.tls13 = SubSeq(@, 1, k - 1)]]
             /\ taken' = IF k = 0 THEN taken
                         ELSE taken \cup {[id |-> e.tls13[k].id, at |-> e.tls13[k].at, when |-> time]}
    BY <1>5, Zenon DEF Tickets!take_tls13_ticket
  <2> DEFINE e == Tickets!evict_expired_tickets(servers[s], n)
             k == Len(e.tls13)
             f == [e EXCEPT !.tls13 = SubSeq(e.tls13, 1, k - 1)]
             new == [id |-> e.tls13[k].id, at |-> e.tls13[k].at, when |-> time]
  <2>2. /\ servers[s] \in Tickets!ServerData /\ n \in Nat /\ time \in Nat /\ issued \in Nat
        /\ issued' = issued
    BY <1>5 DEF TicketsInv, TicketsFresh, Tickets!TypeOK, Tickets!ServerData, Tickets!take_tls13_ticket
  <2>3. TicketsDiffer(servers[s]) /\ Len(servers[s].tls13) <= MaxTickets
    BY DEF TicketsInv, TicketsOnce, Tickets!TakenOnce, AtOnePlace
  <2>4. Len(servers[s].tls13) \in Nat /\ MaxTickets \in Nat
    BY <2>2, TicketAssumption, SMTT(30) DEF Tickets!ServerData
  <2>5. /\ e \in Tickets!ServerData /\ TicketsDiffer(e) /\ TicketIds(e) \subseteq TicketIds(servers[s])
        /\ k = IF n < Len(servers[s].tls13) THEN Len(servers[s].tls13) - n ELSE 0
    BY <2>2, <2>3, DropKeepsIds
  <2>6. servers' = [servers EXCEPT ![s] = IF k = 0 THEN e ELSE f] /\ taken' = IF k = 0 THEN taken ELSE taken \cup {new}
    BY <2>1
  <2> HIDE DEF e
  <2>7. k \in Nat /\ k <= MaxTickets
    BY <2>2, <2>3, <2>4, <2>5
  <2>8. CASE k = 0
    <3>1. servers' = [servers EXCEPT ![s] = e] /\ taken' = taken
      BY <2>6, <2>8
    <3>2. issued' \in Nat /\ issued <= issued' /\ Len(e.tls13) <= MaxTickets
      BY <2>2, <2>7
    <3> QED BY <2>5, <3>1, <3>2, OneServerKeeps, Zenon
  <2>9. CASE k # 0
    <3>1. servers' = [servers EXCEPT ![s] = f] /\ taken' = taken \cup {new}
      BY <2>6, <2>9
    <3>2. /\ e.tls13[k].id \in TicketIds(e)
          /\ TicketsDiffer(f) /\ TicketIds(f) \subseteq TicketIds(e) \ {e.tls13[k].id}
          /\ Len(f.tls13) < k
      BY <2>5, <2>9, PoppedIds, Zenon
    <3>3. e.tls13[k] \in Tickets!Ticket
      BY <2>5, <2>7, <2>9, SMTT(30) DEF Tickets!ServerData
    <3>4. new \in Tickets!Taken /\ new.id = e.tls13[k].id
      BY <2>2, <3>3 DEF Tickets!Taken, Tickets!Ticket
    <3>5. f.tls13 = SubSeq(e.tls13, 1, k - 1)
      BY <2>5, Zenon DEF Tickets!ServerData
    <3>6. Len(f.tls13) <= MaxTickets
      <4>1. e.tls13 \in Seq(Tickets!Ticket)
        BY <2>5 DEF Tickets!ServerData
      <4>2. Len(f.tls13) \in Nat
        BY <2>7, <2>9, <3>5, <4>1
      <4> HIDE DEF f
      <4> QED BY <2>4, <2>7, <3>2, <4>2, SMTT(30)
    <3> HIDE DEF f, new
    <3>7. new.id \in TicketIds(servers[s]) /\ TicketIds(f) \subseteq TicketIds(servers[s]) \ {new.id}
      BY <2>5, <3>2, <3>4, Zenon
    <3> QED BY <2>2, <3>1, <3>2, <3>4, <3>6, <3>7, OneTicketTaken, Zenon
  <2> QED BY <2>8, <2>9
<1>6. ASSUME NEW s \in Servers,
             Tickets!set_kx_hint(s) \/ Tickets!set_tls12_session(s) \/ Tickets!remove_tls12_session(s)
      PROVE  TicketsOnce'
  <2>1. PICK e \in Tickets!ServerData : /\ servers' = [servers EXCEPT ![s] = e]
                                        /\ e.tls13 = servers[s].tls13
    <3>1. \A b \in BOOLEAN : /\ [servers[s] EXCEPT !.kx_hint = b] \in Tickets!ServerData
                             /\ [servers[s] EXCEPT !.tls12 = b] \in Tickets!ServerData
                             /\ [servers[s] EXCEPT !.kx_hint = b].tls13 = servers[s].tls13
                             /\ [servers[s] EXCEPT !.tls12 = b].tls13 = servers[s].tls13
      BY Zenon DEF TicketsInv, TicketsFresh, Tickets!TypeOK, Tickets!ServerData
    <3> QED BY <1>6, <3>1, Zenon DEF Tickets!set_kx_hint, Tickets!set_tls12_session, Tickets!remove_tls12_session
  <2>2. issued' = issued /\ taken' = taken /\ issued \in Nat
    BY <1>6 DEF Tickets!set_kx_hint, Tickets!set_tls12_session, Tickets!remove_tls12_session,
                TicketsInv, TicketsFresh, Tickets!TypeOK
  <2>3. TicketsDiffer(servers[s]) /\ Len(servers[s].tls13) <= MaxTickets
    BY DEF TicketsInv, TicketsOnce, Tickets!TakenOnce, AtOnePlace
  <2>4. TicketsDiffer(e) /\ TicketIds(e) = TicketIds(servers[s]) /\ Len(e.tls13) <= MaxTickets
    BY <2>1, <2>3, Zenon DEF TicketsDiffer, TicketIds
  <2>5. issued' \in Nat /\ issued <= issued'
    BY <2>2
  <2> QED BY <2>1, <2>2, <2>4, <2>5, OneServerKeeps, Zenon
<1> QED BY <1>1, <1>2, <1>3, <1>4, <1>5, <1>6, SMTT(30) DEF Tickets!Next

LEMMA TicketsInitially ==
  ASSUME Tickets!Init
  PROVE  TicketsInv
<1>1. Len(Tickets!NoData.tls13) = 0 /\ TicketIds(Tickets!NoData) = {} /\ TicketsDiffer(Tickets!NoData)
  BY DEF Tickets!NoData, TicketIds, TicketsDiffer
<1>2. (\A s \in Servers : servers[s] = Tickets!NoData) /\ taken = {}
  BY DEF Tickets!Init
<1>3. TicketsOnce
  BY <1>1, <1>2, TicketAssumption DEF TicketsOnce, AtOnePlace, Tickets!TakenOnce
<1> QED BY <1>3, FreshInit, SMTT(30) DEF TicketsInv

LEMMA TicketsStep ==
  ASSUME TicketsInv, Tickets!Next
  PROVE  TicketsInv'
BY FreshStep, OnceStep, SMTT(30) DEF TicketsInv

LEMMA TicketsStutter ==
  ASSUME TicketsInv, UNCHANGED Tickets!vars
  PROVE  TicketsInv'
BY DEF TicketsInv, TicketsFresh, TicketsOnce, AtOnePlace, Tickets!vars, Tickets!TypeOK,
       Tickets!StampsCover, Tickets!NeverStale, Tickets!TakenOnce

----------------------------------------------------------------------------
(* The address book.  An entry is as it would be without the cleanup, or   *)
(* the cleanup took it when it had expired, for good.                      *)
SweptIfExpired(p) ==
  \/ book[p] = unswept[p]
  \/ ~book[p].there /\ (unswept[p].there => Book!is_expired(unswept[p]))

BookInv == Book!TypeOK /\ \A p \in Contacts : SweptIfExpired(p)

LEMMA AbsentPeer == Book!Absent \in Book!CachedPeer /\ ~Book!Absent.there
<1>1. 0 \in 0 .. MaxClock
  BY ClockAssumption
<1> QED BY <1>1, Zenon DEF Book!Absent, Book!CachedPeer, Book!Methods

LEMMA BookInitially ==
  ASSUME Book!Init
  PROVE  BookInv
<1>1. 0 \in 0 .. MaxClock
  BY ClockAssumption
<1>2. Book!TypeOK
  BY <1>1, AbsentPeer DEF Book!Init, Book!TypeOK
<1> QED BY <1>2 DEF Book!Init, BookInv, SweptIfExpired

LEMMA BookStep ==
  ASSUME BookInv, Book!Next
  PROVE  BookInv'
<1>1. /\ time \in 0 .. MaxClock
      /\ book \in [Contacts -> Book!CachedPeer] /\ unswept \in [Contacts -> Book!CachedPeer]
      /\ adding \in [Threads -> Book!CachedPeer]
  BY DEF BookInv, Book!TypeOK
<1>2. CASE Book!Tick
  <2>1. time' \in 0 .. MaxClock /\ time' = time + 1
    BY <1>1, <1>2, ClockAssumption DEF Book!Tick
  <2>2. UNCHANGED <<book, adding, unswept>>
    BY <1>2 DEF Book!Tick
  <2>3. ASSUME NEW p \in Contacts, Book!is_expired(unswept[p])
        PROVE  Book!is_expired(unswept[p])'
    <3>1. unswept[p].discovered_at \in 0 .. MaxClock
      BY <1>1 DEF Book!CachedPeer
    <3> QED BY <1>1, <2>1, <2>2, <2>3, <3>1, ClockAssumption DEF Book!is_expired
  <2>4. \A p \in Contacts : SweptIfExpired(p)'
    BY <2>2, <2>3 DEF BookInv, SweptIfExpired
  <2> QED BY <1>1, <2>1, <2>2, <2>4 DEF BookInv, Book!TypeOK
<1>3. CASE Book!cleanup_expired
  <2>1. UNCHANGED <<time, adding, unswept>>
    BY <1>3 DEF Book!cleanup_expired
  <2>2. book' = [p \in Contacts |-> IF Book!is_expired(book[p]) THEN Book!Absent ELSE book[p]]
    BY <1>3 DEF Book!cleanup_expired
  <2>3. book' \in [Contacts -> Book!CachedPeer]
    BY <1>1, <2>2, AbsentPeer
  <2>4. ASSUME NEW p \in Contacts
        PROVE  SweptIfExpired(p)'
    <3>1. CASE Book!is_expired(book[p])
      <4>1. ~book'[p].there
        BY <2>2, <3>1, AbsentPeer
      <4> QED BY <2>1, <3>1, <4>1 DEF BookInv, SweptIfExpired, Book!is_expired
    <3>2. CASE ~Book!is_expired(book[p])
      <4>1. book'[p] = book[p]
        BY <2>2, <3>2, SMTT(30)
      <4> QED BY <2>1, <4>1 DEF BookInv, SweptIfExpired, Book!is_expired
    <3> QED BY <3>1, <3>2, SMTT(30)
  <2> QED BY <1>1, <2>1, <2>3, <2>4 DEF BookInv, Book!TypeOK
<1>4. CASE Book!clear
  BY <1>1, <1>4, AbsentPeer DEF Book!clear, BookInv, Book!TypeOK, SweptIfExpired
<1>5. ASSUME NEW p \in Contacts, Book!invalidate(p)
      PROVE  BookInv'
  <2>1. UNCHANGED <<time, adding>>
    BY <1>5 DEF Book!invalidate
  <2>2. \A q \in Contacts : /\ book'[q] = IF q = p THEN Book!Absent ELSE book[q]
                            /\ unswept'[q] = IF q = p THEN Book!Absent ELSE unswept[q]
    BY <1>1, <1>5 DEF Book!invalidate
  <2>3. book' \in [Contacts -> Book!CachedPeer] /\ unswept' \in [Contacts -> Book!CachedPeer]
    BY <1>1, <1>5, AbsentPeer, SMTT(30) DEF Book!invalidate
  <2>4. \A q \in Contacts : SweptIfExpired(q)'
    BY <2>1, <2>2 DEF BookInv, SweptIfExpired, Book!is_expired
  <2> QED BY <1>1, <2>1, <2>3, <2>4 DEF BookInv, Book!TypeOK
<1>6. ASSUME NEW t \in Threads, NEW via \in Book!Methods, Book!MakeEntry(t, via)
      PROVE  BookInv'
  <2>1. UNCHANGED <<time, book, unswept>>
    BY <1>6 DEF Book!MakeEntry
  <2>2. [there |-> TRUE, via |-> via, discovered_at |-> time] \in Book!CachedPeer
    BY <1>1, Zenon DEF Book!CachedPeer
  <2>3. adding' \in [Threads -> Book!CachedPeer]
    BY <1>1, <1>6, <2>2, SMTT(30) DEF Book!MakeEntry
  <2>4. \A q \in Contacts : SweptIfExpired(q)'
    BY <2>1 DEF BookInv, SweptIfExpired, Book!is_expired
  <2> QED BY <1>1, <2>1, <2>3, <2>4, SMTT(30) DEF BookInv, Book!TypeOK
<1>7. ASSUME NEW t \in Threads, NEW p \in Contacts, Book!insert(t, p)
      PROVE  BookInv'
  <2>1. time' = time
    BY <1>7 DEF Book!insert
  <2>2. \A q \in Contacts : /\ book'[q] = IF q = p THEN adding[t] ELSE book[q]
                            /\ unswept'[q] = IF q = p THEN adding[t] ELSE unswept[q]
    BY <1>1, <1>7 DEF Book!insert
  <2>3. /\ book' \in [Contacts -> Book!CachedPeer] /\ unswept' \in [Contacts -> Book!CachedPeer]
        /\ adding' \in [Threads -> Book!CachedPeer]
    BY <1>1, <1>7, AbsentPeer DEF Book!insert
  <2>4. \A q \in Contacts : SweptIfExpired(q)'
    BY <2>1, <2>2, Zenon DEF BookInv, SweptIfExpired, Book!is_expired
  <2> QED BY <1>1, <2>1, <2>3, <2>4 DEF BookInv, Book!TypeOK
<1> QED BY <1>2, <1>3, <1>4, <1>5, <1>6, <1>7 DEF Book!Next

LEMMA BookStutter ==
  ASSUME BookInv, UNCHANGED Book!vars
  PROVE  BookInv'
BY DEF BookInv, Book!TypeOK, SweptIfExpired, Book!is_expired, Book!vars

LEMMA BookHolds ==
  ASSUME BookInv
  PROVE  Book!CleanupUnseen
BY DEF BookInv, SweptIfExpired, Book!CleanupUnseen, Book!get

----------------------------------------------------------------------------
(* Discovery.  A lookup that has its source has no result yet, and it has  *)
(* asked that source only, or the other one before.                        *)
OneThenTheOther == {<<"dht", "sig">>, <<"sig", "dht">>}

OpFields ==
  op = [kind |-> op.kind, src |-> op.src, step |-> op.step, fallback |-> op.fallback, left |-> op.left,
        asked |-> op.asked, found |-> op.found, result |-> op.result, via |-> op.via, rec |-> op.rec,
        when |-> op.when]

Asking ==
  /\ op.src \in {"dht", "sig"} /\ op.result = "none"
  /\ \/ op.fallback = FALSE /\ op.asked = <<op.src>>
     \/ op.fallback = TRUE /\ op.asked \in OneThenTheOther

LookupOK ==
  /\ OpFields
  /\ op.src = "none" \/ Asking
  /\ op.step = "proxy" => op.kind = "proxy"
  /\ Disc!Honest

RecordsTyped ==
  /\ time \in 0 .. MaxClock
  /\ dht \in [Disc!Keys -> Disc!Stamps]
  /\ pub \in [pc : {"idle", "peer", "name"}, rec : Disc!Stamps, refresh : Disc!Stamps, at : {"peer", "name"}]

DiscInv == RecordsTyped /\ LookupOK /\ Disc!PickedIsLive

LEMMA StampsMade ==
  /\ Disc!Absent \in Disc!Stamps
  /\ \A t \in 0 .. MaxClock : Disc!Made(t) \in Disc!Stamps
<1>1. 0 \in 0 .. MaxClock
  BY ClockAssumption
<1> QED BY <1>1, Zenon DEF Disc!Absent, Disc!Made, Disc!Stamps

LEMMA DiscInitially ==
  ASSUME Disc!Init
  PROVE  DiscInv
<1>1. 0 \in 0 .. MaxClock
  BY ClockAssumption
<1>2. RecordsTyped
  BY <1>1, StampsMade, SMTT(30) DEF Disc!Init, RecordsTyped
<1>3. PICK kind \in {"peer", "name", "proxy"} : op = Disc!Idle(kind)
  BY SMTT(30) DEF Disc!Init
<1>4. /\ OpFields /\ op.src = "none" /\ op.step = "none" /\ op.result = "none"
  BY <1>3 DEF Disc!Idle, OpFields
<1>5. LookupOK
  BY <1>4, SMTT(30) DEF LookupOK, Disc!Honest
<1>6. Disc!PickedIsLive
  BY DEF Disc!Init, Disc!PickedIsLive, Disc!NonePicked
<1> QED BY <1>2, <1>5, <1>6, SMTT(30) DEF DiscInv

(* Storing and refreshing records, and the clock.                          *)
LEMMA StoresTyped ==
  ASSUME RecordsTyped,
         \/ Disc!PutPeer \/ Disc!PutName \/ Disc!Refresh \/ Disc!Tick
         \/ Disc!start_record_refresh \/ Disc!stop_record_refresh
         \/ \E made \in 0 .. time : Disc!publish_peer_record(made)
         \/ \E p \in Disc!Nodes, made \in 0 .. time : Disc!publish_proxy_record(p, made)
  PROVE  RecordsTyped' /\ UNCHANGED <<op, picked>>
<1> DEFINE P == [pc : {"idle", "peer", "name"}, rec : Disc!Stamps, refresh : Disc!Stamps, at : {"peer", "name"}]
<1>1. /\ time \in 0 .. MaxClock /\ dht \in [Disc!Keys -> Disc!Stamps]
      /\ pub.rec \in Disc!Stamps /\ pub.refresh \in Disc!Stamps /\ pub.at \in {"peer", "name"}
  BY DEF RecordsTyped
<1>2. /\ Disc!Absent \in Disc!Stamps /\ Disc!Made(0) \in Disc!Stamps
      /\ \A made \in 0 .. time : Disc!Made(made) \in Disc!Stamps
  <2>1. 0 \in 0 .. MaxClock /\ \A made \in 0 .. time : made \in 0 .. MaxClock
    BY <1>1, ClockAssumption
  <2> QED BY <2>1, StampsMade
<1>3. "peer" \in Disc!Keys /\ "name" \in Disc!Keys /\ Disc!Nodes \subseteq Disc!Keys
  BY DEF Disc!Keys
<1>4. ASSUME NEW k \in Disc!Keys, NEW r \in Disc!Stamps, Disc!Put(k, r)
      PROVE  dht' \in [Disc!Keys -> Disc!Stamps]
  BY <1>1, <1>4 DEF Disc!Put
<1>5. /\ \A x \in {"idle", "peer", "name"} : [pub EXCEPT !.pc = x] \in P
      /\ \A r \in Disc!Stamps : [pub EXCEPT !.pc = "peer", !.rec = r] \in P
      /\ \A r \in Disc!Stamps : [pub EXCEPT !.refresh = r, !.at = "peer"] \in P
      /\ \A x \in {"peer", "name"} : [pub EXCEPT !.at = x] \in P
  BY Zenon DEF RecordsTyped
<1>6. pub \in P
  BY DEF RecordsTyped
<1> HIDE DEF P
<1>7. ASSUME pub' \in P, dht' \in [Disc!Keys -> Disc!Stamps], time' = time
      PROVE  RecordsTyped'
  BY <1>1, <1>7 DEF RecordsTyped, P
<1>8. CASE Disc!PutPeer
  <2>1. dht' \in [Disc!Keys -> Disc!Stamps]
    BY <1>1, <1>3, <1>4, <1>8 DEF Disc!PutPeer
  <2>2. pub' \in P /\ UNCHANGED <<time, op, picked>>
    BY <1>5, <1>8, Zenon DEF Disc!PutPeer
  <2> QED BY <1>7, <2>1, <2>2
<1>9. CASE Disc!PutName
  <2>1. dht' \in [Disc!Keys -> Disc!Stamps]
    BY <1>1, <1>2, <1>3, <1>4, <1>9 DEF Disc!PutName
  <2>2. pub' \in P /\ UNCHANGED <<time, op, picked>>
    BY <1>5, <1>9, Zenon DEF Disc!PutName
  <2> QED BY <1>7, <2>1, <2>2
<1>10. CASE Disc!Refresh
  <2>1. (IF pub.at = "peer" THEN pub.refresh ELSE Disc!Made(0)) \in Disc!Stamps /\ pub.at \in Disc!Keys
    BY <1>1, <1>2, <1>3
  <2>2. dht' \in [Disc!Keys -> Disc!Stamps]
    BY <1>1, <1>4, <1>10, <2>1, SMTT(30) DEF Disc!Refresh
  <2> QED BY <1>5, <1>7, <1>10, <2>2, Zenon DEF Disc!Refresh
<1>11. CASE Disc!Tick
  <2>1. time' \in 0 .. MaxClock
    BY <1>1, <1>11, ClockAssumption DEF Disc!Tick
  <2> QED BY <1>11, <2>1, SMTT(30) DEF Disc!Tick, RecordsTyped
<1>12. CASE Disc!start_record_refresh \/ Disc!stop_record_refresh
  <2>1. pub' \in P
    BY <1>1, <1>2, <1>5, <1>12, Zenon DEF Disc!start_record_refresh, Disc!stop_record_refresh
  <2>2. UNCHANGED <<time, dht, op, picked>>
    BY <1>12, SMTT(30) DEF Disc!start_record_refresh, Disc!stop_record_refresh
  <2> QED BY <1>1, <1>7, <2>1, <2>2, Zenon
<1>13. ASSUME NEW made \in 0 .. time, Disc!publish_peer_record(made)
       PROVE  RecordsTyped' /\ UNCHANGED <<op, picked>>
  <2>1. pub' \in P
    BY <1>2, <1>5, <1>13, Zenon DEF Disc!publish_peer_record
  <2>2. UNCHANGED <<time, dht, op, picked>>
    BY <1>13, Zenon DEF Disc!publish_peer_record
  <2> QED BY <1>1, <1>7, <2>1, <2>2
<1>14. ASSUME NEW p \in Disc!Nodes, NEW made \in 0 .. time, Disc!publish_proxy_record(p, made)
       PROVE  RecordsTyped' /\ UNCHANGED <<op, picked>>
  <2>1. dht' \in [Disc!Keys -> Disc!Stamps]
    BY <1>2, <1>3, <1>4, <1>14, SMTT(30) DEF Disc!publish_proxy_record
  <2>2. UNCHANGED <<time, pub, op, picked>>
    BY <1>14 DEF Disc!publish_proxy_record
  <2> QED BY <1>6, <1>7, <2>1, <2>2, SMTT(30)
<1> QED BY <1>8, <1>9, <1>10, <1>11, <1>12, <1>13, <1>14, SMTT(30)

(* A lookup that asks on, ends with an error or ends with a result.        *)
LEMMA FailedIsHonest ==
  ASSUME LookupOK, op.src # "none", op' = Disc!Failed
  PROVE  LookupOK'
<1>1. OpFields /\ Asking
  BY SMTT(30) DEF LookupOK
<1>2. CASE op.fallback
  <2>1. /\ op'.kind = op.kind /\ op'.src = "none" /\ op'.step = "none" /\ op'.result = "err"
        /\ op'.asked = op.asked /\ OpFields'
    BY <1>1, <1>2, Zenon DEF Disc!Failed, Disc!Done, OpFields
  <2>2. op'.asked \in OneThenTheOther
    BY <1>1, <1>2, <2>1 DEF Asking
  <2> QED BY <2>1, <2>2 DEF LookupOK, Disc!Honest, OneThenTheOther
<1>3. CASE ~op.fallback
  <2> DEFINE other == IF op.src = "dht" THEN "sig" ELSE "dht"
  <2>1. op.asked = <<op.src>> /\ op.src \in {"dht", "sig"} /\ op.result = "none"
    BY <1>1, <1>3 DEF Asking
  <2>2. Append(op.asked, other) \in OneThenTheOther /\ other \in {"dht", "sig"}
    <3>1. \/ op.src = "dht" /\ other = "sig"
          \/ op.src = "sig" /\ other = "dht"
      BY <2>1
    <3> HIDE DEF other
    <3>2. other \in {"dht", "sig"}
      BY <3>1
    <3>3. Append(op.asked, other) = <<op.src, other>>
      BY <2>1, <3>2, AppendOne, Zenon
    <3> QED BY <3>1, <3>2, <3>3 DEF OneThenTheOther
  <2> HIDE DEF other
  <2>3. op' = Disc!Ask([op EXCEPT !.fallback = TRUE], other)
    BY <1>3 DEF Disc!Failed, other
  <2>4. /\ op'.kind = op.kind /\ op'.src = other /\ op'.step = op.kind /\ op'.result = "none"
        /\ op'.asked = Append(op.asked, other) /\ op'.fallback = TRUE /\ OpFields'
    BY <1>1, <2>1, <2>3, Zenon DEF Disc!Ask, OpFields
  <2> QED BY <2>2, <2>4, Zenon DEF LookupOK, Asking, Disc!Honest
<1> QED BY <1>2, <1>3

LEMMA FoundIsHonest ==
  ASSUME RecordsTyped, LookupOK, op.src # "none", NEW r \in Disc!Stamps, ~Disc!is_expired(r),
         op' = Disc!Found(r)
  PROVE  LookupOK'
<1>1. OpFields
  BY DEF LookupOK
<1>2. /\ op'.kind = op.kind /\ op'.src = "none" /\ op'.step = "none" /\ op'.result = "ok"
      /\ op'.rec = r /\ op'.when = time /\ OpFields'
  BY <1>1, Zenon DEF Disc!Found, Disc!Done, OpFields
<1>3. time <= r.at + RecordTtl
  BY ClockAssumption DEF RecordsTyped, Disc!Stamps, Disc!is_expired, Disc!expired_at
<1> QED BY <1>2, <1>3, Zenon DEF LookupOK, Disc!Honest

LEMMA ListIsHonest ==
  ASSUME LookupOK, op.src # "none", op.step = "proxy", NEW s, op' = Disc!List(s)
  PROVE  LookupOK'
<1>1. OpFields /\ op.kind = "proxy"
  BY SMTT(30) DEF LookupOK
<1>2. CASE s # << >> \/ op.fallback
  <2>1. /\ op'.kind = op.kind /\ op'.src = "none" /\ op'.step = "none" /\ op'.result = "ok" /\ OpFields'
    BY <1>1, <1>2, Zenon DEF Disc!List, Disc!Done, OpFields
  <2> QED BY <1>1, <2>1 DEF LookupOK, Disc!Honest
<1>3. CASE ~(s # << >> \/ op.fallback)
  BY <1>3, FailedIsHonest, SMTT(30) DEF Disc!List
<1> QED BY <1>2, <1>3

(* A lookup that goes on at its source.                                    *)
LEMMA AskingOn ==
  ASSUME LookupOK, op.src # "none", OpFields',
         op'.kind = op.kind, op'.src = op.src, op'.fallback = op.fallback, op'.asked = op.asked,
         op'.result = op.result, op'.step = "peer" \/ op'.step = op.step
  PROVE  LookupOK'
BY DEF LookupOK, Asking, Disc!Honest

LEMMA DiscStep ==
  ASSUME DiscInv, Disc!Next
  PROVE  DiscInv'
<1>1. RecordsTyped /\ LookupOK /\ Disc!PickedIsLive /\ OpFields
  BY DEF DiscInv, LookupOK
<1>2. CASE \/ Disc!PutPeer \/ Disc!PutName \/ Disc!Refresh \/ Disc!Tick
           \/ Disc!start_record_refresh \/ Disc!stop_record_refresh
           \/ \E made \in 0 .. time : Disc!publish_peer_record(made)
           \/ \E p \in Disc!Nodes, made \in 0 .. time : Disc!publish_proxy_record(p, made)
  <2>1. RecordsTyped' /\ UNCHANGED <<op, picked>>
    BY <1>1, <1>2, StoresTyped
  <2> QED BY <1>1, <2>1, Zenon DEF DiscInv, LookupOK, OpFields, Asking, Disc!Honest, Disc!PickedIsLive, Disc!expired_at
<1>3. ASSUME NEW kind \in {"peer", "name", "proxy"}, NEW privacy_first \in BOOLEAN, Disc!Discover(kind, privacy_first)
      PROVE  DiscInv'
  <2> DEFINE src == IF privacy_first THEN "dht" ELSE "sig"
  <2>1. src \in {"dht", "sig"}
    OBVIOUS
  <2>2. op' = Disc!Ask(Disc!Idle(op.kind), src) /\ picked' = Disc!NonePicked /\ UNCHANGED <<time, dht, pub>>
    BY <1>3 DEF Disc!Discover
  <2> HIDE DEF src
  <2>3. /\ op'.kind = op.kind /\ op'.src = src /\ op'.step = op.kind /\ op'.result = "none"
        /\ op'.asked = Append(<< >>, src) /\ op'.fallback = FALSE /\ OpFields'
    BY <2>2, Zenon DEF Disc!Ask, Disc!Idle, OpFields
  <2>6. Append(<< >>, src) = <<src>>
    BY <2>1, AppendOne, Zenon
  <2>4. LookupOK'
    BY <2>1, <2>3, <2>6, SMTT(30) DEF LookupOK, Asking, Disc!Honest
  <2>5. Disc!PickedIsLive'
    BY <2>2 DEF Disc!PickedIsLive, Disc!NonePicked
  <2> QED BY <1>1, <2>2, <2>4, <2>5 DEF DiscInv, RecordsTyped
<1>4. ASSUME NEW src \in {"dht", "sig"}, NEW step \in {"peer", "name", "proxy"}, Disc!Replies(src, step)
      PROVE  /\ op.src = src /\ op.src # "none" /\ op.step = step /\ UNCHANGED <<time, dht, pub, picked>>
             /\ RecordsTyped' /\ Disc!PickedIsLive'
  <2>1. op.src = src /\ op.step = step /\ UNCHANGED <<time, dht, pub, picked>>
    BY <1>4 DEF Disc!Replies
  <2> QED BY <1>1, <2>1, Zenon DEF RecordsTyped, Disc!PickedIsLive, Disc!expired_at
<1>5. "peer" \in Disc!Keys /\ "name" \in Disc!Keys
  BY DEF Disc!Keys
<1>6. CASE Disc!discover_peer_dht
  <2>1. Disc!Replies("dht", "peer")
    BY <1>6 DEF Disc!discover_peer_dht
  <2>2. dht["peer"] \in Disc!Stamps
    BY <1>1, <1>5 DEF RecordsTyped
  <2>3. op' = Disc!Failed \/ (~Disc!is_expired(dht["peer"]) /\ op' = Disc!Found(dht["peer"]))
    BY <1>6 DEF Disc!discover_peer_dht
  <2> QED BY <1>1, <1>4, <2>1, <2>2, <2>3, FailedIsHonest, FoundIsHonest, SMTT(30) DEF DiscInv
<1>7. CASE Disc!discover_peer_signaling
  <2>1. Disc!Replies("sig", "peer")
    BY <1>7 DEF Disc!discover_peer_signaling
  <2>2. Disc!Made(time) \in Disc!Stamps /\ ~Disc!is_expired(Disc!Made(time))
    <3>1. Disc!Made(time) \in Disc!Stamps
      BY <1>1, StampsMade, SMTT(30) DEF RecordsTyped
    <3> QED BY <1>1, <3>1, ClockAssumption DEF RecordsTyped, Disc!is_expired, Disc!expired_at, Disc!Made
  <2>3. op' = Disc!Failed \/ op' = Disc!Found(Disc!Made(time))
    BY <1>7 DEF Disc!discover_peer_signaling, Disc!lookup_peer, Disc!Absent
  <2> QED BY <1>1, <1>4, <2>1, <2>2, <2>3, FailedIsHonest, FoundIsHonest, SMTT(30) DEF DiscInv
<1>8. CASE Disc!resolve_username_dht \/ Disc!resolve_username_signaling
  <2>1. PICK src \in {"dht", "sig"} : Disc!Replies(src, "name")
    BY <1>8 DEF Disc!resolve_username_dht, Disc!resolve_username_signaling
  <2>2. op' = Disc!Failed \/ op' = [op EXCEPT !.step = "peer"]
    BY <1>8, SMTT(30) DEF Disc!resolve_username_dht, Disc!resolve_username_signaling
  <2>3. CASE op' = [op EXCEPT !.step = "peer"]
    <3>1. /\ OpFields' /\ op'.kind = op.kind /\ op'.src = op.src /\ op'.fallback = op.fallback
          /\ op'.asked = op.asked /\ op'.result = op.result /\ op'.step = "peer"
      BY <1>1, <2>3 DEF OpFields
    <3> QED BY <1>1, <1>4, <2>1, <3>1, AskingOn DEF DiscInv
  <2> QED BY <1>1, <1>4, <2>1, <2>2, <2>3, FailedIsHonest DEF DiscInv
<1>9. CASE Disc!discover_proxy_dht
  <2>1. Disc!Replies("dht", "proxy")
    BY <1>9 DEF Disc!discover_proxy_dht
  <2>2. CASE op.left = << >>
    <3>1. op' = Disc!List(Disc!ByLatency(op.found))
      BY <1>9, <2>2 DEF Disc!discover_proxy_dht
    <3> QED BY <1>1, <1>4, <2>1, <3>1, ListIsHonest DEF DiscInv
  <2>3. CASE op.left # << >>
    <3>1. \/ op' = [op EXCEPT !.left = Tail(op.left)]
          \/ op' = [op EXCEPT !.left = Tail(op.left),
                              !.found = Append(op.found, [proxy |-> Head(op.left), rec |-> dht[Head(op.left)]])]
      BY <1>9, <2>3 DEF Disc!discover_proxy_dht
    <3>2. \E left, found : op' = [op EXCEPT !.left = left, !.found = found]
      <4>1. [op EXCEPT !.left = Tail(op.left)] = [op EXCEPT !.left = Tail(op.left), !.found = op.found]
        BY <1>1, Zenon DEF OpFields
      <4> QED BY <3>1, <4>1, Zenon
    <3>3. /\ OpFields' /\ op'.kind = op.kind /\ op'.src = op.src /\ op'.fallback = op.fallback
          /\ op'.asked = op.asked /\ op'.result = op.result /\ op'.step = op.step
      BY <1>1, <3>2, Zenon DEF OpFields
    <3> QED BY <1>1, <1>4, <2>1, <3>3, AskingOn, Zenon DEF DiscInv
  <2> QED BY <2>2, <2>3
<1>10. CASE Disc!discover_proxy_signaling
  <2>1. Disc!Replies("sig", "proxy")
    BY <1>10 DEF Disc!discover_proxy_signaling
  <2>2. (\E s : op' = Disc!List(s)) \/ op' = Disc!Failed
    BY <1>10 DEF Disc!discover_proxy_signaling
  <2> QED BY <1>1, <1>4, <2>1, <2>2, ListIsHonest, FailedIsHonest, SMTT(30) DEF DiscInv
<1>11. ASSUME NEW near \in BOOLEAN, Disc!select_proxy(near)
       PROVE  DiscInv'
  <2>1. UNCHANGED <<time, dht, pub, op>>
    BY <1>11, Zenon DEF Disc!select_proxy
  <2>2. \/ picked' = Disc!NonePicked
        \/ \E i \in 1 .. Len(op.found) :
             /\ Disc!Eligible(op.found[i], near)
             /\ picked' = [proxy |-> op.found[i].proxy, rec |-> op.found[i].rec, when |-> time]
    BY <1>11, Zenon DEF Disc!select_proxy
  <2>3. Disc!PickedIsLive'
    <3>1. CASE picked' = Disc!NonePicked
      BY <3>1 DEF Disc!PickedIsLive, Disc!NonePicked
    <3>2. ASSUME NEW i \in 1 .. Len(op.found), Disc!Eligible(op.found[i], near),
                 picked' = [proxy |-> op.found[i].proxy, rec |-> op.found[i].rec, when |-> time]
          PROVE  Disc!PickedIsLive'
      <4>1. ~(time > op.found[i].rec.at + RecordTtl)
        BY <3>2, Zenon DEF Disc!Eligible, Disc!is_expired, Disc!expired_at
      <4>2. picked'.rec = op.found[i].rec /\ picked'.when = time
        BY <3>2
      <4> QED BY <4>1, <4>2, Zenon DEF Disc!PickedIsLive, Disc!expired_at
    <3> QED BY <2>2, <3>1, <3>2, Zenon
  <2> QED BY <1>1, <2>1, <2>3, Zenon DEF DiscInv, RecordsTyped, LookupOK, OpFields, Asking, Disc!Honest
<1> QED BY <1>2, <1>3, <1>6, <1>7, <1>8, <1>9, <1>10, <1>11, SMTT(30) DEF Disc!Next, Disc!discover_peer, Disc!discover_peer_by_username, Disc!discover_proxy

LEMMA DiscStutter ==
  ASSUME DiscInv, UNCHANGED Disc!vars
  PROVE  DiscInv'
BY Zenon DEF DiscInv, RecordsTyped, LookupOK, OpFields, Asking, Disc!Honest, Disc!PickedIsLive,
       Disc!expired_at, Disc!vars
=============================================================================
