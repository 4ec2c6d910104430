----------------------------- MODULE StableSort -----------------------------
(* slice::sort_by_key of the standard library, which keeps elements of one   *)
(* key in their order.                                                       *)
EXTENDS Naturals, FiniteSets

(* How many elements come no later than the i-th; keys[i] is the i-th's key. *)
Rank(keys, i) ==
  Cardinality({j \in DOMAIN keys : keys[j] < keys[i] \/ (keys[j] = keys[i] /\ j <= i)})

sort_by_key(s, keys) == [n \in DOMAIN s |-> s[CHOOSE i \in DOMAIN s : Rank(keys, i) = n]]
=============================================================================
