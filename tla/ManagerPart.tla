---------------------------- MODULE ManagerPart ----------------------------
(* The fallback chain as a part of MCServices, kept apart from the others so *)
(* that its proofs need not see those.                                       *)
EXTENDS Integers, Sequences

CONSTANTS Callees, LocalNats, MaxProxies

VARIABLES local_nat, udp_blocked, pc, at, call, tried, result

Manager == INSTANCE ConnectionManager WITH Peers <- Callees

\* A peer record has lists of addresses, some of which parse, and of proxies.
ASSUME CalleeAssumption ==
  /\ MaxProxies \in Nat
  /\ \A p \in Callees :
       /\ p.v6 \in Seq({"ok", "bad"}) /\ p.v4 \in Seq({"ok", "bad"})
       /\ p.proxies \in Nat
=============================================================================
