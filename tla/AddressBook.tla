---------------------------- MODULE AddressBook ----------------------------
(***************************************************************************)
(* The client's cache of discovered peers (peer_cache.rs).  Every method   *)
(* holds the lock for its whole body, but insert reads the clock before it *)
(* locks.                                                                  *)
(***************************************************************************)
EXTENDS Integers

CONSTANTS
  Peers,
  Threads,
  Ttl,          \* default_ttl, of every entry
  MaxTime       \* bound on the clock

VARIABLES
  now,
  peers,        \* peer -> its CachedPeer, or Absent
  inserting,    \* thread -> the entry that it is about to insert, or Absent
  unswept       \* what peers would be had cleanup_expired never run (history)

vars == <<now, peers, inserting, unswept>>

Absent == [there |-> FALSE, via |-> "none", discovered_at |-> 0]
Methods == {"Dht", "Signaling"}
CachedPeer == [there : BOOLEAN, via : Methods \cup {"none"}, discovered_at : 0 .. MaxTime]

Init ==
  /\ now = 0
  /\ peers = [p \in Peers |-> Absent]
  /\ inserting = [t \in Threads |-> Absent]
  /\ unswept = peers

Tick ==
  /\ now < MaxTime
  /\ now' = now + 1
  /\ UNCHANGED <<peers, inserting, unswept>>

is_expired(e) == now - e.discovered_at > Ttl

MakeEntry(t, via) ==
  /\ ~inserting[t].there
  /\ inserting' = [inserting EXCEPT ![t] = [there |-> TRUE, via |-> via, discovered_at |-> now]]
  /\ UNCHANGED <<now, peers, unswept>>

insert(t, p) ==
  /\ inserting[t].there
  /\ peers' = [peers EXCEPT ![p] = inserting[t]]
  /\ unswept' = [unswept EXCEPT ![p] = inserting[t]]
  /\ inserting' = [inserting EXCEPT ![t] = Absent]
  /\ UNCHANGED now

(* What get(p) returns from a book.                                        *)
get(book, p) == IF book[p].there /\ ~is_expired(book[p]) THEN book[p] ELSE Absent

invalidate(p) ==
  /\ peers' = [peers EXCEPT ![p] = Absent]
  /\ unswept' = [unswept EXCEPT ![p] = Absent]
  /\ UNCHANGED <<now, inserting>>

cleanup_expired ==
  /\ peers' = [p \in Peers |-> IF is_expired(peers[p]) THEN Absent ELSE peers[p]]
  /\ UNCHANGED <<now, inserting, unswept>>

clear ==
  /\ peers' = [p \in Peers |-> Absent]
  /\ unswept' = peers'
  /\ UNCHANGED <<now, inserting>>

Next ==
  \/ Tick \/ cleanup_expired \/ clear
  \/ \E p \in Peers : invalidate(p)
  \/ \E t \in Threads : \/ \E via \in Methods : MakeEntry(t, via)
                        \/ \E p \in Peers : insert(t, p)

Spec == Init /\ [][Next]_vars

----------------------------------------------------------------------------
TypeOK ==
  /\ now \in 0 .. MaxTime
  /\ peers \in [Peers -> CachedPeer] /\ unswept \in [Peers -> CachedPeer]
  /\ inserting \in [Threads -> CachedPeer]

(* However the periodic cleanup falls between slow inserts, get never      *)
(* shows it: it returns what it would have returned without any cleanup.   *)
CleanupUnseen == \A p \in Peers : get(peers, p) = get(unswept, p)
=============================================================================
