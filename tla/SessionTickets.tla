--------------------------- MODULE SessionTickets ---------------------------
(***************************************************************************)
(* The client's store of TLS session tickets (session_store.rs).  rustls   *)
(* calls it from any thread.  Every method holds the mutex for its whole   *)
(* body, but insert_tls13_ticket reads the clock before it locks, so the   *)
(* time stamps may be stored out of order.                                 *)
(*                                                                         *)
(* The tickets of a server and their time stamps are two queues.  A ticket *)
(* is known by its number and the time at which it was stored.             *)
(***************************************************************************)
EXTENDS Integers, Sequences

CONSTANTS
  Servers,      \* server names
  Threads,      \* threads that run handshakes
  Ttl,          \* session_ticket_ttl_secs
  MaxTickets,   \* MAX_TLS13_TICKETS_PER_SERVER
  MaxTime,      \* bound on the clock
  MaxIssued     \* bound on the tickets received

VARIABLES
  now,          \* the clock (Instant)
  servers,      \* server -> ServerData
  inserting,    \* thread -> the clock it read in insert_tls13_ticket, if it is there
  issued,       \* the number of tickets received
  taken         \* the tickets that take_tls13_ticket returned, and when (history)

vars == <<now, servers, inserting, issued, taken>>

Ticket == [id : Nat, at : Nat]
ServerData == [tls13 : Seq(Ticket), stamps : Seq(Nat), tls12 : BOOLEAN, kx_hint : BOOLEAN]
NoData == [tls13 |-> << >>, stamps |-> << >>, tls12 |-> FALSE, kx_hint |-> FALSE]
Outside == [busy |-> FALSE, read |-> 0]

Init ==
  /\ now = 0
  /\ servers = [s \in Servers |-> NoData]
  /\ inserting = [t \in Threads |-> Outside]
  /\ issued = 0
  /\ taken = {}

Tick ==
  /\ now < MaxTime
  /\ now' = now + 1
  /\ UNCHANGED <<servers, inserting, issued, taken>>

----------------------------------------------------------------------------
expired(stamp) == now - stamp >= Ttl

(* q without its first n elements, or without any if it has fewer.         *)
Drop(q, n) == IF n < Len(q) THEN SubSeq(q, n + 1, Len(q)) ELSE << >>

(* The loop pops as long as the first time stamp has expired, n times ...  *)
EvictsExactly(d, n) ==
  /\ \A i \in 1 .. n : expired(d.stamps[i])
  /\ n < Len(d.stamps) => ~expired(d.stamps[n + 1])

evict_expired_tickets_stamps(d, n) == [d EXCEPT !.stamps = Drop(@, n)]

(* ... and pops both queues.                                               *)
evict_expired_tickets(d, n) ==
  [d EXCEPT !.tls13 = Drop(@, n), !.stamps = Drop(@, n)]

(* insert_tls13_ticket up to its lock ...                                  *)
ReadClock(t) ==
  /\ ~inserting[t].busy
  /\ inserting' = [inserting EXCEPT ![t] = [busy |-> TRUE, read |-> now]]
  /\ UNCHANGED <<now, servers, issued, taken>>

(* ... the ticket limit ...                                                *)
Limited(d) ==
  IF Len(d.tls13) >= MaxTickets
  THEN [d EXCEPT !.tls13 = Drop(@, 1), !.stamps = Drop(@, 1)]
  ELSE d

Pushed(d, ticket, stamp) ==
  [d EXCEPT !.tls13 = Append(@, ticket), !.stamps = Append(@, stamp)]

(* ... and what it does under the lock.                                    *)
insert_tls13_ticket(t, s) ==
  /\ inserting[t].busy /\ issued < MaxIssued
  /\ \E n \in 0 .. Len(servers[s].stamps) :
       /\ EvictsExactly(servers[s], n)
       /\ servers' = [servers EXCEPT ![s] =
                        Pushed(Limited(evict_expired_tickets(servers[s], n)),
                               [id |-> issued, at |-> now], inserting[t].read)]
  /\ issued' = issued + 1
  /\ inserting' = [inserting EXCEPT ![t] = Outside]
  /\ UNCHANGED <<now, taken>>

(* The newest ticket is popped; its time stamp stays behind.               *)
take_tls13_ticket(s) ==
  /\ \E n \in 0 .. Len(servers[s].stamps) :
       LET e == evict_expired_tickets(servers[s], n)
           k == Len(e.tls13)
       IN /\ EvictsExactly(servers[s], n)
          /\ servers' = [servers EXCEPT ![s] =
                           IF k = 0 THEN e ELSE [e EXCEPT !.tls13 = SubSeq(@, 1, k - 1)]]
          /\ taken' = IF k = 0 THEN taken
                      ELSE taken \cup {[id |-> e.tls13[k].id, at |-> e.tls13[k].at, when |-> now]}
  /\ UNCHANGED <<now, inserting, issued>>

set_kx_hint(s) ==
  /\ servers' = [servers EXCEPT ![s].kx_hint = TRUE]
  /\ UNCHANGED <<now, inserting, issued, taken>>

set_tls12_session(s) ==
  /\ servers' = [servers EXCEPT ![s].tls12 = TRUE]
  /\ UNCHANGED <<now, inserting, issued, taken>>

remove_tls12_session(s) ==
  /\ servers' = [servers EXCEPT ![s].tls12 = FALSE]
  /\ UNCHANGED <<now, inserting, issued, taken>>

clear ==
  /\ servers' = [s \in Servers |-> NoData]
  /\ UNCHANGED <<now, inserting, issued, taken>>

Next ==
  \/ Tick \/ clear
  \/ \E t \in Threads : ReadClock(t) \/ \E s \in Servers : insert_tls13_ticket(t, s)
  \/ \E s \in Servers : \/ take_tls13_ticket(s) \/ set_kx_hint(s)
                        \/ set_tls12_session(s) \/ remove_tls12_session(s)

Spec == Init /\ [][Next]_vars

----------------------------------------------------------------------------
Taken == [id : Nat, at : Nat, when : Nat]

TypeOK ==
  /\ now \in Nat /\ issued \in Nat
  /\ servers \in [Servers -> ServerData]
  /\ inserting \in [Threads -> [busy : BOOLEAN, read : Nat]]
  /\ taken \in SUBSET Taken

(* A ticket that take_tls13_ticket returns has been in the store for less  *)
(* than the ttl, although the time stamps are stored out of order and stay *)
(* behind when tickets are taken.                                          *)
NeverStale == \A k \in taken : k.when - k.at < Ttl

(* No ticket is returned twice, and a server has at most                   *)
(* MAX_TLS13_TICKETS_PER_SERVER of them.                                   *)
TakenOnce ==
  /\ \A k, m \in taken : k.id = m.id => k = m
  /\ \A s \in Servers : Len(servers[s].tls13) <= MaxTickets

(* Why: every ticket stands beside a time stamp that is no younger than    *)
(* it, and the tickets of a server are in the order of their arrival.      *)
Covered(d, t) ==
  /\ Len(d.tls13) <= Len(d.stamps)
  /\ \A i \in 1 .. Len(d.stamps) : d.stamps[i] <= t
  /\ \A i \in 1 .. Len(d.tls13) : d.stamps[i] <= d.tls13[i].at /\ d.tls13[i].at <= t
  /\ \A i, j \in 1 .. Len(d.tls13) : i < j => d.tls13[i].at <= d.tls13[j].at

StampsCover ==
  /\ \A t \in Threads : inserting[t].read <= now
  /\ \A s \in Servers : Covered(servers[s], now)
=============================================================================
