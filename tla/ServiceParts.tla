---------------------------- MODULE ServiceParts ----------------------------
(* Discovery and the client's caches as parts of MCServices, kept apart from *)
(* the others so that their proofs need not see those.                       *)
EXTENDS Integers, Sequences

CONSTANTS
  MaxClock,                                                     \* bound on the clock of all three
  Proxies, Latency, Capacity, Region, RecordTtl,                \* of Discovery
  Servers, Threads, TicketTtl, MaxTickets, MaxIssued,           \* of SessionTickets
  Contacts, PeerTtl                                             \* of AddressBook, with Threads

VARIABLES
  time,
  dht, pub, op, picked,
  servers, inserting, issued, taken,
  book, adding, unswept

Disc == INSTANCE Discovery WITH Ttl <- RecordTtl, MaxTime <- MaxClock, now <- time
Tickets == INSTANCE SessionTickets WITH Ttl <- TicketTtl, MaxTime <- MaxClock, now <- time
Book == INSTANCE AddressBook WITH
  Peers <- Contacts, Ttl <- PeerTtl, MaxTime <- MaxClock, now <- time, peers <- book, inserting <- adding

\* Times are counted in seconds, from a start and up to a bound.
ASSUME ClockAssumption == MaxClock \in Nat /\ RecordTtl \in Nat /\ PeerTtl \in Nat

\* The latency hints of the proxies are numbers.
ASSUME ProxyAssumption == Proxies \in Seq(Disc!Nodes) /\ Latency \in [Disc!Nodes -> Nat]

\* A server has room for a ticket (MAX_TLS13_TICKETS_PER_SERVER is 4).
ASSUME TicketAssumption == TicketTtl \in Nat /\ MaxTickets \in Nat \ {0}
=============================================================================
