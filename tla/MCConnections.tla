--------------------------- MODULE MCConnections ---------------------------
(* The concurrent parts of the client's connection establishment, and the  *)
(* DHT node, checked side by side.  They share no state, so a behaviour is *)
(* one of the part that its first state names, and leaves the variables of *)
(* the other parts unused.                                                 *)
EXTENDS Naturals

CONSTANTS
  IPv6, IPv4,                                      \* of HappyEyeballs
  Ports,                                           \* of PredictionProbe
  Peers, NumAddrs, Reachable, Listening,           \* of SimultaneousOpen
  Probers, Paths, RefreshPaths,                    \* of NatProber
  Callers, Refreshers, Creator, None, ChannelCap, NumRecords, MaxCalls   \* of DhtNode

\* The families of addresses are disjoint and no port is called "error"; there
\* are two peers, each with an address or more.
ASSUME FamiliesAssumption == IPv6 \cap IPv4 = {} /\ "error" \notin Ports
ASSUME PeersAssumption == \E p, q \in Peers : p # q /\ Peers = {p, q}
ASSUME CountsAssumption == NumAddrs \in Nat \ {0} /\ Paths \in Nat /\ RefreshPaths \in Nat
\* One caller creates the node; a channel has room for a command and a refresh
\* task has a record or more.
ASSUME DhtAssumption ==
  /\ Callers \cap Refreshers = {} /\ Creator \in Callers /\ None \notin Refreshers
  /\ ChannelCap \in Nat \ {0} /\ NumRecords \in Nat \ {0} /\ MaxCalls \in Nat

VARIABLES
  part,
  pc, attempt, timer, result,                      \* of the two races
  conn, acc, con, main,
  cache, writer, local, task,
  node, chan, pending, queries, call

raceVars == <<pc, attempt, timer, result>>
openVars == <<conn, acc, con, main>>
natVars == <<cache, writer, local, task>>
dhtVars == <<node, chan, pending, queries, call>>
all == <<part, raceVars, openVars, natVars, dhtVars>>

Eyeballs == INSTANCE HappyEyeballs
Probing == INSTANCE PredictionProbe
Open == INSTANCE SimultaneousOpen
Nat_ == INSTANCE NatProber WITH Tasks <- Probers
Dht == INSTANCE DhtNode

\* Every address of a peer that dials is reachable.
AllReachable == Peers \X (1 .. NumAddrs)

NoRace == pc = "unused" /\ attempt = "unused" /\ timer = "unused" /\ result = "unused"
NoOpen == conn = "unused" /\ acc = "unused" /\ con = "unused" /\ main = "unused"
NoNat == cache = "unused" /\ writer = "unused" /\ local = "unused" /\ task = "unused"
NoDht ==
  /\ node = "unused" /\ chan = "unused" /\ pending = "unused" /\ queries = "unused"
  /\ call = "unused"

Init ==
  \/ part = "eyeballs" /\ Eyeballs!Init /\ timer = "unused" /\ NoOpen /\ NoNat /\ NoDht
  \/ part = "probing" /\ Probing!Init /\ NoOpen /\ NoNat /\ NoDht
  \/ part = "open" /\ Open!Init /\ NoRace /\ NoNat /\ NoDht
  \/ part = "nat" /\ Nat_!Init /\ NoRace /\ NoOpen /\ NoDht
  \/ part = "dht" /\ Dht!Init /\ NoRace /\ NoOpen /\ NoNat

IsEyeballs == part = "eyeballs" /\ UNCHANGED <<part, timer, openVars, natVars, dhtVars>>
IsProbing == part = "probing" /\ UNCHANGED <<part, openVars, natVars, dhtVars>>
IsOpen == part = "open" /\ UNCHANGED <<part, raceVars, natVars, dhtVars>>
IsNat == part = "nat" /\ UNCHANGED <<part, raceVars, openVars, dhtVars>>
IsDht == part = "dht" /\ UNCHANGED <<part, raceVars, openVars, natVars>>

Next ==
  \/ IsEyeballs /\ Eyeballs!Next
  \/ IsProbing /\ Probing!Next
  \/ IsOpen /\ Open!Next
  \/ IsNat /\ Nat_!Next
  \/ IsDht /\ Dht!Next

\* The fairness each part's module gives, for the part the behaviour is of.
Fairness ==
  /\ WF_all(IsEyeballs /\ Eyeballs!Next)
  /\ WF_all(IsProbing /\ Probing!Elapse) /\ WF_all(IsProbing /\ Probing!AllPortsExhausted)
  /\ WF_all(IsProbing /\ Probing!ProbeTimeout) /\ WF_all(IsProbing /\ Probing!PollPending)
  /\ \A p \in Ports : /\ WF_all(IsProbing /\ Probing!Attempt(p))
                      /\ WF_all(IsProbing /\ Probing!JoinSome(p))
                      /\ WF_all(IsProbing /\ Probing!JoinNone(p))
  /\ \A p \in Peers : WF_all(IsOpen /\ Open!Tasks(p)) /\ WF_all(IsOpen /\ Open!Main(p))
  /\ \A t \in Probers : /\ WF_all(IsNat /\ Nat_!Step(t))
                        /\ SF_all(IsNat /\ Nat_!Unlocked /\ Nat_!Step(t))
  /\ WF_all(IsDht /\ Dht!Loop)
  /\ \A c \in Callers : WF_all(IsDht /\ Dht!CallerStep(c))
  /\ \A r \in Refreshers :
       WF_all(IsDht /\ Dht!RefreshStep(r)) /\ WF_all(IsDht /\ Dht!Cancelled(r))
  /\ \A d \in Callers \cup Refreshers :
       SF_all(IsDht /\ Dht!Send(d)) /\ WF_all(IsDht /\ Dht!ReportsTo(d))

Spec == Init /\ [][Next]_all /\ Fairness

-----------------------------------------------------------------------------
\* The variables of each part have their types.
TypeOK ==
  /\ part = "eyeballs" => Eyeballs!TypeOK
  /\ part = "probing" => Probing!TypeOK
  /\ part = "open" => Open!TypeOK
  /\ part = "nat" => Nat_!TypeOK
  /\ part = "dht" => Dht!TypeOK

\* happy_eyeballs_connect and probe_range leave no attempt running, and none
\* unspawned, once they have returned; before its overall timer has elapsed,
\* probe_range fails only if every port was tried.
NothingLeftBehind ==
  /\ part = "eyeballs" => Eyeballs!NothingLeftBehind
  /\ part = "probing" => Probing!ErrorMeansExhausted

\* The fates of a race's attempts and its result, as its caller sees them.
EyeballsFates ==
  IF part = "eyeballs" THEN Eyeballs!Fates ELSE [a \in IPv6 \cup IPv4 |-> "pending"]
EyeballsResult == IF part = "eyeballs" THEN result ELSE "none"
EyeballsRace == INSTANCE ConnectRace WITH
  Attempts <- IPv6 \cup IPv4, Deadline <- FALSE, fate <- EyeballsFates, result <- EyeballsResult
ProbingFates == IF part = "probing" THEN Probing!Fates ELSE [p \in Ports |-> "pending"]
ProbingResult == IF part = "probing" THEN result ELSE "none"
ProbingRace == INSTANCE ConnectRace WITH
  Attempts <- Ports, Deadline <- TRUE, fate <- ProbingFates, result <- ProbingResult

\* connection.rs:144 "The first successful QUIC connection, or an error if all
\* attempts fail": happy_eyeballs_connect is a race without a deadline, and
\* probe_range one with a deadline.
ImplementsRace == EyeballsRace!Spec /\ ProbingRace!Spec

\* Both races give their caller a result, and try_simultaneous_open ends: with
\* a connection, without one, or by panicking.
Ends ==
  /\ <>(part = "eyeballs" => pc = "returned")
  /\ <>(part = "probing" => pc = "returned")
  /\ \A p \in Peers : <>(part = "open" => main[p].pc \in {"returned", "panicked"})

\* A peer whose try_simultaneous_open returned a connection ends up with that
\* one only: every other connection it dialed or accepted gets closed.
LoserClosed == \A p \in Peers : <>[](part = "open" => Open!OnlyTheWinner(p))

\* Two tasks that both connect always end with a connection: an error, a
\* panic or a dropped connection needs one of the peer's tasks to have failed.
LostOnlyAfterFailure == part = "open" => Open!LostOnlyAfterFailure

\* Whatever probes fail and whenever caches are dropped, neither the NAT cache
\* nor local_nat_info holds a conclusion from fewer than three answers.
NeverFromTooFew == part = "nat" => Nat_!NeverFromTooFew

\* Every operation of the prober returns, unless a quick_refresh that extends
\* the cache's lifetime waits for the write guard it holds itself.
OpsReturn ==
  \A t \in Probers :
    (part = "nat" /\ task[t].pc # "idle") ~> (part = "nat" => (task[t].pc = "idle" \/ writer # {}))

\* Whoever waits for the DHT node is answered, whatever its queries report, and
\* whether it is shut down or dropped meanwhile (put_record, get_record,
\* bootstrap, new).  A refresh task ends once it was stopped or replaced, and
\* once the event loop is gone.
NodeAnswers ==
  /\ \A c \in Callers :
       (part = "dht" /\ call[c].pc # "idle") ~> (part = "dht" => call[c].pc = "idle")
  /\ \A r \in Refreshers :
       (part = "dht" /\ (call[r].aborted \/ (node.loop = "stopped" /\ call[r].pc # "unborn")))
         ~> (part = "dht" => call[r].pc = "ended")
=============================================================================
