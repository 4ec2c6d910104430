------------------------------ MODULE MCCalls ------------------------------
(* The call state machine, the retries, the migration and the wire format  *)
(* of a call and its media path, checked side by side.  They share no      *)
(* state, so a behaviour is one of the part that its first state names,    *)
(* and leaves the variables of the other parts unused.                     *)
EXTENDS CallStateMachine, CallParts, MoqPart

CONSTANTS Lists, Latency, Ttl, MaxClock, MaxTunnels    \* of MasqueTunnel

VARIABLES
  part,
  format, value, bytes,        \* of ByteCodecs, which also has read
  tun, op, bridges, tried      \* of MasqueTunnel, which also has now and cache

retryVars == <<enabled, retries, retry_task, tasks, spawned, epoch, triggered, dropped>>
tripVars == <<kind, sent, wire, hops>>
bytesVars == <<format, value, bytes>>
timeVars == <<now, cache>>
movingVars == <<conn, task, heard>>
tunnelVars == <<tun, op, bridges, tried>>
moqVars == <<side, pc, air>>
all ==
  <<part, vars, retryVars, tripVars, read, bytesVars, timeVars, movingVars, tunnelVars, moqVars>>

Tunnel == INSTANCE MasqueTunnel WITH MaxTime <- MaxClock

\* Two MoQ sessions with control messages of one side, with updates of both and
\* a close, with two datagrams, and with a close while feedback is sent.
Hello == {<<"client", "setup", 0>>, <<"server", "accept", 0>>}
Listening == {<<"client", "receive", 0>>, <<"client", "feedback", 0>>}
MoqScenes ==
  {Hello \cup {<<"client", "announce", 1>>, <<"client", "subscribe", 1>>, <<"client", "subscribe", 2>>},
   Hello \cup {<<"server", "update", 1>>, <<"client", "update", 1>>, <<"client", "close", 0>>},
   Hello \cup Listening \cup {<<"server", "audio", 1>>, <<"server", "audio", 2>>},
   Hello \cup Listening \cup {<<"server", "audio", 1>>, <<"client", "close", 0>>}}

TunnelLists == {<<"p", "q">>, <<"q">>}
TunnelLatency == [p |-> 2, q |-> 1]

\* The eight bytes of a u64; the edges of the four classes of varints.
U16(n) == <<0, 0, 0, 0, 0, 0, n \div 256, n % 256>>
Draft17 == <<0, 0, 0, 0, 255, 0, 0, 17>>
Bytes == INSTANCE ByteCodecs WITH
  U64s <- {U16(0), U16(63), U16(64), U16(16383), U16(16384), <<0, 0, 0, 0, 63, 255, 255, 255>>,
           <<0, 0, 0, 0, 64, 0, 0, 0>>, <<63, 255, 255, 255, 255, 255, 255, 255>>,
           <<64, 0, 0, 0, 0, 0, 0, 1>>},
  Versions <- {Draft17, <<0, 0, 0, 0, 255, 0, 0, 16>>, U16(1)}, DRAFT_17 <- Draft17,
  Sizes <- {1, 2, 61, 62, 63, 64, 126, 127, 128, 200, 1200}, Heads <- {0, 64, 192}

NoRetry ==
  /\ enabled = "unused" /\ retries = "unused" /\ retry_task = "unused" /\ tasks = "unused"
  /\ spawned = "unused" /\ epoch = "unused" /\ triggered = "unused" /\ dropped = "unused"
NoTrip == kind = "unused" /\ sent = "unused" /\ wire = "unused" /\ hops = "unused"
NoRead == read = "unused"
NoBytes == format = "unused" /\ value = "unused" /\ bytes = "unused"
NoTime == now = "unused" /\ cache = "unused"
NoMoving == conn = "unused" /\ task = "unused" /\ heard = "unused"
NoTunnel == tun = "unused" /\ op = "unused" /\ bridges = "unused" /\ tried = "unused"
NoMoq == side = "unused" /\ pc = "unused" /\ air = "unused"

PartsInit ==
  /\ Init
  /\ \/ /\ part = "call"
        /\ NoRetry /\ NoTrip /\ NoRead /\ NoBytes /\ NoTime /\ NoMoving /\ NoTunnel /\ NoMoq
     \/ /\ part = "retry" /\ Retry!Init
        /\ NoTrip /\ NoRead /\ NoBytes /\ NoTime /\ NoMoving /\ NoTunnel /\ NoMoq
     \/ /\ part = "wire" /\ Trip!Init
        /\ NoRetry /\ NoBytes /\ NoTime /\ NoMoving /\ NoTunnel /\ NoMoq
     \/ /\ part = "migration" /\ Moving!Init
        /\ NoRetry /\ NoTrip /\ NoRead /\ NoBytes /\ NoTunnel /\ NoMoq
     \/ /\ part = "moq" /\ Moq!Init
        /\ NoRetry /\ NoTrip /\ NoRead /\ NoBytes /\ NoTime /\ NoMoving /\ NoTunnel
     \/ /\ part = "tunnel" /\ Tunnel!Init
        /\ NoRetry /\ NoTrip /\ NoRead /\ NoBytes /\ NoMoving /\ NoMoq
     \/ /\ part = "bytes" /\ Bytes!Init
        /\ NoRetry /\ NoTrip /\ NoTime /\ NoMoving /\ NoTunnel /\ NoMoq

IsCall ==
  /\ part = "call"
  /\ UNCHANGED <<part, retryVars, tripVars, read, bytesVars, timeVars, movingVars, tunnelVars, moqVars>>
IsRetry ==
  /\ part = "retry"
  /\ UNCHANGED <<part, vars, tripVars, read, bytesVars, timeVars, movingVars, tunnelVars, moqVars>>
IsWire ==
  /\ part = "wire"
  /\ UNCHANGED <<part, vars, retryVars, bytesVars, timeVars, movingVars, tunnelVars, moqVars>>
IsMigration ==
  /\ part = "migration"
  /\ UNCHANGED <<part, vars, retryVars, tripVars, read, bytesVars, tunnelVars, moqVars>>
IsMoq ==
  /\ part = "moq"
  /\ UNCHANGED <<part, vars, retryVars, tripVars, read, bytesVars, timeVars, movingVars, tunnelVars>>
IsTunnel ==
  /\ part = "tunnel"
  /\ UNCHANGED <<part, vars, retryVars, tripVars, read, bytesVars, movingVars, moqVars>>
IsBytes ==
  /\ part = "bytes"
  /\ UNCHANGED <<part, vars, retryVars, tripVars, timeVars, movingVars, tunnelVars, moqVars>>

PartsNext ==
  \/ IsCall /\ Next
  \/ IsRetry /\ Retry!Next
  \/ IsWire /\ Trip!Next
  \/ IsMigration /\ Moving!Next
  \/ IsMoq /\ Moq!Next
  \/ IsTunnel /\ Tunnel!Next
  \/ IsBytes /\ Bytes!Next

\* The runtime polls a task that can go on: those of the MoQ sessions, and those
\* of the bridges.
Fairness ==
  /\ WF_all(IsMoq /\ Moq!Going(Moq!Calls)) /\ WF_all(IsMoq /\ Moq!Going(Moq!Loops))
  /\ WF_all(IsTunnel /\ Tunnel!BridgeEnds)

PartsSpec == PartsInit /\ [][PartsNext]_all /\ Fairness

-----------------------------------------------------------------------------
\* The variables of each part have their types.
PartTypesOK ==
  /\ TypeOK
  /\ part = "retry" => Retry!TypeOK
  /\ part = "migration" => Moving!TypeOK
  /\ part = "moq" => Moq!TypeOK
  /\ part = "tunnel" => Tunnel!TypeOK

\* No retry is triggered after the scheduler was reset or dropped since it was
\* scheduled, and only the task whose handle RetryScheduler keeps may sleep.
NoStaleRetry == part = "retry" => Retry!NoStaleRetry

\* Between resets the retries come in order of attempt, each with the delay of
\* the backoff formula, and at most push_retry_max_attempts of them.
BackoffSchedule == part = "retry" => Retry!BackoffSchedule

\* A value both versions know arrives unchanged after any number of hops, any
\* other is read as the zero value for good (i32_to_native_enum); NAT information
\* keeps its meaning: only a predictable type comes with a usable prediction.
WireKeepsMeaning == part = "wire" => Trip!KnownSurvives /\ Trip!NatInfoKeepsMeaning

\* The peer is told a prediction only by a migration that succeeded, after a
\* probe of its own, and an IPv6 prefix change tells none; only the loss or the
\* timeout of the path fails a migration, a failed probe or notification does not
\* (handle_network_change).
MigrationHonest ==
  part = "migration" => Moving!ToldWhatWasProbed /\ Moving!FailsOnlyWithPath

\* setup and accept report success only for a handshake that was exchanged, and a
\* session lists the announcements and subscriptions it really sent, each
\* subscription under an id of its own (MoqSession).
MoqHonest == part = "moq" => Moq!HandshakeHonest /\ Moq!ListedWasSent

\* An Active tunnel has a bridge that sends, recovery tries every proxy over both
\* transports and none twice, and the cache suggests the proxy that recovery
\* would try first.
TunnelHonest ==
  part = "tunnel" => Tunnel!ActiveIsWhole /\ Tunnel!TriesEverything /\ Tunnel!BestIsFirst

\* What the media path writes by hand, it reads back: datagrams, setup messages
\* and proxy tokens; a capsule gives the packet or nothing; a signature of a
\* token is for that token only.
BytesSurvive ==
  part = "bytes" =>
    /\ Bytes!ReadAsWritten /\ Bytes!CutIsRefused /\ Bytes!CapsuleExact
    /\ Bytes!SignsOneToken /\ Bytes!ServerTokenUnread

\* After the connection of a MoQ session is closed every call on it returns, and
\* after a loopback connection is closed the tasks of the bridge end.
ClosedReleases ==
  /\ \A e \in Moq!Ends :
       (part = "moq" /\ side[e].conn = "closed") ~> (part = "moq" /\ Moq!Returned(e))
  /\ \A b \in 1 .. MaxTunnels :
       (part = "tunnel" /\ Tunnel!Over(b)) ~> (part = "tunnel" /\ Tunnel!Released(b))
=============================================================================
