-------------------------- MODULE SimultaneousOpen --------------------------
(***************************************************************************)
(* Two peers run try_simultaneous_open (connection.rs) towards each other: *)
(* each spawns a task that accepts one incoming connection and a task that *)
(* dials the other's addresses in turn, and selects on the two join        *)
(* handles in a loop.  When that returns an error the peer dials the       *)
(* addresses once more, one by one.                                        *)
(*                                                                         *)
(* QUIC is external: dialing a reachable address of a listening endpoint   *)
(* offers a connection, the handshake of an accepted one completes, and a  *)
(* connection is closed for both ends as soon as one end drops it.  An     *)
(* aborted task may take steps until it yields; polling a join handle      *)
(* whose output was already taken panics (tokio).                          *)
(***************************************************************************)
EXTENDS Naturals

CONSTANTS
  Peers,        \* the two peers
  NumAddrs,     \* reflexive addresses each has of the other
  Reachable,    \* subset of Peers \X 1 .. NumAddrs: addresses that work
  Listening     \* peers whose endpoint has a server configuration

VARIABLES
  conn,         \* <<dialer, n>> -> state; n > NumAddrs: dialed by the fallback
  acc,          \* the accept task: its state and the connection it has
  con,          \* the connect task: its state and the address it is at
  main          \* the function itself

vars == <<conn, acc, con, main>>

Other(p) == CHOOSE q \in Peers : q # p
Conns == Peers \X (1 .. 2 * NumAddrs)
NoConn == <<"none", 0>>
Unsettled == {"offered", "accepted", "up"}

(* A dial to the n-th address reaches a listening endpoint, or nobody.     *)
Dialed(p, n) ==
  IF /\ Other(p) \in Listening
     /\ <<Other(p), IF n > NumAddrs THEN n - NumAddrs ELSE n>> \in Reachable
  THEN "offered" ELSE "lost"

Init ==
  /\ conn = [c \in Conns |-> IF c[2] = 1 THEN Dialed(c[1], 1) ELSE "none"]
  /\ acc = [p \in Peers |-> [st |-> "waiting", conn |-> NoConn]]
  /\ con = [p \in Peers |-> [st |-> "dialing", n |-> 1]]
  /\ main = [p \in Peers |-> [pc |-> "select", taken |-> {}, aborted |-> {}, n |-> 0,
                              result |-> NoConn, lost |-> FALSE]]

----------------------------------------------------------------------------
(* The handshake of an accepted connection completes.                      *)
Handshake ==
  /\ \E c \in Conns : conn[c] = "accepted" /\ conn' = [conn EXCEPT ![c] = "up"]
  /\ UNCHANGED <<acc, con, main>>

Drop(c) == [conn EXCEPT ![c] = IF @ \in Unsettled THEN "closed" ELSE @]

(* Nobody will take the output of the task: it is dropped.                 *)
Detached(p, h) == main[p].pc = "panicked" \/ h \in main[p].aborted

(* The accept task: accept() and incoming.await under one timeout.         *)
AcceptTake(p) ==
  /\ acc[p].st = "waiting"
  /\ \E n \in 1 .. 2 * NumAddrs :
       /\ conn[<<Other(p), n>>] = "offered"
       /\ conn' = [conn EXCEPT ![<<Other(p), n>>] = "accepted"]
       /\ acc' = [acc EXCEPT ![p] = [st |-> "handshake", conn |-> <<Other(p), n>>]]
  /\ UNCHANGED <<con, main>>

AcceptDone(p) ==
  /\ acc[p].st = "handshake" /\ conn[acc[p].conn] = "up"
  /\ acc' = [acc EXCEPT ![p].st = "ok"]
  /\ conn' = IF Detached(p, "accept") THEN Drop(acc[p].conn) ELSE conn
  /\ UNCHANGED <<con, main>>

(* The timeout, a closed endpoint, or a connection lost in the handshake.  *)
AcceptFails(p) ==
  /\ acc[p].st \in {"waiting", "handshake"}
  /\ acc' = [acc EXCEPT ![p].st = "err"]
  /\ conn' = IF acc[p].st = "handshake" THEN Drop(acc[p].conn) ELSE conn
  /\ UNCHANGED <<con, main>>

(* The connect task: try_connect_single for one address after the other.   *)
ConnectOk(p) ==
  /\ con[p].st = "dialing" /\ conn[<<p, con[p].n>>] = "up"
  /\ con' = [con EXCEPT ![p].st = "ok"]
  /\ conn' = IF Detached(p, "connect") THEN Drop(<<p, con[p].n>>) ELSE conn
  /\ UNCHANGED <<acc, main>>

ConnectFails_past_end(p) ==
  /\ con[p].st = "dialing"
  /\ IF con[p].n <= NumAddrs
     THEN con' = [con EXCEPT ![p].n = @ + 1]
     ELSE con' = [con EXCEPT ![p].st = "err"]
  /\ conn' = Drop(<<p, con[p].n>>)
  /\ UNCHANGED <<acc, main>>

ConnectFails(p) ==
  /\ con[p].st = "dialing"
  /\ LET n == con[p].n IN
     IF n < NumAddrs
     THEN /\ con' = [con EXCEPT ![p].n = n + 1]
          /\ conn' = [Drop(<<p, n>>) EXCEPT ![<<p, n + 1>>] = Dialed(p, n + 1)]
     ELSE /\ con' = [con EXCEPT ![p].st = "err"]
          /\ conn' = Drop(<<p, n>>)
  /\ UNCHANGED <<acc, main>>

----------------------------------------------------------------------------
Handles == {"accept", "connect"}
TaskState(p, h) == IF h = "accept" THEN acc[p].st ELSE con[p].st
is_finished(p, h) == TaskState(p, h) \in {"ok", "err"}
Loser(h) == IF h = "accept" THEN "connect" ELSE "accept"

(* What the task of a handle has: dropped with the handle or the task.     *)
ConnOf(p, h) == IF h = "accept" THEN acc[p].conn ELSE <<p, con[p].n>>
DropOf(p, h) == IF ConnOf(p, h) = NoConn THEN conn ELSE Drop(ConnOf(p, h))

(* The branch of select! for a task that returned Ok(Ok(conn)): the loser  *)
(* is aborted and its handle dropped.                                      *)
SelectOk_keeps_loser(p, h) ==
  /\ main[p].pc = "select" /\ h \notin main[p].taken
  /\ TaskState(p, h) = "ok"
  /\ main' = [main EXCEPT ![p].pc = "returned", ![p].result = ConnOf(p, h)]
  /\ UNCHANGED <<conn, acc, con>>

SelectOk(p, h) ==
  /\ main[p].pc = "select" /\ h \notin main[p].taken
  /\ TaskState(p, h) = "ok"
  /\ main' = [main EXCEPT ![p].pc = "returned", ![p].result = ConnOf(p, h),
                          ![p].aborted = {Loser(h)}]
  /\ conn' = IF is_finished(p, Loser(h)) THEN DropOf(p, Loser(h)) ELSE conn
  /\ UNCHANGED <<acc, con>>

(* The aborted task yields and is dropped.                                 *)
Cancelled(p, h) ==
  /\ h \in main[p].aborted /\ TaskState(p, h) \in {"waiting", "handshake", "dialing"}
  /\ acc' = IF h = "accept" THEN [acc EXCEPT ![p].st = "aborted"] ELSE acc
  /\ con' = IF h = "connect" THEN [con EXCEPT ![p].st = "aborted"] ELSE con
  /\ conn' = DropOf(p, h)
  /\ UNCHANGED main

SelectErr_early(p, h) ==
  /\ main[p].pc = "select" /\ h \notin main[p].taken
  /\ is_finished(p, h) /\ is_finished(p, Loser(h))
  /\ main' = [main EXCEPT ![p].pc = "fallback", ![p].taken = Handles,
                          ![p].lost = TaskState(p, Loser(h)) = "ok",
                          ![p].n = NumAddrs + 1]
  /\ conn' = [DropOf(p, Loser(h)) EXCEPT ![<<p, NumAddrs + 1>>] = Dialed(p, NumAddrs + 1)]
  /\ UNCHANGED <<acc, con>>

(* The branch for an error.  If the other task is finished the loop ends   *)
(* with the error, whatever the other task returned.                       *)
SelectErr(p, h) ==
  /\ main[p].pc = "select" /\ h \notin main[p].taken
  /\ TaskState(p, h) = "err"
  /\ IF is_finished(p, Loser(h))
     THEN /\ main' = [main EXCEPT ![p].pc = "fallback", ![p].taken = Handles,
                                  ![p].lost = TaskState(p, Loser(h)) = "ok",
                                  ![p].n = NumAddrs + 1]
          /\ conn' = [DropOf(p, Loser(h)) EXCEPT
                         ![<<p, NumAddrs + 1>>] = Dialed(p, NumAddrs + 1)]
     ELSE /\ main' = [main EXCEPT ![p].taken = @ \cup {h}]
          /\ UNCHANGED conn
  /\ UNCHANGED <<acc, con>>

(* The loop polls a handle whose output it has taken.                      *)
SelectPanics(p, h) ==
  /\ main[p].pc = "select" /\ h \in main[p].taken
  /\ main' = [main EXCEPT ![p].pc = "panicked"]
  /\ conn' = IF is_finished(p, Loser(h)) THEN DropOf(p, Loser(h)) ELSE conn
  /\ UNCHANGED <<acc, con>>

----------------------------------------------------------------------------
FallbackOk(p) ==
  /\ main[p].pc = "fallback" /\ conn[<<p, main[p].n>>] = "up"
  /\ main' = [main EXCEPT ![p].pc = "returned", ![p].result = <<p, main[p].n>>]
  /\ UNCHANGED <<conn, acc, con>>

FallbackFails_stuck(p) ==
  /\ main[p].pc = "fallback"
  /\ conn' = [conn EXCEPT ![<<p, main[p].n>>] = Dialed(p, main[p].n)]
  /\ UNCHANGED <<acc, con, main>>

FallbackFails(p) ==
  /\ main[p].pc = "fallback"
  /\ LET n == main[p].n IN
     IF n < 2 * NumAddrs
     THEN /\ main' = [main EXCEPT ![p].n = n + 1]
          /\ conn' = [Drop(<<p, n>>) EXCEPT ![<<p, n + 1>>] = Dialed(p, n + 1)]
     ELSE /\ main' = [main EXCEPT ![p].pc = "returned"]
          /\ conn' = Drop(<<p, n>>)
  /\ UNCHANGED <<acc, con>>

Tasks(p) ==
  \/ AcceptTake(p) \/ AcceptDone(p) \/ AcceptFails(p)
  \/ ConnectOk(p) \/ ConnectFails(p)
  \/ \E h \in Handles : Cancelled(p, h)

Main(p) ==
  \/ \E h \in Handles : SelectOk(p, h) \/ SelectErr(p, h) \/ SelectPanics(p, h)
  \/ FallbackOk(p) \/ FallbackFails(p)

Next == Handshake \/ \E p \in Peers : Tasks(p) \/ Main(p)

(* Every attempt has a timeout and the runtime polls woken tasks.          *)
Spec == /\ Init /\ [][Next]_vars
        /\ \A p \in Peers : WF_vars(Tasks(p)) /\ WF_vars(Main(p))

----------------------------------------------------------------------------
ConnState == {"none", "lost", "closed"} \cup Unsettled
AccState == [st : {"waiting", "handshake", "ok", "err", "aborted"}, conn : Conns \cup {NoConn}]
ConState == [st : {"dialing", "ok", "err", "aborted"}, n : 1 .. NumAddrs]
MainState ==
  [pc : {"select", "fallback", "returned", "panicked"}, taken : SUBSET Handles,
   aborted : SUBSET Handles, n : 0 .. 2 * NumAddrs, result : Conns \cup {NoConn}, lost : BOOLEAN]

TypeOK ==
  /\ conn \in [Conns -> ConnState]
  /\ acc \in [Peers -> AccState]
  /\ con \in [Peers -> ConState]
  /\ main \in [Peers -> MainState]

(* A peer that returned a connection ends up with that one only: both its  *)
(* tasks end and every other connection it dialed or accepted gets closed, *)
(* however the two races interleave.                                       *)
OnlyTheWinner(p) ==
  (main[p].pc = "returned" /\ main[p].result # NoConn) =>
    /\ acc[p].st \notin {"waiting", "handshake"} /\ con[p].st # "dialing"
    /\ \A c \in Conns :
         (c # main[p].result /\ (c[1] = p \/ acc[p].conn = c))
           => conn[c] \notin Unsettled

LoserClosed == \A p \in Peers : <>[]OnlyTheWinner(p)

(* The function ends: with a connection, without one, or by panicking.     *)
Ends == \A p \in Peers : <>(main[p].pc \in {"returned", "panicked"})

(* One of the peer's two tasks has failed.                                 *)
Failed(p) == acc[p].st = "err" \/ con[p].st = "err"

(* A connection that a peer has in hand is dropped for an error, or the    *)
(* loop polls a finished handle again and panics, only after one of the    *)
(* peer's two tasks has failed: two tasks that both connect always end     *)
(* with a connection.                                                      *)
LostOnlyAfterFailure ==
  \A p \in Peers :
    (main[p].pc = "panicked" \/ main[p].lost \/ (main[p].pc = "returned" /\ main[p].result = NoConn))
      => Failed(p)
=============================================================================
