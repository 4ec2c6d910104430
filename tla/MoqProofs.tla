----------------------------- MODULE MoqProofs -----------------------------
(* Proofs about two MoQ sessions on one connection, with every set of calls *)
(* on them and every size of the receive window.  CallsProofs draws the     *)
(* theorem from them.                                                       *)
EXTENDS MoqPart, Sequences, TLAPS

----------------------------------------------------------------------------
(* The MoQ sessions *)

Messages == [type : Moq!MsgType, id : Nat]

\* A session wrote a message, or wrote it first.
Sent(s, type, n) == \E i \in 1 .. Len(s.out) : s.out[i].type = type /\ s.out[i].id = n
Begins(s, type) == s.out # << >> /\ s.out[1].type = type

\* A call of subscribe that has its number and has not written it yet.
Writes(t, q) == t[2] = "subscribe" /\ q.at = "write"

\* What a session lists it wrote, and the numbers it wrote were assigned, each once.
SessionOK(s) ==
  /\ \A a \in s.announced : Sent(s, "ANNOUNCE", a)
  /\ \A u \in s.subscriptions : Sent(s, "SUBSCRIBE", u[1])
  /\ \A i \in 1 .. Len(s.out) : s.out[i].type = "SUBSCRIBE" => s.out[i].id < s.next_subscribe_id
  /\ \A i, j \in 1 .. Len(s.out) :
       (s.out[i].type = "SUBSCRIBE" /\ s.out[j].type = "SUBSCRIBE" /\ s.out[i].id = s.out[j].id) => i = j

\* A call t at q on the session s lists only what it wrote, and writes a number
\* that nobody wrote before.
TaskOK(t, q, s) ==
  /\ (t[2] = "announce" /\ q.at = "push") => Sent(s, "ANNOUNCE", t[3])
  /\ (t[2] = "subscribe" /\ q.at = "push") => Sent(s, "SUBSCRIBE", q.arg)
  /\ Writes(t, q) => q.arg < s.next_subscribe_id /\ ~Sent(s, "SUBSCRIBE", q.arg)

\* A handshake goes on only after the other side began with its message.
HandOK(t, q, c, s) ==
  /\ (t[2] = "accept" /\ q.at \in {"write", "activate"}) => Begins(c, "CLIENT_SETUP")
  /\ (t[2] = "setup" /\ q.at = "activate") => Begins(s, "SERVER_SETUP")

MoqInv ==
  /\ Moq!TypeOK
  /\ \A e \in Moq!Ends : SessionOK(side[e])
  /\ \A t \in Moq!Tasks :
       TaskOK(t, pc[t], side[t[1]]) /\ HandOK(t, pc[t], side["client"], side["server"])
  /\ \A t, u \in Moq!Tasks :
       (t # u /\ t[1] = u[1] /\ Writes(t, pc[t]) /\ Writes(u, pc[u])) => pc[t].arg # pc[u].arg
  /\ side["client"].state = "Active" => Begins(side["server"], "SERVER_SETUP")
  /\ Begins(side["server"], "SERVER_SETUP") => Begins(side["client"], "CLIENT_SETUP")

LEMMA MoqTask ==
  ASSUME NEW t \in Moq!Tasks
  PROVE  /\ t[1] \in Moq!Ends /\ t[3] \in Nat
         /\ t[2] = "setup" => t[1] = "client"
         /\ t[2] = "accept" => t[1] = "server"
  BY MoqAssumption

LEMMA MoqPlaces ==
  /\ \A l \in Moq!Labels, n \in Nat : [at |-> l, arg |-> n] \in Moq!Place
  /\ \A d \in Moq!Datagram : [at |-> "record", arg |-> d] \in Moq!Place
  /\ \A q \in Moq!Place : q.at # "record" => q.arg \in Nat
  /\ \A q \in Moq!Place : q.at = "record" => q.arg \in Moq!Datagram
  /\ \A q \in Moq!Place, l \in Moq!Labels :
       q.at # "record" =>
         /\ [q EXCEPT !.at = l] \in Moq!Place
         /\ [q EXCEPT !.at = l].at = l /\ [q EXCEPT !.at = l].arg = q.arg
  <1>1. \A l \in Moq!Labels, n \in Nat : [at |-> l, arg |-> n] \in Moq!Place
    BY DEF Moq!Place
  <1>2. \A d \in Moq!Datagram : [at |-> "record", arg |-> d] \in Moq!Place
    BY DEF Moq!Place
  <1>3. \A q \in Moq!Place : q.at # "record" => q.arg \in Nat
    BY DEF Moq!Place, Moq!Labels, Moq!Over
  <1>4. \A q \in Moq!Place : q.at = "record" => q.arg \in Moq!Datagram
    BY DEF Moq!Place, Moq!Labels, Moq!Over
  <1>5. ASSUME NEW q \in Moq!Place, NEW l \in Moq!Labels, q.at # "record"
        PROVE  /\ [q EXCEPT !.at = l] \in Moq!Place
               /\ [q EXCEPT !.at = l].at = l /\ [q EXCEPT !.at = l].arg = q.arg
    <2>1. q \in [at : Moq!Labels, arg : Nat]
      BY <1>5 DEF Moq!Place
    <2>2. /\ [q EXCEPT !.at = l] \in [at : Moq!Labels, arg : Nat]
          /\ [q EXCEPT !.at = l].at = l /\ [q EXCEPT !.at = l].arg = q.arg
      BY <2>1
    <2> QED
      BY <2>2 DEF Moq!Place
  <1> QED
    BY <1>1, <1>2, <1>3, <1>4, <1>5

LEMMA MoqInit ==
  Moq!Init => MoqInv
  <1> SUFFICES ASSUME Moq!Init PROVE MoqInv
    OBVIOUS
  <1> DEFINE s == Moq!NewSession
  <1>1. side = [e \in Moq!Ends |-> s] /\ air = {}
    BY DEF Moq!Init
  <1>2. /\ s \in Moq!Session /\ s.out = << >> /\ s.announced = {} /\ s.subscriptions = {}
        /\ s.state = "Idle"
    <2>1. /\ << >> \in Seq([type : Moq!MsgType, id : Nat]) /\ << >> \in Seq(Moq!Report)
          /\ {} \in SUBSET Nat /\ {} \in SUBSET (Nat \X Nat)
      OBVIOUS
    <2>2. s \in Moq!Session
      BY <2>1 DEF Moq!NewSession, Moq!Session
    <2> QED
      BY <2>2 DEF Moq!NewSession
  <1> HIDE DEF s
  <1>3. PICK S \in Scenes :
          pc = [t \in Moq!Tasks |-> IF t \in S THEN Moq!Idle ELSE [at |-> "ok", arg |-> 0]]
    BY DEF Moq!Init
  <1>4. /\ Moq!Idle \in Moq!Place /\ Moq!Idle.at = "ready"
        /\ [at |-> "ok", arg |-> 0] \in Moq!Place
    <2>1. "ready" \in Moq!Labels /\ "ok" \in Moq!Labels /\ 0 \in Nat
      BY DEF Moq!Labels, Moq!Over
    <2>2. [at |-> "ready", arg |-> 0] \in Moq!Place /\ [at |-> "ok", arg |-> 0] \in Moq!Place
      BY <2>1, MoqPlaces, Zenon
    <2> QED
      BY <2>2 DEF Moq!Idle
  <1>5. pc \in [Moq!Tasks -> Moq!Place] /\ \A t \in Moq!Tasks : pc[t].at \in {"ready", "ok"}
    BY <1>3, <1>4
  <1>6. Moq!TypeOK
    BY <1>1, <1>2, <1>5 DEF Moq!TypeOK
  <1>7. SessionOK(s) /\ \A type : ~Begins(s, type)
    BY <1>2 DEF SessionOK, Begins
  <1>8. ASSUME NEW t \in Moq!Tasks
        PROVE  /\ TaskOK(t, pc[t], side[t[1]]) /\ ~Writes(t, pc[t])
               /\ HandOK(t, pc[t], side["client"], side["server"])
    BY <1>5 DEF TaskOK, HandOK, Writes
  <1>9. side["client"] = s /\ side["server"] = s /\ \A e \in Moq!Ends : side[e] = s
    BY <1>1 DEF Moq!Ends
  <1> QED
    BY <1>2, <1>6, <1>7, <1>8, <1>9 DEF MoqInv

\* r goes on from s: what was written stays.
Extends(s, r) ==
  /\ Len(s.out) <= Len(r.out) /\ s.next_subscribe_id <= r.next_subscribe_id
  /\ \A i \in 1 .. Len(s.out) : r.out[i] = s.out[i]

LEMMA ExtendsSame ==
  ASSUME NEW s \in Moq!Session, NEW r \in Moq!Session,
         r.out = s.out, r.next_subscribe_id = s.next_subscribe_id
  PROVE  Extends(s, r)
  <1>1. s.out \in Seq(Messages) /\ s.next_subscribe_id \in Nat
    BY DEF Moq!Session, Messages
  <1>2. Len(s.out) \in Nat
    BY <1>1
  <1> QED
    BY <1>1, <1>2 DEF Extends

LEMMA ExtendsKeeps ==
  ASSUME NEW s \in Moq!Session, NEW r \in Moq!Session, Extends(s, r), NEW type
  PROVE  /\ \A n : Sent(s, type, n) => Sent(r, type, n)
         /\ Begins(s, type) => Begins(r, type)
  <1>1. s.out \in Seq(Messages) /\ r.out \in Seq(Messages)
    BY DEF Moq!Session, Messages
  <1>2. Len(s.out) \in Nat /\ Len(r.out) \in Nat /\ Len(s.out) <= Len(r.out)
        /\ \A i \in 1 .. Len(s.out) : r.out[i] = s.out[i]
    BY <1>1 DEF Extends
  <1>3. ASSUME NEW n, Sent(s, type, n) PROVE Sent(r, type, n)
    BY <1>2, <1>3 DEF Sent
  <1>4. ASSUME Begins(s, type) PROVE Begins(r, type)
    <2>1. 1 \in 1 .. Len(s.out)
      BY <1>1, <1>2, <1>4 DEF Begins
    <2>2. r.out # << >>
      BY <1>1, <1>2, <2>1
    <2> QED
      BY <1>2, <1>4, <2>1, <2>2 DEF Begins
  <1> QED
    BY <1>3, <1>4

\* A call t on the session s goes on to q, and the session to r.
LEMMA MoqMove ==
  ASSUME MoqInv, NEW t \in Moq!Tasks, NEW r \in Moq!Session, NEW q \in Moq!Place,
         side' = [side EXCEPT ![t[1]] = r], pc' = [pc EXCEPT ![t] = q], air' \subseteq Moq!Datagram,
         Extends(side[t[1]], r), SessionOK(r), TaskOK(t, q, r),
         HandOK(t, q, side["client"], side["server"]),
         \A u \in Moq!Tasks :
           (u # t /\ u[1] = t[1] /\ Writes(u, pc[u])) =>
             ~Sent(r, "SUBSCRIBE", pc[u].arg) /\ (Writes(t, q) => pc[u].arg # q.arg),
         (t[1] = "client" /\ r.state = "Active") => Begins(side["server"], "SERVER_SETUP"),
         (t[1] = "server" /\ Begins(r, "SERVER_SETUP")) => Begins(side["client"], "CLIENT_SETUP")
  PROVE  MoqInv'
  <1> DEFINE e == t[1]
  <1>1. /\ side \in [Moq!Ends -> Moq!Session] /\ pc \in [Moq!Tasks -> Moq!Place]
        /\ e \in Moq!Ends /\ "client" \in Moq!Ends /\ "server" \in Moq!Ends
        /\ \A f \in Moq!Ends : f = "client" \/ f = "server"
    BY MoqTask DEF MoqInv, Moq!TypeOK, Moq!Ends
  <1>2. /\ side' \in [Moq!Ends -> Moq!Session] /\ side'[e] = r
        /\ \A f \in Moq!Ends : f # e => side'[f] = side[f]
    BY <1>1
  <1>3. /\ pc' \in [Moq!Tasks -> Moq!Place] /\ pc'[t] = q
        /\ \A u \in Moq!Tasks : u # t => pc'[u] = pc[u]
    BY <1>1
  <1>4. Moq!TypeOK'
    BY <1>2, <1>3 DEF Moq!TypeOK
  <1>5. ASSUME NEW f \in Moq!Ends PROVE Extends(side[f], side'[f])
    <2>1. CASE f = e
      BY <1>2, <2>1
    <2>2. CASE f # e
      <3>1. side[f] \in Moq!Session /\ side'[f] = side[f]
        BY <1>1, <1>2, <2>2
      <3> QED
        BY <3>1, ExtendsSame
    <2> QED
      BY <2>1, <2>2
  <1>6. ASSUME NEW f \in Moq!Ends, NEW type
        PROVE  /\ Begins(side[f], type) => Begins(side'[f], type)
               /\ \A n : Sent(side[f], type, n) => Sent(side'[f], type, n)
    BY <1>1, <1>2, <1>5, ExtendsKeeps
  <1>7. \A f \in Moq!Ends : SessionOK(side'[f])
    BY <1>2 DEF MoqInv
  <1>8. ASSUME NEW u \in Moq!Tasks, u # t, Writes(u, pc[u]) PROVE ~Sent(side'[u[1]], "SUBSCRIBE", pc[u].arg)
    <2>1. u[1] \in Moq!Ends /\ ~Sent(side[u[1]], "SUBSCRIBE", pc[u].arg)
      BY <1>8, MoqTask DEF MoqInv, TaskOK
    <2> QED
      BY <1>2, <1>8, <2>1
  <1>9. ASSUME NEW u \in Moq!Tasks PROVE TaskOK(u, pc'[u], side'[u[1]])
    <2>1. CASE u = t
      BY <1>2, <1>3, <2>1
    <2>2. CASE u # t
      <3> DEFINE s == side[u[1]]
                 z == side'[u[1]]
      <3>1. u[1] \in Moq!Ends /\ TaskOK(u, pc[u], s) /\ pc'[u] = pc[u]
        BY <1>3, <2>2, MoqTask DEF MoqInv
      <3>2. /\ s.next_subscribe_id \in Nat /\ z.next_subscribe_id \in Nat
            /\ s.next_subscribe_id <= z.next_subscribe_id
        <4>1. s \in Moq!Session /\ z \in Moq!Session /\ Extends(s, z)
          BY <1>1, <1>2, <1>5, <3>1
        <4> HIDE DEF s, z
        <4> QED
          BY <4>1 DEF Extends, Moq!Session
      <3>3. pc[u] \in Moq!Place /\ (Writes(u, pc[u]) => pc[u].arg \in Nat)
        BY <1>1, MoqPlaces DEF Writes
      <3>4. Writes(u, pc[u]) => pc[u].arg < z.next_subscribe_id /\ ~Sent(z, "SUBSCRIBE", pc[u].arg)
        BY <1>8, <2>2, <3>1, <3>2, <3>3 DEF TaskOK
      <3> HIDE DEF s, z
      <3>5. \A type, n : Sent(s, type, n) => Sent(z, type, n)
        BY <1>6, <3>1, Zenon DEF s, z
      <3>6. TaskOK(u, pc[u], z)
        BY <3>1, <3>4, <3>5 DEF TaskOK
      <3> QED
        BY <3>1, <3>6 DEF z
    <2> QED
      BY <2>1, <2>2
  <1>10. ASSUME NEW u \in Moq!Tasks PROVE HandOK(u, pc'[u], side'["client"], side'["server"])
    <2>1. HandOK(u, pc'[u], side["client"], side["server"])
      BY <1>3 DEF MoqInv
    <2> QED
      BY <1>1, <1>6, <2>1 DEF HandOK
  <1>11. ASSUME NEW u \in Moq!Tasks, NEW v \in Moq!Tasks, u # v, u[1] = v[1],
                Writes(u, pc'[u]), Writes(v, pc'[v])
         PROVE  pc'[u].arg # pc'[v].arg
    <2>1. CASE u = t
      BY <1>3, <1>11, <2>1
    <2>2. CASE v = t
      BY <1>3, <1>11, <2>2
    <2>3. CASE u # t /\ v # t
      BY <1>3, <1>11, <2>3 DEF MoqInv
    <2> QED
      BY <2>1, <2>2, <2>3
  <1>12. side'["client"].state = "Active" => Begins(side'["server"], "SERVER_SETUP")
    <2>1. CASE e = "client"
      BY <1>1, <1>2, <1>6, <2>1
    <2>2. CASE e # "client"
      BY <1>1, <1>2, <1>6, <2>2 DEF MoqInv
    <2> QED
      BY <2>1, <2>2
  <1>13. Begins(side'["server"], "SERVER_SETUP") => Begins(side'["client"], "CLIENT_SETUP")
    <2>1. CASE e = "server"
      BY <1>1, <1>2, <1>6, <2>1
    <2>2. CASE e # "server"
      BY <1>1, <1>2, <1>6, <2>2 DEF MoqInv
    <2> QED
      BY <2>1, <2>2
  <1> QED
    BY <1>4, <1>7, <1>9, <1>10, <1>11, <1>12, <1>13 DEF MoqInv

\* A step that changes nothing of what the session wrote or lists.
LEMMA MoqQuiet ==
  ASSUME MoqInv, NEW t \in Moq!Tasks, NEW r \in Moq!Session, NEW q \in Moq!Place,
         side' = [side EXCEPT ![t[1]] = r], pc' = [pc EXCEPT ![t] = q], air' \subseteq Moq!Datagram,
         r.out = side[t[1]].out, r.announced = side[t[1]].announced,
         r.subscriptions = side[t[1]].subscriptions,
         r.next_subscribe_id = side[t[1]].next_subscribe_id,
         ~Writes(t, q), TaskOK(t, q, side[t[1]]), HandOK(t, q, side["client"], side["server"]),
         (t[1] = "client" /\ r.state = "Active") =>
           side["client"].state = "Active" \/ Begins(side["server"], "SERVER_SETUP")
  PROVE  MoqInv'
  <1> DEFINE s == side[t[1]]
  <1>1. t[1] \in Moq!Ends /\ s \in Moq!Session /\ SessionOK(s)
    BY MoqTask DEF MoqInv, Moq!TypeOK
  <1>2. s.out \in Seq(Messages) /\ s.next_subscribe_id \in Nat
    BY <1>1 DEF Moq!Session, Messages
  <1> HIDE DEF s
  <1>3. Extends(s, r)
    BY <1>2 DEF Extends, s
  <1>4. \A type, n : Sent(r, type, n) <=> Sent(s, type, n)
    BY DEF Sent, s
  <1>5. SessionOK(r)
    BY <1>1, <1>4 DEF SessionOK, s
  <1>6. TaskOK(t, q, r)
    BY <1>4 DEF TaskOK, s
  <1>7. \A u \in Moq!Tasks :
          (u # t /\ u[1] = t[1] /\ Writes(u, pc[u])) =>
             ~Sent(r, "SUBSCRIBE", pc[u].arg) /\ (Writes(t, q) => pc[u].arg # q.arg)
    BY <1>4 DEF MoqInv, TaskOK, s
  <1>8. (t[1] = "client" /\ r.state = "Active") => Begins(side["server"], "SERVER_SETUP")
    BY DEF MoqInv
  <1>9. (t[1] = "server" /\ Begins(r, "SERVER_SETUP")) => Begins(side["client"], "CLIENT_SETUP")
    BY DEF MoqInv, Begins
  <1> QED
    BY <1>3, <1>5, <1>6, <1>7, <1>8, <1>9, MoqMove, Zenon DEF s

\* A step that leaves the sessions as they are.
LEMMA MoqStay ==
  ASSUME MoqInv, NEW t \in Moq!Tasks, NEW q \in Moq!Place,
         side' = side, pc' = [pc EXCEPT ![t] = q], air' \subseteq Moq!Datagram,
         ~Writes(t, q), TaskOK(t, q, side[t[1]]), HandOK(t, q, side["client"], side["server"])
  PROVE  MoqInv'
  <1> DEFINE r == side[t[1]]
  <1>1. t[1] \in Moq!Ends /\ r \in Moq!Session /\ side \in [Moq!Ends -> Moq!Session]
    BY MoqTask DEF MoqInv, Moq!TypeOK
  <1>2. side' = [side EXCEPT ![t[1]] = r]
    BY <1>1
  <1>3. (t[1] = "client" /\ r.state = "Active") => side["client"].state = "Active"
    OBVIOUS
  <1> HIDE DEF r
  <1> QED
    BY <1>1, <1>2, <1>3, MoqQuiet, Zenon DEF r

\* At most places a call has nothing to answer for.
Plain(q) == q.at \notin {"write", "push", "activate"}

LEMMA PlainOK ==
  ASSUME NEW t, NEW q, Plain(q), NEW s, NEW c, NEW d
  PROVE  ~Writes(t, q) /\ TaskOK(t, q, s) /\ HandOK(t, q, c, d)
  BY DEF Plain, Writes, TaskOK, HandOK

\* A message m is written.
LEMMA MoqWrite ==
  ASSUME MoqInv, NEW t \in Moq!Tasks, NEW m \in Messages, NEW q \in Moq!Place,
         side' = [side EXCEPT ![t[1]] = [side[t[1]] EXCEPT !.out = Append(side[t[1]].out, m)]],
         pc' = [pc EXCEPT ![t] = q], air' = air,
         m.type = "SUBSCRIBE" => Writes(t, pc[t]) /\ m.id = pc[t].arg,
         m.type = "SERVER_SETUP" => Begins(side["client"], "CLIENT_SETUP"),
         ~Writes(t, q), HandOK(t, q, side["client"], side["server"]),
         (t[2] = "announce" /\ q.at = "push") => m.type = "ANNOUNCE" /\ m.id = t[3],
         (t[2] = "subscribe" /\ q.at = "push") => m.type = "SUBSCRIBE" /\ m.id = q.arg
  PROVE  MoqInv'
  <1> DEFINE s == side[t[1]]
             r == [s EXCEPT !.out = Append(s.out, m)]
             n == Len(s.out)
  <1>1. t[1] \in Moq!Ends /\ s \in Moq!Session /\ SessionOK(s) /\ air \subseteq Moq!Datagram
    BY MoqTask DEF MoqInv, Moq!TypeOK
  <1>2. s.out \in Seq(Messages) /\ s.next_subscribe_id \in Nat /\ n \in Nat
    BY <1>1 DEF Moq!Session, Messages
  <1>3. Append(s.out, m) \in Seq(Messages)
    BY <1>2
  <1>4. r \in Moq!Session
    BY <1>1, <1>3, Zenon DEF Moq!Session, Messages
  <1>5. /\ r.out = Append(s.out, m) /\ r.announced = s.announced /\ r.subscriptions = s.subscriptions
        /\ r.next_subscribe_id = s.next_subscribe_id /\ r.state = s.state
    BY <1>1 DEF Moq!Session
  <1>6. side' = [side EXCEPT ![t[1]] = r]
    OBVIOUS
  <1> HIDE DEF s, r
  <1>7. /\ Len(r.out) = n + 1 /\ r.out[n + 1] = m /\ \A i \in 1 .. n : r.out[i] = s.out[i]
    BY <1>2, <1>5
  <1>8. \A i \in 1 .. n + 1 : i \in 1 .. n \/ i = n + 1
    BY <1>2
  <1>9. Extends(s, r)
    BY <1>2, <1>5, <1>7 DEF Extends
  <1>10. \A type, k : Sent(r, type, k) <=> Sent(s, type, k) \/ (m.type = type /\ m.id = k)
    <2> TAKE type, k
    <2>1. ASSUME Sent(r, type, k) PROVE Sent(s, type, k) \/ (m.type = type /\ m.id = k)
      <3>1. PICK i \in 1 .. n + 1 : r.out[i].type = type /\ r.out[i].id = k
        BY <1>7, <2>1 DEF Sent
      <3> QED
        BY <1>7, <1>8, <3>1 DEF Sent
    <2>2. ASSUME Sent(s, type, k) PROVE Sent(r, type, k)
      BY <1>1, <1>4, <1>9, <2>2, ExtendsKeeps
    <2>3. ASSUME m.type = type, m.id = k PROVE Sent(r, type, k)
      <3>1. n + 1 \in 1 .. Len(r.out)
        BY <1>2, <1>7
      <3> QED
        BY <1>7, <2>3, <3>1 DEF Sent
    <2> QED
      BY <2>1, <2>2, <2>3
  <1>11. m.type = "SUBSCRIBE" => m.id < s.next_subscribe_id /\ ~Sent(s, "SUBSCRIBE", m.id)
    BY DEF MoqInv, TaskOK, s
  <1>12. SessionOK(r)
    <2>1. (\A a \in r.announced : Sent(r, "ANNOUNCE", a)) /\ (\A u \in r.subscriptions : Sent(r, "SUBSCRIBE", u[1]))
      BY <1>1, <1>5, <1>10 DEF SessionOK
    <2>2. \A i \in 1 .. n + 1 : r.out[i].type = "SUBSCRIBE" => r.out[i].id < r.next_subscribe_id
      BY <1>1, <1>5, <1>7, <1>8, <1>11 DEF SessionOK
    <2>3. ASSUME NEW i \in 1 .. n + 1, NEW j \in 1 .. n + 1, r.out[i].type = "SUBSCRIBE",
                 r.out[j].type = "SUBSCRIBE", r.out[i].id = r.out[j].id
          PROVE  i = j
      <3>1. CASE i \in 1 .. n /\ j \in 1 .. n
        BY <1>1, <1>7, <2>3, <3>1 DEF SessionOK
      <3>2. CASE i = n + 1 /\ j \in 1 .. n
        BY <1>7, <1>11, <2>3, <3>2 DEF Sent
      <3>3. CASE i \in 1 .. n /\ j = n + 1
        BY <1>7, <1>11, <2>3, <3>3 DEF Sent
      <3> QED
        BY <1>8, <3>1, <3>2, <3>3
    <2> QED
      BY <1>7, <2>1, <2>2, <2>3 DEF SessionOK
  <1>13. TaskOK(t, q, r)
    BY <1>10 DEF TaskOK
  <1>14. \A u \in Moq!Tasks :
           (u # t /\ u[1] = t[1] /\ Writes(u, pc[u])) =>
             ~Sent(r, "SUBSCRIBE", pc[u].arg) /\ (Writes(t, q) => pc[u].arg # q.arg)
    BY <1>10 DEF MoqInv, TaskOK, s
  <1>15. (t[1] = "client" /\ r.state = "Active") => Begins(side["server"], "SERVER_SETUP")
    BY <1>5 DEF MoqInv, s
  <1>16. (t[1] = "server" /\ Begins(r, "SERVER_SETUP")) => Begins(side["client"], "CLIENT_SETUP")
    <2>1. CASE s.out = << >>
      BY <1>7, <2>1 DEF Begins, n
    <2>2. CASE s.out # << >>
      <3>1. 1 \in 1 .. n
        BY <1>2, <2>2
      <3>2. r.out[1] = s.out[1]
        BY <1>7, <3>1
      <3> QED
        BY <2>2, <3>2 DEF MoqInv, Begins, s
    <2> QED
      BY <2>1, <2>2
  <1> QED
    BY <1>1, <1>4, <1>6, <1>9, <1>12, <1>13, <1>14, <1>15, <1>16, MoqMove, Zenon DEF s

\* The steps in which only the place of the call changes, and those in which a
\* message may be written.
LEMMA MoqGoto ==
  ASSUME MoqInv, NEW t \in Moq!Tasks, NEW l \in Moq!Labels, pc[t].at # "record",
         Moq!Goto(t, l), side' = side, air' \subseteq Moq!Datagram,
         t[2] = "announce" => l # "push",
         t[2] = "subscribe" => l \notin {"push", "write"},
         (t[2] = "accept" /\ l \in {"write", "activate"}) => Begins(side["client"], "CLIENT_SETUP"),
         (t[2] = "setup" /\ l = "activate") => Begins(side["server"], "SERVER_SETUP")
  PROVE  MoqInv'
  <1> DEFINE q == [pc[t] EXCEPT !.at = l]
  <1>1. pc[t] \in Moq!Place /\ pc \in [Moq!Tasks -> Moq!Place]
    BY DEF MoqInv, Moq!TypeOK
  <1>2. pc' = [pc EXCEPT ![t] = q]
    BY DEF Moq!Goto
  <1>3. q \in Moq!Place /\ q.at = l
    BY <1>1, MoqPlaces
  <1> HIDE DEF q
  <1>4. ~Writes(t, q) /\ TaskOK(t, q, side[t[1]]) /\ HandOK(t, q, side["client"], side["server"])
    BY <1>3 DEF Writes, TaskOK, HandOK
  <1> QED
    BY <1>2, <1>3, <1>4, MoqStay, Zenon

LEMMA MoqIfActive ==
  ASSUME MoqInv, NEW t \in Moq!Tasks, NEW l \in Moq!Labels, pc[t].at # "record",
         Moq!if_Active(t, l), t[2] \notin {"setup", "accept"},
         t[2] = "announce" => l # "push", t[2] = "subscribe" => l \notin {"push", "write"}
  PROVE  MoqInv'
  <1> DEFINE k == IF Moq!Here(t).state = "Active" THEN l ELSE "failed"
  <1>1. k \in Moq!Labels /\ (k = l \/ k = "failed")
    BY DEF Moq!Labels, Moq!Over
  <1>2. Moq!Goto(t, k) /\ side' = side /\ air' \subseteq Moq!Datagram
    BY DEF Moq!if_Active, MoqInv, Moq!TypeOK
  <1> HIDE DEF k
  <1>3. (t[2] = "announce" => k # "push") /\ (t[2] = "subscribe" => k \notin {"push", "write"})
    BY <1>1
  <1> QED
    BY <1>1, <1>2, <1>3, MoqGoto

LEMMA MoqControl ==
  ASSUME MoqInv, NEW t \in Moq!Tasks, NEW l \in Moq!Labels, pc[t].at # "record",
         NEW m \in Messages, Moq!control_write(t, m, l),
         m.type = "SUBSCRIBE" => Writes(t, pc[t]) /\ m.id = pc[t].arg,
         m.type = "SERVER_SETUP" => Begins(side["client"], "CLIENT_SETUP"),
         l # "write",
         l = "activate" => t[2] # "setup" /\ (t[2] = "accept" => Begins(side["client"], "CLIENT_SETUP")),
         (t[2] = "announce" /\ l = "push") => m.type = "ANNOUNCE" /\ m.id = t[3],
         (t[2] = "subscribe" /\ l = "push") => m.type = "SUBSCRIBE"
  PROVE  MoqInv'
  <1>1. CASE Moq!Goto(t, "failed") /\ side' = side /\ air' = air
    <2>1. "failed" \in Moq!Labels /\ air' \subseteq Moq!Datagram
      BY <1>1 DEF Moq!Labels, Moq!Over, MoqInv, Moq!TypeOK
    <2> QED
      BY <1>1, <2>1, MoqGoto
  <1>2. CASE /\ Moq!Put(t[1], [Moq!Here(t) EXCEPT !.out = Append(@, m)])
             /\ Moq!Goto(t, l) /\ air' = air
    <2> DEFINE q == [pc[t] EXCEPT !.at = l]
    <2>1. pc[t] \in Moq!Place /\ pc \in [Moq!Tasks -> Moq!Place]
      BY DEF MoqInv, Moq!TypeOK
    <2>2. pc' = [pc EXCEPT ![t] = q]
      BY <1>2 DEF Moq!Goto
    <2>3. q \in Moq!Place /\ q.at = l /\ q.arg = pc[t].arg
      BY <2>1, MoqPlaces
    <2>4. side' = [side EXCEPT ![t[1]] = [side[t[1]] EXCEPT !.out = Append(side[t[1]].out, m)]]
      BY <1>2 DEF Moq!Put, Moq!Here
    <2> HIDE DEF q
    <2>5. ~Writes(t, q) /\ HandOK(t, q, side["client"], side["server"])
      BY <2>3 DEF Writes, HandOK
    <2>6. /\ (t[2] = "announce" /\ q.at = "push") => m.type = "ANNOUNCE" /\ m.id = t[3]
          /\ (t[2] = "subscribe" /\ q.at = "push") => m.type = "SUBSCRIBE" /\ m.id = q.arg
      BY <2>3
    <2> QED
      BY <1>2, <2>2, <2>3, <2>4, <2>5, <2>6, MoqWrite, Zenon
  <1> QED
    BY <1>1, <1>2 DEF Moq!control_write

\* r is a session with the lists of s.
Like(s, r, state) ==
  /\ r \in Moq!Session /\ r.out = s.out /\ r.announced = s.announced
  /\ r.subscriptions = s.subscriptions /\ r.next_subscribe_id = s.next_subscribe_id
  /\ r.state = state

LEMMA SessionSet ==
  ASSUME NEW s \in Moq!Session
  PROVE  /\ \A v \in {"SettingUp", "Active", "Closing", "Closed"} : Like(s, [s EXCEPT !.state = v], v)
         /\ Like(s, [s EXCEPT !.conn = "closed"], s.state)
         /\ Like(s, [s EXCEPT !.control = TRUE], s.state)
         /\ \A v \in BOOLEAN : Like(s, [s EXCEPT !.reading = v], s.state)
         /\ \A v \in Seq(Moq!Report) : Like(s, [s EXCEPT !.reports = v], s.state)
  <1>1. ASSUME NEW v \in {"SettingUp", "Active", "Closing", "Closed"}
        PROVE  Like(s, [s EXCEPT !.state = v], v)
    BY Zenon DEF Like, Moq!Session
  <1>2. Like(s, [s EXCEPT !.conn = "closed"], s.state)
    BY Zenon DEF Like, Moq!Session
  <1>3. Like(s, [s EXCEPT !.control = TRUE], s.state)
    BY Zenon DEF Like, Moq!Session
  <1>4. ASSUME NEW v \in BOOLEAN PROVE Like(s, [s EXCEPT !.reading = v], s.state)
    BY Zenon DEF Like, Moq!Session
  <1>5. ASSUME NEW v \in Seq(Moq!Report) PROVE Like(s, [s EXCEPT !.reports = v], s.state)
    BY Zenon DEF Like, Moq!Session
  <1> QED
    BY <1>1, <1>2, <1>3, <1>4, <1>5

\* The steps that change another field of the session, and go on to a place
\* where the call has nothing to answer for.
LEMMA MoqSet ==
  ASSUME MoqInv, NEW t \in Moq!Tasks, NEW q \in Moq!Place, Plain(q), NEW r, NEW state,
         side' = [side EXCEPT ![t[1]] = r], pc' = [pc EXCEPT ![t] = q], air' \subseteq Moq!Datagram,
         Like(side[t[1]], r, state),
         state # "Active" \/ state = side[t[1]].state
  PROVE  MoqInv'
  <1>1. (t[1] = "client" /\ r.state = "Active") => side["client"].state = "Active"
    BY DEF Like
  <1>2. ~Writes(t, q) /\ TaskOK(t, q, side[t[1]]) /\ HandOK(t, q, side["client"], side["server"])
    BY PlainOK
  <1>3. /\ r \in Moq!Session /\ r.out = side[t[1]].out /\ r.announced = side[t[1]].announced
        /\ r.subscriptions = side[t[1]].subscriptions
        /\ r.next_subscribe_id = side[t[1]].next_subscribe_id
    BY DEF Like
  <1> QED
    BY <1>1, <1>2, <1>3, MoqQuiet, Zenon

\* The same for a place given by its label.
LEMMA MoqSetGoto ==
  ASSUME MoqInv, NEW t \in Moq!Tasks, NEW l \in Moq!Labels, l \notin {"write", "push", "activate"},
         pc[t].at # "record", Moq!Goto(t, l), NEW r, NEW state, Moq!Put(t[1], r), air' = air,
         Like(side[t[1]], r, state), state # "Active" \/ state = side[t[1]].state
  PROVE  MoqInv'
  <1> DEFINE q == [pc[t] EXCEPT !.at = l]
  <1>1. pc[t] \in Moq!Place /\ pc \in [Moq!Tasks -> Moq!Place] /\ air' \subseteq Moq!Datagram
    BY DEF MoqInv, Moq!TypeOK
  <1>2. pc' = [pc EXCEPT ![t] = q] /\ side' = [side EXCEPT ![t[1]] = r]
    BY DEF Moq!Goto, Moq!Put
  <1>3. q \in Moq!Place /\ q.at = l
    BY <1>1, MoqPlaces
  <1> HIDE DEF q
  <1>4. Plain(q)
    BY <1>3 DEF Plain
  <1> QED
    BY <1>1, <1>2, <1>3, <1>4, MoqSet, Zenon

LEMMA MoqSetWith ==
  ASSUME MoqInv, NEW t \in Moq!Tasks, NEW l \in Moq!Labels, l \notin {"write", "push", "activate"},
         NEW n \in Nat, Moq!With(t, l, n), NEW r, NEW state, Moq!Put(t[1], r), air' = air,
         Like(side[t[1]], r, state), state # "Active" \/ state = side[t[1]].state
  PROVE  MoqInv'
  <1> DEFINE q == [at |-> l, arg |-> n]
  <1>1. air' \subseteq Moq!Datagram
    BY DEF MoqInv, Moq!TypeOK
  <1>2. pc' = [pc EXCEPT ![t] = q] /\ side' = [side EXCEPT ![t[1]] = r]
    BY DEF Moq!With, Moq!Put
  <1>3. q \in Moq!Place /\ q.at = l
    BY MoqPlaces
  <1> HIDE DEF q
  <1>4. Plain(q)
    BY <1>3 DEF Plain
  <1> QED
    BY <1>1, <1>2, <1>3, <1>4, MoqSet, Zenon

\* The session of a call, and the calls that are not in the receive loop.
LEMMA MoqHere ==
  ASSUME MoqInv, NEW t \in Moq!Tasks
  PROVE  /\ side[t[1]] \in Moq!Session /\ Moq!Here(t) = side[t[1]] /\ t[1] \in Moq!Ends
         /\ air \subseteq Moq!Datagram /\ pc[t] \in Moq!Place
         /\ \A l \in Moq!Labels : Moq!At(t, l) => pc[t].at # "record" /\ pc[t].arg \in Nat
  <1>1. /\ side[t[1]] \in Moq!Session /\ Moq!Here(t) = side[t[1]] /\ t[1] \in Moq!Ends
        /\ air \subseteq Moq!Datagram /\ pc[t] \in Moq!Place
    BY MoqTask DEF MoqInv, Moq!TypeOK, Moq!Here
  <1>2. "record" \notin Moq!Labels
    BY DEF Moq!Labels, Moq!Over
  <1> QED
    BY <1>1, <1>2, MoqPlaces DEF Moq!At

----------------------------------------------------------------------------
LEMMA MoqLabels ==
  {"ok", "failed", "ready", "open", "write", "read", "activate", "push", "id", "wait", "again", "lock",
   "report", "tick", "hang_up", "mark"} \subseteq Moq!Labels
  BY DEF Moq!Labels, Moq!Over

LEMMA MoqHandshake ==
  ASSUME MoqInv, NEW t \in Moq!Tasks, t[2] \in Moq!Handshakes, Moq!handshake(t)
  PROVE  MoqInv'
  <1> DEFINE s == side[t[1]]
  <1>1. /\ s \in Moq!Session /\ Moq!Here(t) = s /\ air \subseteq Moq!Datagram
        /\ \A l \in Moq!Labels : Moq!At(t, l) => pc[t].at # "record" /\ pc[t].arg \in Nat
    BY MoqHere
  <1>2. t[2] \in {"setup", "accept"}
    BY DEF Moq!Handshakes
  <1> HIDE DEF s
  <1>3. CASE Moq!handshake_start(t)
    <2>1. pc[t].at # "record" /\ air' = air
      BY <1>1, <1>3, MoqLabels DEF Moq!handshake_start
    <2>2. CASE Moq!Goto(t, "failed") /\ side' = side
      BY <1>1, <1>2, <2>1, <2>2, MoqLabels, MoqGoto
    <2>3. CASE Moq!Goto(t, "open") /\ Moq!Put(t[1], [s EXCEPT !.state = "SettingUp"])
      <3>1. Like(s, [s EXCEPT !.state = "SettingUp"], "SettingUp")
        BY <1>1, SessionSet, Zenon
      <3> QED
        BY <2>1, <2>3, <3>1, MoqLabels, MoqSetGoto, Zenon DEF s
    <2> QED
      BY <1>1, <1>3, <2>2, <2>3 DEF Moq!handshake_start
  <1>4. CASE Moq!handshake_open(t)
    <2>1. pc[t].at # "record" /\ air' = air
      BY <1>1, <1>4, MoqLabels DEF Moq!handshake_open
    <2>2. CASE Moq!Goto(t, "failed") /\ side' = side
      BY <1>1, <1>2, <2>1, <2>2, MoqLabels, MoqGoto
    <2>3. CASE /\ Moq!Put(t[1], [s EXCEPT !.control = TRUE])
               /\ Moq!Goto(t, IF t[2] = "setup" THEN "write" ELSE "read")
      <3> DEFINE l == IF t[2] = "setup" THEN "write" ELSE "read"
                 q == [pc[t] EXCEPT !.at = l]
                 r == [s EXCEPT !.control = TRUE]
      <3>1. l \in Moq!Labels /\ (t[2] = "setup" \/ l = "read") /\ l \in {"write", "read"}
        BY MoqLabels
      <3>2. /\ pc' = [pc EXCEPT ![t] = q] /\ side' = [side EXCEPT ![t[1]] = r]
            /\ pc[t] \in Moq!Place
        BY <2>3, MoqHere DEF Moq!Goto, Moq!Put
      <3>3. Like(s, r, s.state)
        BY <1>1, SessionSet, Zenon
      <3> HIDE DEF l, r
      <3>4. q \in Moq!Place /\ q.at = l
        BY <2>1, <3>1, <3>2, MoqPlaces
      <3> HIDE DEF q
      <3>5. ~Writes(t, q) /\ TaskOK(t, q, s) /\ HandOK(t, q, side["client"], side["server"])
        BY <1>2, <3>1, <3>4 DEF Writes, TaskOK, HandOK
      <3>6. /\ r \in Moq!Session /\ r.out = s.out /\ r.announced = s.announced
            /\ r.subscriptions = s.subscriptions /\ r.next_subscribe_id = s.next_subscribe_id
            /\ (t[1] = "client" /\ r.state = "Active") => side["client"].state = "Active"
        BY <3>3 DEF Like, s
      <3> QED
        BY <1>1, <2>1, <3>2, <3>4, <3>5, <3>6, MoqQuiet, Zenon DEF s
    <2> QED
      BY <1>1, <1>4, <2>2, <2>3 DEF Moq!handshake_open
  <1>5. CASE Moq!handshake_read(t)
    <2>1. pc[t].at # "record" /\ air' = air /\ side' = side
      BY <1>1, <1>5, MoqLabels DEF Moq!handshake_read
    <2>2. CASE Moq!Goto(t, "failed")
      BY <1>1, <1>2, <2>1, <2>2, MoqLabels, MoqGoto
    <2>3. CASE /\ side[Moq!Other(t[1])].out # << >>
               /\ Moq!welcome(t, side[Moq!Other(t[1])].out[1].type)
               /\ Moq!Goto(t, IF t[2] = "setup" THEN "activate" ELSE "write")
      <3>1. CASE t[2] = "setup"
        <4>1. t[1] = "client" /\ Moq!Other("client") = "server" /\ "server" \in Moq!Ends
          BY <3>1, MoqTask DEF Moq!Other, Moq!Ends
        <4>2. side["server"].out \in Seq(Messages)
          BY <4>1, Zenon DEF MoqInv, Moq!TypeOK, Moq!Session, Messages
        <4>3. side["server"].out[1].type \in Moq!MsgType
          <5> DEFINE o == side["server"].out
          <5>1. o \in Seq(Messages) /\ o # << >>
            BY <2>3, <4>1, <4>2
          <5> HIDE DEF o
          <5>2. o[1] \in Messages
            BY <5>1
          <5> QED
            BY <5>2 DEF Messages, o
        <4>4. Begins(side["server"], "SERVER_SETUP")
          BY <2>3, <3>1, <4>1, <4>3 DEF Begins, Moq!welcome, Moq!MsgType
        <4>5. Moq!Goto(t, "activate")
          BY <2>3, <3>1
        <4> QED
          BY <1>1, <2>1, <3>1, <4>4, <4>5, MoqLabels, MoqGoto
      <3>2. CASE t[2] = "accept"
        <4>1. t[1] = "server" /\ Moq!Other("server") = "client"
          BY <3>2, MoqTask DEF Moq!Other, Moq!Ends
        <4>2. Begins(side["client"], "CLIENT_SETUP")
          BY <2>3, <3>2, <4>1 DEF Begins, Moq!welcome
        <4>3. Moq!Goto(t, "write")
          BY <2>3, <3>2
        <4> QED
          BY <1>1, <2>1, <3>2, <4>2, <4>3, MoqLabels, MoqGoto
      <3> QED
        BY <1>2, <3>1, <3>2
    <2> QED
      BY <1>5, <2>2, <2>3 DEF Moq!handshake_read
  <1>6. CASE Moq!handshake_write(t)
    <2>1. pc[t].at = "write" /\ pc[t].at # "record"
      BY <1>6 DEF Moq!handshake_write, Moq!At
    <2>2. CASE t[2] = "setup"
      <3> DEFINE m == [type |-> "CLIENT_SETUP", id |-> 0]
      <3>1. m \in Messages /\ m.type = "CLIENT_SETUP" /\ Moq!control_write(t, m, "read")
        BY <1>6, <2>2 DEF Messages, Moq!MsgType, Moq!handshake_write
      <3> HIDE DEF m
      <3> QED
        BY <2>1, <2>2, <3>1, MoqLabels, MoqControl
    <2>3. CASE t[2] = "accept"
      <3> DEFINE m == [type |-> "SERVER_SETUP", id |-> 0]
      <3>1. m \in Messages /\ m.type = "SERVER_SETUP" /\ Moq!control_write(t, m, "activate")
        BY <1>6, <2>3 DEF Messages, Moq!MsgType, Moq!handshake_write
      <3>2. Begins(side["client"], "CLIENT_SETUP")
        BY <2>1, <2>3 DEF MoqInv, HandOK
      <3> HIDE DEF m
      <3> QED
        BY <2>1, <2>3, <3>1, <3>2, MoqLabels, MoqControl
    <2> QED
      BY <1>2, <2>2, <2>3
  <1>7. CASE Moq!handshake_finish(t)
    <2> DEFINE q == [pc[t] EXCEPT !.at = "ok"]
               r == [s EXCEPT !.state = "Active"]
    <2>1. pc[t].at = "activate" /\ air' = air /\ pc[t] \in Moq!Place
      BY <1>7, MoqHere DEF Moq!handshake_finish, Moq!At
    <2>2. pc' = [pc EXCEPT ![t] = q] /\ side' = [side EXCEPT ![t[1]] = r]
      BY <1>1, <1>7 DEF Moq!handshake_finish, Moq!Goto, Moq!Put
    <2>3. q \in Moq!Place /\ q.at = "ok"
      BY <2>1, MoqLabels, MoqPlaces
    <2>4. Like(s, r, "Active")
      BY <1>1, SessionSet, Zenon
    <2> HIDE DEF q, r
    <2>5. t[1] = "client" => Begins(side["server"], "SERVER_SETUP")
      BY <1>2, <2>1, MoqTask DEF MoqInv, HandOK
    <2>6. ~Writes(t, q) /\ TaskOK(t, q, s) /\ HandOK(t, q, side["client"], side["server"])
      BY <2>3 DEF Writes, TaskOK, HandOK
    <2>7. /\ r \in Moq!Session /\ r.out = s.out /\ r.announced = s.announced
          /\ r.subscriptions = s.subscriptions /\ r.next_subscribe_id = s.next_subscribe_id
      BY <2>4 DEF Like
    <2> QED
      BY <1>1, <2>1, <2>2, <2>3, <2>5, <2>6, <2>7, MoqQuiet, Zenon DEF s
  <1> QED
    BY <1>3, <1>4, <1>5, <1>6, <1>7 DEF Moq!handshake

\* A session lists one more thing that it wrote.
LEMMA MoqPush ==
  ASSUME MoqInv, NEW t \in Moq!Tasks, Moq!At(t, "push"), Moq!Goto(t, "ok"), air' = air,
         NEW r \in Moq!Session, Moq!Put(t[1], r), SessionOK(r),
         r.out = side[t[1]].out, r.next_subscribe_id = side[t[1]].next_subscribe_id,
         r.state = side[t[1]].state
  PROVE  MoqInv'
  <1> DEFINE s == side[t[1]]
             q == [pc[t] EXCEPT !.at = "ok"]
  <1>1. /\ s \in Moq!Session /\ t[1] \in Moq!Ends /\ air' \subseteq Moq!Datagram
        /\ pc[t] \in Moq!Place /\ pc[t].at # "record"
    BY MoqHere, MoqLabels
  <1>2. side' = [side EXCEPT ![t[1]] = r] /\ pc' = [pc EXCEPT ![t] = q]
    BY DEF Moq!Put, Moq!Goto
  <1>3. q \in Moq!Place /\ q.at = "ok"
    BY <1>1, MoqLabels, MoqPlaces
  <1> HIDE DEF q
  <1>4. ~Writes(t, q) /\ TaskOK(t, q, r) /\ HandOK(t, q, side["client"], side["server"])
    BY <1>3 DEF Writes, TaskOK, HandOK
  <1>5. Extends(s, r)
    BY <1>1, ExtendsSame
  <1>6. /\ \A n : Sent(r, "SUBSCRIBE", n) <=> Sent(s, "SUBSCRIBE", n)
        /\ Begins(r, "SERVER_SETUP") <=> Begins(s, "SERVER_SETUP")
    BY DEF Sent, Begins
  <1>7. \A u \in Moq!Tasks :
          (u # t /\ u[1] = t[1] /\ Writes(u, pc[u])) => ~Sent(r, "SUBSCRIBE", pc[u].arg)
    BY <1>6 DEF MoqInv, TaskOK
  <1>8. (t[1] = "client" /\ r.state = "Active") => Begins(side["server"], "SERVER_SETUP")
    BY DEF MoqInv
  <1>9. (t[1] = "server" /\ Begins(r, "SERVER_SETUP")) => Begins(side["client"], "CLIENT_SETUP")
    BY <1>6 DEF MoqInv
  <1> QED
    BY <1>1, <1>2, <1>3, <1>4, <1>5, <1>7, <1>8, <1>9, MoqMove, Zenon DEF s

LEMMA SessionNumber ==
  ASSUME NEW s \in Moq!Session, NEW n \in Nat
  PROVE  LET r == [s EXCEPT !.next_subscribe_id = n]
         IN /\ r \in Moq!Session /\ r.out = s.out /\ r.next_subscribe_id = n
            /\ r.state = s.state /\ r.subscriptions = s.subscriptions /\ r.announced = s.announced
  BY Zenon DEF Moq!Session

\* A longer list of what was written.
LEMMA SessionLists ==
  ASSUME NEW s \in Moq!Session, NEW r \in Moq!Session, SessionOK(s),
         r.out = s.out, r.next_subscribe_id = s.next_subscribe_id,
         \A a \in r.announced : a \in s.announced \/ Sent(s, "ANNOUNCE", a),
         \A u \in r.subscriptions : u \in s.subscriptions \/ Sent(s, "SUBSCRIBE", u[1])
  PROVE  SessionOK(r)
  <1>1. \A type, n : Sent(r, type, n) <=> Sent(s, type, n)
    BY DEF Sent
  <1>2. \A a \in r.announced : Sent(r, "ANNOUNCE", a)
    BY <1>1 DEF SessionOK
  <1>3. \A u \in r.subscriptions : Sent(r, "SUBSCRIBE", u[1])
    BY <1>1 DEF SessionOK
  <1>4. \A i \in 1 .. Len(r.out) : r.out[i].type = "SUBSCRIBE" => r.out[i].id < r.next_subscribe_id
    BY DEF SessionOK
  <1>5. \A i, j \in 1 .. Len(r.out) :
          (r.out[i].type = "SUBSCRIBE" /\ r.out[j].type = "SUBSCRIBE" /\ r.out[i].id = r.out[j].id) => i = j
    BY DEF SessionOK
  <1> QED
    BY <1>2, <1>3, <1>4, <1>5 DEF SessionOK

LEMMA MoqAnnounce ==
  ASSUME MoqInv, NEW t \in Moq!Tasks, t[2] = "announce", Moq!announce(t)
  PROVE  MoqInv'
  <1> DEFINE s == side[t[1]]
  <1>1. /\ s \in Moq!Session /\ Moq!Here(t) = s /\ t[1] \in Moq!Ends
        /\ \A l \in Moq!Labels : Moq!At(t, l) => pc[t].at # "record" /\ pc[t].arg \in Nat
    BY MoqHere
  <1>2. CASE Moq!At(t, "ready") /\ Moq!if_Active(t, "write")
    BY <1>1, <1>2, MoqLabels, MoqIfActive
  <1>3. CASE /\ Moq!At(t, "write")
             /\ Moq!control_write(t, [type |-> "ANNOUNCE", id |-> t[3]], "push")
    <2> DEFINE m == [type |-> "ANNOUNCE", id |-> t[3]]
    <2>1. m \in Messages /\ m.type = "ANNOUNCE" /\ m.id = t[3]
      BY MoqTask DEF Messages, Moq!MsgType
    <2>2. Moq!control_write(t, m, "push") /\ pc[t].at # "record"
      BY <1>1, <1>3, MoqLabels
    <2> HIDE DEF m
    <2> QED
      BY <2>1, <2>2, MoqLabels, MoqControl
  <1>4. CASE /\ Moq!At(t, "push") /\ Moq!Goto(t, "ok") /\ air' = air
             /\ Moq!Put(t[1], [s EXCEPT !.announced = @ \cup {t[3]}])
    <2> DEFINE r == [s EXCEPT !.announced = @ \cup {t[3]}]
    <2>1. t[3] \in Nat /\ s.announced \in SUBSET Nat
      BY <1>1, MoqTask DEF Moq!Session
    <2>2. s.announced \cup {t[3]} \in SUBSET Nat
      BY <2>1
    <2>3. /\ r \in Moq!Session /\ r.out = s.out /\ r.next_subscribe_id = s.next_subscribe_id
          /\ r.state = s.state /\ r.subscriptions = s.subscriptions
          /\ r.announced = s.announced \cup {t[3]}
      BY <1>1, <2>2, Zenon DEF Moq!Session
    <2>4. Moq!Put(t[1], r)
      BY <1>4
    <2> HIDE DEF r
    <2>5. Sent(s, "ANNOUNCE", t[3]) /\ SessionOK(s)
      BY <1>1, <1>4 DEF MoqInv, TaskOK, Moq!At
    <2> HIDE DEF s
    <2>6. SessionOK(r)
      <3>1. \A a \in r.announced : a \in s.announced \/ Sent(s, "ANNOUNCE", a)
        BY <2>3, <2>5
      <3>2. \A u \in r.subscriptions : u \in s.subscriptions
        BY <2>3
      <3> QED
        BY <1>1, <2>3, <2>5, <3>1, <3>2, SessionLists
    <2> QED
      BY <1>4, <2>3, <2>4, <2>6, MoqPush DEF s
  <1> QED
    BY <1>1, <1>2, <1>3, <1>4 DEF Moq!announce

LEMMA MoqNumber ==
  ASSUME MoqInv, NEW t \in Moq!Tasks, t[2] = "subscribe", Moq!assign_subscribe_id(t)
  PROVE  MoqInv'
  <1> DEFINE s == side[t[1]]
             q == [at |-> "write", arg |-> s.next_subscribe_id]
             r == [s EXCEPT !.next_subscribe_id = @ + 1]
  <1>1. /\ s \in Moq!Session /\ Moq!Here(t) = s /\ t[1] \in Moq!Ends
        /\ air \subseteq Moq!Datagram
    BY MoqHere
  <1>2. air' = air /\ side' = [side EXCEPT ![t[1]] = r] /\ pc' = [pc EXCEPT ![t] = q]
    BY <1>1 DEF Moq!assign_subscribe_id, Moq!Put, Moq!With
  <1>3. s.next_subscribe_id \in Nat /\ Len(s.out) \in Nat
    <2> HIDE DEF s
    <2>1. s.out \in Seq(Messages) /\ s.next_subscribe_id \in Nat
      BY <1>1 DEF Moq!Session, Messages
    <2> QED
      BY <2>1
  <1>4. s.next_subscribe_id + 1 \in Nat
    <2> HIDE DEF s
    <2> QED
      BY <1>3
  <1>5. /\ r \in Moq!Session /\ r.out = s.out /\ r.next_subscribe_id = s.next_subscribe_id + 1
        /\ r.state = s.state /\ r.subscriptions = s.subscriptions
        /\ r.announced = s.announced
    BY <1>1, <1>4, SessionNumber
  <1>6. q \in Moq!Place /\ q.at = "write" /\ q.arg = s.next_subscribe_id
    BY <1>3, MoqLabels, MoqPlaces
  <1> HIDE DEF q, r
  <1>7. SessionOK(s) /\ \A n : Sent(s, "SUBSCRIBE", n) => n < s.next_subscribe_id
    <2>1. SessionOK(s)
      BY <1>1 DEF MoqInv
    <2> HIDE DEF s
    <2> QED
      BY <2>1 DEF SessionOK, Sent
  <1>8. SessionOK(r)
    <2> DEFINE n == s.next_subscribe_id
    <2>1. ASSUME NEW i \in 1 .. Len(s.out), s.out[i].type = "SUBSCRIBE" PROVE s.out[i].id < n + 1
      <3>1. s.out[i].id < n
        BY <1>7, <2>1 DEF SessionOK
      <3>2. s.out[i].id \in Nat
        <4>1. s.out \in Seq(Messages)
          BY <1>1 DEF Moq!Session, Messages
        <4>2. s.out[i] \in Messages
          BY <4>1
        <4> QED
          BY <4>2 DEF Messages
      <3> QED
        BY <1>3, <3>1, <3>2
    <2> HIDE DEF s, n
    <2>2. \A type, k : Sent(r, type, k) <=> Sent(s, type, k)
      BY <1>5 DEF Sent
    <2>3. /\ \A a \in r.announced : Sent(r, "ANNOUNCE", a)
          /\ \A u \in r.subscriptions : Sent(r, "SUBSCRIBE", u[1])
      BY <1>5, <1>7, <2>2 DEF SessionOK
    <2>4. \A i \in 1 .. Len(r.out) : r.out[i].type = "SUBSCRIBE" => r.out[i].id < r.next_subscribe_id
      BY <1>5, <2>1 DEF n
    <2>5. \A i, j \in 1 .. Len(r.out) :
            (r.out[i].type = "SUBSCRIBE" /\ r.out[j].type = "SUBSCRIBE" /\ r.out[i].id = r.out[j].id) => i = j
      BY <1>5, <1>7 DEF SessionOK
    <2> QED
      BY <2>3, <2>4, <2>5 DEF SessionOK
  <1>9. \A n : Sent(r, "SUBSCRIBE", n) <=> Sent(s, "SUBSCRIBE", n)
    BY <1>5 DEF Sent
  <1>10. Extends(s, r)
    <2> HIDE DEF s
    <2> QED
      BY <1>3, <1>5 DEF Extends
  <1>11. ~Sent(r, "SUBSCRIBE", q.arg) /\ q.arg < r.next_subscribe_id
    <2> HIDE DEF s
    <2> QED
      BY <1>3, <1>5, <1>6, <1>7, <1>9
  <1>12. TaskOK(t, q, r) /\ HandOK(t, q, side["client"], side["server"])
    BY <1>6, <1>11 DEF TaskOK, HandOK, Writes
  <1>13. ASSUME NEW u \in Moq!Tasks, u # t, u[1] = t[1], Writes(u, pc[u])
         PROVE  ~Sent(r, "SUBSCRIBE", pc[u].arg) /\ pc[u].arg # q.arg
    <2>1. pc[u].arg < s.next_subscribe_id /\ ~Sent(s, "SUBSCRIBE", pc[u].arg)
      BY <1>13 DEF MoqInv, TaskOK
    <2> QED
      BY <1>3, <1>6, <1>9, <2>1
  <1>14. (t[1] = "client" /\ r.state = "Active") => Begins(side["server"], "SERVER_SETUP")
    BY <1>5 DEF MoqInv
  <1>15. (t[1] = "server" /\ Begins(r, "SERVER_SETUP")) => Begins(side["client"], "CLIENT_SETUP")
    BY <1>5 DEF MoqInv, Begins
  <1> QED
    BY <1>1, <1>2, <1>5, <1>6, <1>8, <1>10, <1>12, <1>13, <1>14, <1>15, MoqMove, Zenon DEF s

LEMMA MoqSubscribe ==
  ASSUME MoqInv, NEW t \in Moq!Tasks, t[2] = "subscribe", Moq!subscribe(t)
  PROVE  MoqInv'
  <1> DEFINE s == side[t[1]]
  <1>1. /\ s \in Moq!Session /\ Moq!Here(t) = s /\ t[1] \in Moq!Ends
        /\ \A l \in Moq!Labels : Moq!At(t, l) => pc[t].at # "record" /\ pc[t].arg \in Nat
    BY MoqHere
  <1>2. CASE Moq!At(t, "ready") /\ Moq!if_Active(t, "id")
    BY <1>1, <1>2, MoqLabels, MoqIfActive
  <1>3. CASE Moq!assign_subscribe_id(t)
    BY <1>3, MoqNumber
  <1>4. CASE /\ Moq!At(t, "write")
             /\ Moq!control_write(t, [type |-> "SUBSCRIBE", id |-> pc[t].arg], "push")
    <2> DEFINE m == [type |-> "SUBSCRIBE", id |-> pc[t].arg]
    <2>1. pc[t].arg \in Nat /\ pc[t].at # "record" /\ pc[t].at = "write"
      BY <1>1, <1>4, MoqLabels DEF Moq!At
    <2>2. m \in Messages /\ m.type = "SUBSCRIBE" /\ m.id = pc[t].arg
      BY <2>1 DEF Messages, Moq!MsgType
    <2>3. Moq!control_write(t, m, "push") /\ Writes(t, pc[t])
      BY <1>4, <2>1 DEF Writes
    <2> HIDE DEF m
    <2> QED
      BY <2>1, <2>2, <2>3, MoqLabels, MoqControl
  <1>5. CASE /\ Moq!At(t, "push") /\ Moq!Goto(t, "ok") /\ air' = air
             /\ Moq!Put(t[1], [s EXCEPT !.subscriptions = @ \cup {<<pc[t].arg, t[3]>>}])
    <2> DEFINE u == <<pc[t].arg, t[3]>>
               r == [s EXCEPT !.subscriptions = @ \cup {u}]
    <2>1. u \in Nat \X Nat /\ s.subscriptions \in SUBSET (Nat \X Nat) /\ u[1] = pc[t].arg
      BY <1>1, <1>5, MoqLabels, MoqTask DEF Moq!Session
    <2>2. Moq!Put(t[1], r)
      BY <1>5
    <2> HIDE DEF u
    <2>3. s.subscriptions \cup {u} \in SUBSET (Nat \X Nat)
      BY <2>1
    <2>4. /\ r \in Moq!Session /\ r.out = s.out /\ r.next_subscribe_id = s.next_subscribe_id
          /\ r.state = s.state /\ r.announced = s.announced
          /\ r.subscriptions = s.subscriptions \cup {u}
      BY <1>1, <2>3, Zenon DEF Moq!Session
    <2> HIDE DEF r
    <2>5. Sent(s, "SUBSCRIBE", u[1]) /\ SessionOK(s)
      BY <1>1, <1>5, <2>1 DEF MoqInv, TaskOK, Moq!At
    <2> HIDE DEF s
    <2>6. SessionOK(r)
      <3>1. \A a \in r.announced : a \in s.announced
        BY <2>4
      <3>2. \A x \in r.subscriptions : x \in s.subscriptions \/ Sent(s, "SUBSCRIBE", x[1])
        BY <2>4, <2>5
      <3> QED
        BY <1>1, <2>4, <2>5, <3>1, <3>2, SessionLists
    <2> QED
      BY <1>5, <2>2, <2>4, <2>6, MoqPush DEF s
  <1> QED
    BY <1>1, <1>2, <1>3, <1>4, <1>5 DEF Moq!subscribe

LEMMA MoqUpdate ==
  ASSUME MoqInv, NEW t \in Moq!Tasks, t[2] = "update", Moq!update(t)
  PROVE  MoqInv'
  <1>1. pc[t].at # "record" /\ air \subseteq Moq!Datagram
    BY MoqHere, MoqLabels DEF Moq!update
  <1>2. CASE Moq!control_write(t, [type |-> "TRACK_UPDATE", id |-> t[3]], "ok")
    <2> DEFINE m == [type |-> "TRACK_UPDATE", id |-> t[3]]
    <2>1. m \in Messages /\ m.type = "TRACK_UPDATE" /\ Moq!control_write(t, m, "ok")
      BY <1>2, MoqTask DEF Messages, Moq!MsgType
    <2> HIDE DEF m
    <2> QED
      BY <1>1, <2>1, MoqLabels, MoqControl
  <1>3. CASE Moq!Goto(t, "ok") /\ side' = side /\ air' = air
    BY <1>1, <1>3, MoqLabels, MoqGoto
  <1> QED
    BY <1>2, <1>3 DEF Moq!update

LEMMA MoqDatagram ==
  ASSUME MoqInv, NEW t \in Moq!Tasks, t[2] \in {"audio", "video"}, Moq!send_datagram(t)
  PROVE  MoqInv'
  <1>1. /\ \A l \in Moq!Labels : Moq!At(t, l) => pc[t].at # "record"
        /\ air \subseteq Moq!Datagram /\ t[1] \in Moq!Ends
    BY MoqHere
  <1>2. CASE Moq!At(t, "ready") /\ Moq!if_Active(t, "write")
    BY <1>1, <1>2, MoqLabels, MoqIfActive
  <1>3. CASE Moq!At(t, "write") /\ side' = side /\ Moq!Goto(t, "failed") /\ air' = air
    BY <1>1, <1>3, MoqLabels, MoqGoto
  <1>4. CASE /\ Moq!At(t, "write") /\ side' = side /\ Moq!Goto(t, "ok")
             /\ air' = air \cup {[to |-> Moq!Other(t[1]), alias |-> t[2], seq |-> t[3]]}
    <2> DEFINE d == [to |-> Moq!Other(t[1]), alias |-> t[2], seq |-> t[3]]
    <2>1. Moq!Other(t[1]) \in Moq!Ends
      BY <1>1 DEF Moq!Other, Moq!Ends
    <2>2. d \in Moq!Datagram
      BY <2>1, MoqTask DEF Moq!Datagram
    <2> HIDE DEF d
    <2>3. air' \subseteq Moq!Datagram
      BY <1>1, <1>4, <2>2 DEF d
    <2> QED
      BY <1>1, <1>4, <2>3, MoqLabels, MoqGoto
  <1> QED
    BY <1>2, <1>3, <1>4 DEF Moq!send_datagram

LEMMA MoqRecord ==
  ASSUME NEW s \in Moq!Session, NEW d \in Moq!Datagram
  PROVE  Like(s, Moq!record_received_datagram(s, d), s.state)
  <1>1. s.reports \in Seq(Moq!Report) /\ d.alias \in {"audio", "video"} /\ d.seq \in Nat
    BY DEF Moq!Session, Moq!Datagram
  <1>2. CASE Moq!Track(s, d.alias) # {}
    <2> DEFINE i == CHOOSE x \in Moq!Track(s, d.alias) : TRUE
               rs == s.reports
               old == rs[i]
               new == [old EXCEPT !.last_seq = d.seq, !.received = old.received + 1]
               v == [rs EXCEPT ![i] = new]
    <2>1. i \in DOMAIN s.reports
      BY <1>2 DEF Moq!Track
    <2> HIDE DEF i
    <2>2. rs \in Seq(Moq!Report) /\ i \in DOMAIN rs
      BY <1>1, <2>1
    <2>3. Moq!record_received_datagram(s, d) = [s EXCEPT !.reports = v]
      BY <1>2 DEF Moq!record_received_datagram, i
    <2> HIDE DEF rs
    <2>4. old \in Moq!Report
      BY <2>2
    <2> HIDE DEF old
    <2>5. new \in Moq!Report
      <3>1. old.received + 1 \in Nat
        BY <2>4 DEF Moq!Report
      <3> QED
        BY <1>1, <2>4, <3>1, Zenon DEF Moq!Report
    <2> HIDE DEF new
    <2>6. v \in Seq(Moq!Report)
      BY <2>2, <2>5
    <2> HIDE DEF v
    <2> QED
      BY <2>3, <2>6, SessionSet, Zenon
  <1>3. CASE Moq!Track(s, d.alias) = {}
    <2> DEFINE new == [alias |-> d.alias, last_seq |-> d.seq, received |-> 1]
    <2>1. new \in Moq!Report
      BY <1>1 DEF Moq!Report
    <2>2. Moq!record_received_datagram(s, d) = [s EXCEPT !.reports = Append(s.reports, new)]
      BY <1>3 DEF Moq!record_received_datagram
    <2> HIDE DEF new
    <2>3. Append(s.reports, new) \in Seq(Moq!Report)
      BY <1>1, <2>1
    <2> QED
      BY <2>2, <2>3, SessionSet, Zenon
  <1> QED
    BY <1>2, <1>3

LEMMA MoqReceive ==
  ASSUME MoqInv, NEW t \in Moq!Tasks, t[2] = "receive", Moq!receive(t)
  PROVE  MoqInv'
  <1> DEFINE s == side[t[1]]
  <1>1. /\ \A l \in Moq!Labels : Moq!At(t, l) => pc[t].at # "record"
        /\ air \subseteq Moq!Datagram /\ s \in Moq!Session /\ Moq!Here(t) = s
        /\ pc[t] \in Moq!Place
    BY MoqHere
  <1>2. CASE Moq!At(t, "ready") /\ Moq!if_Active(t, "wait")
    BY <1>1, <1>2, MoqLabels, MoqIfActive
  <1>3. CASE Moq!At(t, "wait") /\ Moq!Goto(t, "failed") /\ side' = side /\ air' = air
    BY <1>1, <1>3, MoqLabels, MoqGoto
  <1>4. CASE \E d \in air : Moq!With(t, "record", d) /\ air' = air \ {d} /\ side' = side
    <2>1. PICK d \in air : Moq!With(t, "record", d) /\ air' = air \ {d} /\ side' = side
      BY <1>4
    <2> DEFINE q == [at |-> "record", arg |-> d]
    <2>2. q \in Moq!Place /\ Plain(q) /\ pc' = [pc EXCEPT ![t] = q]
      BY <1>1, <2>1, MoqPlaces DEF Plain, Moq!With
    <2> HIDE DEF q
    <2>3. air' \subseteq Moq!Datagram
      BY <1>1, <2>1
    <2> QED
      BY <2>1, <2>2, <2>3, PlainOK, MoqStay, Zenon
  <1>5. CASE /\ Moq!At(t, "record") /\ air' = air /\ Moq!With(t, "again", 0)
             /\ Moq!Put(t[1], Moq!record_received_datagram(s, pc[t].arg))
    <2>1. pc[t].arg \in Moq!Datagram
      BY <1>1, <1>5, MoqPlaces DEF Moq!At
    <2>2. Like(s, Moq!record_received_datagram(s, pc[t].arg), s.state)
      BY <1>1, <2>1, MoqRecord
    <2> QED
      BY <1>5, <2>2, MoqLabels, MoqSetWith, Zenon DEF s
  <1>6. CASE Moq!At(t, "again") /\ Moq!if_Active(t, "wait")
    BY <1>1, <1>6, MoqLabels, MoqIfActive
  <1> QED
    BY <1>1, <1>2, <1>3, <1>4, <1>5, <1>6 DEF Moq!receive

LEMMA MoqReport ==
  ASSUME MoqInv, NEW t \in Moq!Tasks, t[2] = "feedback", Moq!send_quality_report(t)
  PROVE  MoqInv'
  <1> DEFINE s == side[t[1]]
             n == pc[t].arg
             q == [at |-> "report", arg |-> n + 1]
             m == [type |-> "FEEDBACK", id |-> n]
  <1>1. Moq!Here(t) = s /\ air \subseteq Moq!Datagram /\ n \in Nat
    BY MoqHere, MoqLabels DEF Moq!send_quality_report
  <1>2. q \in Moq!Place /\ Plain(q)
    <2>1. n + 1 \in Nat
      BY <1>1
    <2>2. q \in Moq!Place /\ q.at = "report"
      BY <2>1, MoqLabels, MoqPlaces
    <2> QED
      BY <2>2 DEF Plain
  <1>3. m \in Messages /\ m.type = "FEEDBACK"
    BY <1>1 DEF Messages, Moq!MsgType
  <1>4. /\ pc' = [pc EXCEPT ![t] = q] /\ air' = air
        /\ side' = side \/ side' = [side EXCEPT ![t[1]] = [s EXCEPT !.out = Append(s.out, m)]]
    BY <1>1 DEF Moq!send_quality_report, Moq!Put
  <1> HIDE DEF q, m
  <1>5. ~Writes(t, q) /\ TaskOK(t, q, s) /\ HandOK(t, q, side["client"], side["server"])
    BY <1>2, PlainOK
  <1>6. CASE side' = side
    BY <1>1, <1>2, <1>4, <1>5, <1>6, MoqStay, Zenon
  <1>7. CASE side' = [side EXCEPT ![t[1]] = [s EXCEPT !.out = Append(s.out, m)]]
    BY <1>2, <1>3, <1>4, <1>5, <1>7, MoqWrite, Zenon DEF s
  <1> QED
    BY <1>4, <1>6, <1>7

LEMMA MoqFeedback ==
  ASSUME MoqInv, NEW t \in Moq!Tasks, t[2] = "feedback", Moq!feedback(t)
  PROVE  MoqInv'
  <1> DEFINE s == side[t[1]]
  <1>1. /\ \A l \in Moq!Labels : Moq!At(t, l) => pc[t].at # "record"
        /\ s \in Moq!Session /\ Moq!Here(t) = s
    BY MoqHere
  <1>2. \A v \in BOOLEAN : Like(s, [s EXCEPT !.reading = v], s.state)
    BY <1>1, SessionSet, Zenon
  <1>3. CASE Moq!At(t, "ready") /\ Moq!if_Active(t, "lock")
    BY <1>1, <1>3, MoqLabels, MoqIfActive
  <1>4. CASE Moq!With(t, "report", 0) /\ air' = air /\ Moq!Put(t[1], [s EXCEPT !.reading = TRUE])
    BY <1>2, <1>4, MoqLabels, MoqSetWith, Zenon DEF s
  <1>5. CASE Moq!send_quality_report(t)
    BY <1>5, MoqReport
  <1>6. CASE Moq!With(t, "tick", 0) /\ air' = air /\ Moq!Put(t[1], [s EXCEPT !.reading = FALSE])
    BY <1>2, <1>6, MoqLabels, MoqSetWith, Zenon DEF s
  <1>7. CASE Moq!At(t, "tick") /\ Moq!if_Active(t, "lock")
    BY <1>1, <1>7, MoqLabels, MoqIfActive
  <1> QED
    BY <1>1, <1>3, <1>4, <1>5, <1>6, <1>7 DEF Moq!feedback

LEMMA MoqClose ==
  ASSUME MoqInv, NEW t \in Moq!Tasks, t[2] = "close", Moq!close(t)
  PROVE  MoqInv'
  <1> DEFINE s == side[t[1]]
  <1>1. /\ \A l \in Moq!Labels : Moq!At(t, l) => pc[t].at # "record"
        /\ s \in Moq!Session /\ Moq!Here(t) = s /\ air' = air
    BY MoqHere DEF Moq!close
  <1>2. /\ Like(s, [s EXCEPT !.state = "Closing"], "Closing")
        /\ Like(s, [s EXCEPT !.conn = "closed"], s.state)
        /\ Like(s, [s EXCEPT !.state = "Closed"], "Closed")
    BY <1>1, SessionSet, Zenon
  <1>3. CASE /\ Moq!At(t, "ready") /\ Moq!Goto(t, "hang_up")
             /\ Moq!Put(t[1], [s EXCEPT !.state = "Closing"])
    <2> DEFINE r == [s EXCEPT !.state = "Closing"]
    <2>1. Like(side[t[1]], r, "Closing") /\ Moq!Put(t[1], r) /\ pc[t].at # "record"
      BY <1>1, <1>2, <1>3, MoqLabels
    <2> HIDE DEF r
    <2> QED
      BY <1>1, <1>3, <2>1, MoqLabels, MoqSetGoto, Zenon
  <1>4. CASE /\ Moq!At(t, "hang_up") /\ Moq!Goto(t, "mark")
             /\ Moq!Put(t[1], [s EXCEPT !.conn = "closed"])
    <2> DEFINE r == [s EXCEPT !.conn = "closed"]
    <2>1. Like(side[t[1]], r, side[t[1]].state) /\ Moq!Put(t[1], r) /\ pc[t].at # "record"
      BY <1>1, <1>2, <1>4, MoqLabels
    <2> HIDE DEF r
    <2> QED
      BY <1>1, <1>4, <2>1, MoqLabels, MoqSetGoto, Zenon
  <1>5. CASE /\ Moq!At(t, "mark") /\ Moq!Goto(t, "ok")
             /\ Moq!Put(t[1], [s EXCEPT !.state = "Closed"])
    <2> DEFINE r == [s EXCEPT !.state = "Closed"]
    <2>1. Like(side[t[1]], r, "Closed") /\ Moq!Put(t[1], r) /\ pc[t].at # "record"
      BY <1>1, <1>2, <1>5, MoqLabels
    <2> HIDE DEF r
    <2> QED
      BY <1>1, <1>5, <2>1, MoqLabels, MoqSetGoto, Zenon
  <1> QED
    BY <1>1, <1>3, <1>4, <1>5 DEF Moq!close

LEMMA MoqLost ==
  ASSUME MoqInv, NEW e \in Moq!Ends, Moq!Lost(e)
  PROVE  MoqInv'
  <1> DEFINE s == side[e]
             r == [s EXCEPT !.conn = "closed"]
  <1>1. s \in Moq!Session /\ side \in [Moq!Ends -> Moq!Session]
    BY DEF MoqInv, Moq!TypeOK
  <1>2. Like(s, r, s.state)
    BY <1>1, SessionSet, Zenon
  <1>3. pc' = pc /\ air' = air /\ side' = [side EXCEPT ![e] = r]
    BY DEF Moq!Lost, Moq!Put
  <1> HIDE DEF r
  <1>4. /\ side' \in [Moq!Ends -> Moq!Session]
        /\ \A f \in Moq!Ends :
             /\ side'[f].out = side[f].out /\ side'[f].announced = side[f].announced
             /\ side'[f].subscriptions = side[f].subscriptions /\ side'[f].state = side[f].state
             /\ side'[f].next_subscribe_id = side[f].next_subscribe_id
    BY <1>1, <1>2, <1>3 DEF Like
  <1>5. "client" \in Moq!Ends /\ "server" \in Moq!Ends /\ \A t \in Moq!Tasks : t[1] \in Moq!Ends
    BY MoqTask DEF Moq!Ends
  <1>6. \A f \in Moq!Ends : \A type :
          /\ Begins(side'[f], type) <=> Begins(side[f], type)
          /\ \A n : Sent(side'[f], type, n) <=> Sent(side[f], type, n)
    BY <1>4 DEF Begins, Sent
  <1>7. \A f \in Moq!Ends : SessionOK(side'[f])
    <2> SUFFICES ASSUME NEW f \in Moq!Ends PROVE SessionOK(side'[f])
      OBVIOUS
    <2> DEFINE x == side[f]
               y == side'[f]
    <2>1. /\ x \in Moq!Session /\ y \in Moq!Session /\ SessionOK(x) /\ y.out = x.out
          /\ y.next_subscribe_id = x.next_subscribe_id
          /\ y.announced = x.announced /\ y.subscriptions = x.subscriptions
      BY <1>1, <1>4 DEF MoqInv
    <2> HIDE DEF x, y
    <2>2. SessionOK(y)
      BY <2>1, SessionLists
    <2> QED
      BY <2>2 DEF y
  <1>8. ASSUME NEW t \in Moq!Tasks
        PROVE  /\ TaskOK(t, pc'[t], side'[t[1]])
               /\ HandOK(t, pc'[t], side'["client"], side'["server"])
    <2>1. TaskOK(t, pc[t], side[t[1]]) /\ HandOK(t, pc[t], side["client"], side["server"])
      BY DEF MoqInv
    <2>2. TaskOK(t, pc'[t], side'[t[1]])
      BY <1>3, <1>4, <1>5, <1>6, <2>1 DEF TaskOK
    <2>3. HandOK(t, pc'[t], side'["client"], side'["server"])
      BY <1>3, <1>5, <1>6, <2>1 DEF HandOK
    <2> QED
      BY <2>2, <2>3
  <1>9. \A t, u \in Moq!Tasks :
          (t # u /\ t[1] = u[1] /\ Writes(t, pc'[t]) /\ Writes(u, pc'[u])) => pc'[t].arg # pc'[u].arg
    BY <1>3 DEF MoqInv
  <1>10. /\ side'["client"].state = "Active" => Begins(side'["server"], "SERVER_SETUP")
         /\ Begins(side'["server"], "SERVER_SETUP") => Begins(side'["client"], "CLIENT_SETUP")
    BY <1>4, <1>5, <1>6 DEF MoqInv
  <1>11. Moq!TypeOK'
    BY <1>3, <1>4 DEF MoqInv, Moq!TypeOK
  <1> QED
    BY <1>7, <1>8, <1>9, <1>10, <1>11 DEF MoqInv

LEMMA MoqStep ==
  ASSUME MoqInv, Moq!Next
  PROVE  MoqInv'
  <1>1. ASSUME NEW t \in Moq!Tasks, Moq!step(t) PROVE MoqInv'
    <2>1. CASE t[2] \in Moq!Handshakes /\ Moq!handshake(t)
      BY <2>1, MoqHandshake
    <2>2. CASE t[2] = "announce" /\ Moq!announce(t)
      BY <2>2, MoqAnnounce
    <2>3. CASE t[2] = "subscribe" /\ Moq!subscribe(t)
      BY <2>3, MoqSubscribe
    <2>4. CASE t[2] = "update" /\ Moq!update(t)
      BY <2>4, MoqUpdate
    <2>5. CASE t[2] \in {"audio", "video"} /\ Moq!send_datagram(t)
      BY <2>5, MoqDatagram
    <2>6. CASE t[2] = "receive" /\ Moq!receive(t)
      BY <2>6, MoqReceive
    <2>7. CASE t[2] = "feedback" /\ Moq!feedback(t)
      BY <2>7, MoqFeedback
    <2>8. CASE t[2] = "close" /\ Moq!close(t)
      BY <2>8, MoqClose
    <2> QED
      BY <1>1, <2>1, <2>2, <2>3, <2>4, <2>5, <2>6, <2>7, <2>8 DEF Moq!step
  <1>2. ASSUME NEW e \in Moq!Ends, Moq!Lost(e) PROVE MoqInv'
    BY <1>2, MoqLost
  <1> QED
    BY <1>1, <1>2 DEF Moq!Next

LEMMA MoqStutters ==
  ASSUME MoqInv, UNCHANGED Moq!vars
  PROVE  MoqInv'
  <1>1. side' = side /\ pc' = pc /\ air' = air
    BY Zenon DEF Moq!vars
  <1> QED
    BY <1>1, Zenon DEF MoqInv, Moq!TypeOK

LEMMA MoqHolds ==
  MoqInv => Moq!HandshakeHonest /\ Moq!ListedWasSent
  <1> SUFFICES ASSUME MoqInv PROVE Moq!HandshakeHonest /\ Moq!ListedWasSent
    OBVIOUS
  <1>1. Moq!HandshakeHonest
    BY DEF MoqInv, Moq!HandshakeHonest, Moq!First, Begins
  <1>2. ASSUME NEW e \in Moq!Ends
        PROVE  LET written(type) == {i \in DOMAIN side[e].out : side[e].out[i].type = type}
                   ids(type) == {side[e].out[i].id : i \in written(type)}
               IN /\ side[e].announced \subseteq ids("ANNOUNCE")
                  /\ {s[1] : s \in side[e].subscriptions} \subseteq ids("SUBSCRIBE")
                  /\ \A i, j \in written("SUBSCRIBE") : side[e].out[i].id = side[e].out[j].id => i = j
    <2> DEFINE x == side[e]
    <2>1. x.out \in Seq(Messages) /\ SessionOK(x)
      BY Zenon DEF MoqInv, Moq!TypeOK, Moq!Session, Messages
    <2>2. DOMAIN x.out = 1 .. Len(x.out)
      BY <2>1
    <2> HIDE DEF x
    <2>3. \A type, n : Sent(x, type, n) =>
            n \in {x.out[i].id : i \in {j \in DOMAIN x.out : x.out[j].type = type}}
      BY <2>2 DEF Sent
    <2>4. x.announced \subseteq {x.out[i].id : i \in {j \in DOMAIN x.out : x.out[j].type = "ANNOUNCE"}}
      BY <2>1, <2>3 DEF SessionOK
    <2>5. {s[1] : s \in x.subscriptions} \subseteq
            {x.out[i].id : i \in {j \in DOMAIN x.out : x.out[j].type = "SUBSCRIBE"}}
      BY <2>1, <2>3 DEF SessionOK
    <2>6. \A i, j \in {k \in DOMAIN x.out : x.out[k].type = "SUBSCRIBE"} :
            x.out[i].id = x.out[j].id => i = j
      BY <2>1, <2>2 DEF SessionOK
    <2> QED
      BY <2>4, <2>5, <2>6 DEF x
  <1> QED
    BY <1>1, <1>2 DEF Moq!ListedWasSent
=============================================================================
