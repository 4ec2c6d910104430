----------------------------- MODULE ByteCodecs -----------------------------
(***************************************************************************)
(* The byte formats of the media path, each written by hand: MoQ datagrams *)
(* and setup messages (moq.rs), the capsules of the HTTP/2 tunnel          *)
(* (masque.rs), the token for a MASQUE proxy with its base64 (proxy.rs)    *)
(* and the base64url of the parts of a JWT (jwt.rs).                       *)
(*                                                                         *)
(* A byte is 0 .. 255 and a u64 is its eight bytes, most significant       *)
(* first, so that all 64 bits are there.  A behaviour writes one message,  *)
(* which may be cut at any byte on its way, and reads it.                  *)
(***************************************************************************)
EXTENDS Naturals, Sequences, Functions

CONSTANTS
  U64s,        \* u64 values: the edges of the varint classes
  Versions,    \* the version numbers a client may offer
  DRAFT_17,    \* one of them
  Sizes,       \* packet sizes for the capsule
  Heads        \* first bytes of a packet

VARIABLES format, value, bytes, read

vars == <<format, value, bytes, read>>

(* What a decoder returns.                                                 *)
Ok(v) == [how |-> "ok", val |-> {v}]
Err == [how |-> "error", val |-> {}]
Panic == [how |-> "panic", val |-> {}]
NotRead == [how |-> "none", val |-> {}]

Zeros(n) == [i \in 1 .. n |-> 0]
small(n) == Zeros(6) \o <<n \div 256, n % 256>>
drop(s, n) == SubSeq(s, n + 1, Len(s))

----------------------------------------------------------------------------
(* Off by one: 64 is written as one byte.                                  *)
encode_varint_narrow(v) ==
  CASE SubSeq(v, 1, 7) = Zeros(7) /\ v[8] <= 64 -> <<v[8]>>
    [] OTHER -> <<192 + (v[1] % 64)>> \o SubSeq(v, 2, 8)

(* encode_varint of moq.rs: two bits of length, then the value.            *)
encode_varint(v) ==
  CASE SubSeq(v, 1, 7) = Zeros(7) /\ v[8] < 64 -> <<v[8]>>
    [] SubSeq(v, 1, 6) = Zeros(6) /\ v[7] < 64 /\ (v[7] > 0 \/ v[8] >= 64) ->
         <<64 + v[7], v[8]>>
    [] SubSeq(v, 1, 4) = Zeros(4) /\ v[5] < 64 /\ (v[5] > 0 \/ v[6] > 0 \/ v[7] >= 64) ->
         <<128 + v[5]>> \o SubSeq(v, 6, 8)
    [] OTHER -> <<192 + (v[1] % 64)>> \o SubSeq(v, 2, 8)

(* decode_varint: the value and the bytes it took; nothing if some are     *)
(* missing.                                                                *)
decode_varint(data) ==
  LET n == IF data = << >> THEN 0 ELSE 2 ^ (data[1] \div 64)
  IN IF data = << >> \/ Len(data) < n THEN [val |-> Zeros(8), len |-> 0]
     ELSE [val |-> Zeros(8 - n) \o <<data[1] % 64>> \o SubSeq(data, 2, n), len |-> n]

(* MoqDatagram.                                                            *)
datagram_encode(d) ==
  <<1>> \o d.alias \o encode_varint(d.seq) \o encode_varint(d.timestamp) \o d.payload

datagram_decode(data) ==
  LET rest == drop(data, 5)
      seq == decode_varint(rest)
      ts == decode_varint(drop(rest, seq.len))
  IN IF Len(data) < 5 \/ data[1] # 1 THEN Err
     ELSE Ok([alias |-> SubSeq(data, 2, 5), seq |-> seq.val, timestamp |-> ts.val,
              payload |-> drop(rest, seq.len + ts.len)])

(* The pieces one after the other, as they are put in one buffer.          *)
Joined(pieces) ==
  MapThenFoldSet(LAMBDA p, rest : p \o rest, << >>, LAMBDA i : pieces[i],
                 LAMBDA S : CHOOSE i \in S : \A j \in S : i <= j, DOMAIN pieces)

path_encode(path) ==
  IF path = {} THEN << >>
  ELSE LET p == CHOOSE p \in path : TRUE IN encode_varint(small(Len(p))) \o p

(* ClientSetup::encode.  The path is {} or {bytes}.                        *)
client_setup_encode(m) ==
  <<1>> \o encode_varint(small(Len(m.versions)))
        \o Joined([i \in DOMAIN m.versions |-> encode_varint(m.versions[i])])
        \o encode_varint(small(m.role))
        \o path_encode(m.path)

(* The optional path at the end of both setup messages.                    *)
setup_path(rest) ==
  LET n == decode_varint(rest)
      text == drop(rest, n.len)
      size == n.val[7] * 256 + n.val[8]
  IN IF rest = << >> THEN {}
     ELSE IF SubSeq(n.val, 1, 6) = Zeros(6) /\ Len(text) >= size
          THEN {SubSeq(text, 1, size)} ELSE {}

(* parse_client_setup, and the version test of accept.                     *)
parse_client_setup(data) ==
  LET type == decode_varint(data)
      count == decode_varint(drop(data, type.len))
      from[i \in 0 .. count.val[8]] ==
        IF i = 0 THEN type.len + count.len
        ELSE from[i - 1] + decode_varint(drop(data, from[i - 1])).len
      end == from[count.val[8]]
      role == decode_varint(drop(data, end))
  IN IF type.val # small(1) THEN Err
     ELSE Ok([versions |-> [i \in 1 .. count.val[8] |-> decode_varint(drop(data, from[i - 1])).val],
              role |-> role.val[8], path |-> setup_path(drop(data, end + role.len))])

server_setup_encode(m) == <<2>> \o encode_varint(m.version) \o encode_varint(small(m.role))

server_setup_decode(data) ==
  LET type == decode_varint(data)
      version == decode_varint(drop(data, type.len))
      role == decode_varint(drop(data, type.len + version.len))
  IN IF type.val # small(2) THEN Err
     ELSE Ok([version |-> version.val, role |-> role.val[8],
              path |-> setup_path(drop(data, type.len + version.len + role.len))])

----------------------------------------------------------------------------
(* encode_varint of masque.rs: seven bits to a byte, the lowest first.     *)
encode_leb128(n) ==
  IF n < 128 THEN <<n>>
  ELSE IF n < 16384 THEN <<128 + (n % 128), n \div 128>>
  ELSE <<128 + (n % 128), 128 + ((n \div 128) % 128), n \div 16384>>

encode_datagram_capsule(packet) == <<0>> \o encode_leb128(1 + Len(packet)) \o <<0>> \o packet

(* decode_datagram_capsule reads the length with the other varint.         *)
decode_datagram_capsule(data) ==
  LET type == decode_varint(data)
      size == decode_varint(drop(data, type.len))
      id == decode_varint(drop(data, type.len + size.len))
      pos == type.len + size.len + id.len
      huge == SubSeq(size.val, 1, 5) # Zeros(5)
      end == pos + (size.val[6] * 65536 + size.val[7] * 256 + size.val[8]) - id.len
  IN IF type.val # Zeros(8) THEN Err
     ELSE IF huge \/ end > Len(data) THEN Err
     ELSE IF end < pos THEN Panic
     ELSE Ok(SubSeq(data, pos + 1, end))

----------------------------------------------------------------------------
(* A character of base64 is 0 .. 63, and 64 the padding.                   *)
base64_encode(data) ==
  LET at(i) == IF i <= Len(data) THEN data[i] ELSE 0
      triple(k) == at(3 * k + 1) * 65536 + at(3 * k + 2) * 256 + at(3 * k + 3)
      quad(k) == <<triple(k) \div 262144, (triple(k) \div 4096) % 64,
                   IF 3 * k + 2 <= Len(data) THEN (triple(k) \div 64) % 64 ELSE 64,
                   IF 3 * k + 3 <= Len(data) THEN triple(k) % 64 ELSE 64>>
  IN [i \in 1 .. 4 * ((Len(data) + 2) \div 3) |-> quad((i - 1) \div 4)[((i - 1) % 4) + 1]]

(* The loop shifts in six bits for a character and takes a byte out as     *)
(* soon as there are eight: the byte j ends up with the bits 8j .. 8j + 7. *)
base64_decode(text) ==
  LET chars == SelectSeq(text, LAMBDA c : c < 64)
      c(q, i) == chars[4 * q + i]
      byte(q, i) == CASE i = 0 -> c(q, 1) * 4 + (c(q, 2) \div 16)
                      [] i = 1 -> (c(q, 2) % 16) * 16 + (c(q, 3) \div 4)
                      [] i = 2 -> (c(q, 3) % 4) * 64 + c(q, 4)
  IN [j \in 1 .. (6 * Len(chars)) \div 8 |-> byte((j - 1) \div 3, (j - 1) % 3)]

(* base64url of jwt.rs, which writes the characters themselves and no      *)
(* padding: CHARSET, and DECODE_TABLE with 64 for the -1 of a byte that is *)
(* none of them.                                                           *)
CHARSET(i) ==
  CASE i < 26 -> 65 + i [] i \in 26 .. 51 -> 97 + (i - 26) [] i \in 52 .. 61 -> 48 + (i - 52)
    [] i = 62 -> 45 [] i = 63 -> 95

DECODE_TABLE(c) ==
  CASE c \in 65 .. 90 -> c - 65 [] c \in 97 .. 122 -> (c - 97) + 26
    [] c \in 48 .. 57 -> (c - 48) + 52 [] c = 45 -> 62 [] c = 95 -> 63 [] OTHER -> 64

base64url_encode(data) ==
  LET chars == SelectSeq(base64_encode(data), LAMBDA c : c < 64)
  IN [i \in DOMAIN chars |-> CHARSET(chars[i])]

base64url_decode(text) ==
  LET vals == [i \in DOMAIN text |-> DECODE_TABLE(text[i])]
  IN IF 64 \in Range(vals) THEN Err ELSE Ok(base64_decode(vals))

(* What the signature of a token covers: both texts with their lengths.    *)
signing_message(t) ==
  LET u32(n) == <<0, 0, n \div 256, n % 256>>
  IN u32(Len(t.peer_id)) \o t.peer_id \o u32(Len(t.proxy_url)) \o t.proxy_url
       \o t.expires_at \o t.issued_at

token_encode(t) ==
  LET u16(n) == <<n \div 256, n % 256>>
  IN base64_encode(u16(Len(t.peer_id)) \o t.peer_id \o u16(Len(t.proxy_url)) \o t.proxy_url
                     \o t.expires_at \o t.issued_at \o t.signature)

SignatureLength == 64

(* read_u16_be, read_string and read_u64_be in a row: each fails where the *)
(* bytes end, so all succeed iff the last one does.                        *)
token_decode(text) ==
  LET buf == base64_decode(text)
      u16(pos) == IF Len(buf) < pos + 2 THEN 65536 ELSE buf[pos + 1] * 256 + buf[pos + 2]
      url_at == 2 + u16(0)
      times == url_at + 2 + u16(url_at)
  IN IF Len(buf) # times + 16 + SignatureLength THEN Err
     ELSE Ok([peer_id |-> SubSeq(buf, 3, url_at), proxy_url |-> SubSeq(buf, url_at + 3, times),
              expires_at |-> SubSeq(buf, times + 1, times + 8),
              issued_at |-> SubSeq(buf, times + 9, times + 16),
              signature |-> drop(buf, times + 16)])

(* The token that the signaling server issues: a protobuf message with     *)
(* the peer to be called instead of the proxy.                             *)
issue_proxy_token(t) ==
  LET text(tag, s) == <<tag>> \o encode_leb128(Len(s)) \o s
  IN base64_encode(text(10, t.peer_id) \o text(18, t.target_peer_id)
                     \o <<24>> \o encode_leb128(t.issued_at)
                     \o <<32>> \o encode_leb128(60) \o text(42, t.signature))

----------------------------------------------------------------------------
Packets == {<<h>> \o [i \in 1 .. n - 1 |-> 7] : n \in Sizes, h \in Heads} \cup {<< >>}
Texts == {<<97>>, <<97, 98>>, <<98>>, << >>}

Datagrams ==
  [alias : {<<0, 0, 0, 7>>, <<255, 0, 1, 64>>}, seq : U64s, timestamp : U64s,
   payload : {<< >>, <<64>>, <<200, 1>>}]
ClientSetups ==
  [versions : {<<v>> : v \in Versions} \cup {<<v, w>> : v, w \in Versions} \cup {<< >>},
   role : {3}, path : {{}, {<<97, 98>>}}]
ServerSetups == [version : Versions, role : {3}]
Tokens ==
  [peer_id : Texts, proxy_url : Texts, expires_at : {small(300)}, issued_at : {small(0), small(97)},
   signature : {[i \in 1 .. SignatureLength |-> i]}]
JwtParts == UNION {[1 .. n -> {0, 7, 251, 255}] : n \in 1 .. 4}
PeerIds == {[i \in 1 .. 64 |-> 97], [i \in 1 .. 64 |-> 48]}
ServerTokens ==
  [peer_id : PeerIds, target_peer_id : PeerIds, issued_at : {100, 20000},
   signature : {[i \in 1 .. SignatureLength |-> i]}]

Values(f) ==
  CASE f = "datagram" -> Datagrams
    [] f = "client_setup" -> ClientSetups
    [] f = "server_setup" -> ServerSetups
    [] f = "capsule" -> Packets
    [] f = "token" -> Tokens
    [] f = "server_token" -> ServerTokens
    [] f = "jwt" -> JwtParts

Written(f, x) ==
  CASE f = "datagram" -> datagram_encode(x)
    [] f = "client_setup" -> client_setup_encode(x)
    [] f = "server_setup" -> server_setup_encode(x)
    [] f = "capsule" -> encode_datagram_capsule(x)
    [] f = "token" -> token_encode(x)
    [] f = "server_token" -> issue_proxy_token(x)
    [] f = "jwt" -> base64url_encode(x)

ReadBack(f, b) ==
  CASE f = "datagram" -> datagram_decode(b)
    [] f = "client_setup" -> parse_client_setup(b)
    [] f = "server_setup" -> server_setup_decode(b)
    [] f = "capsule" -> decode_datagram_capsule(b)
    [] f \in {"token", "server_token"} -> token_decode(b)
    [] f = "jwt" -> base64url_decode(b)

Formats ==
  {"datagram", "client_setup", "server_setup", "capsule", "token", "server_token", "jwt"}

Init ==
  /\ format \in Formats
  /\ value \in Values(format)
  /\ bytes = << >> /\ read = NotRead

Write ==
  /\ bytes = << >>
  /\ bytes' = Written(format, value)
  /\ UNCHANGED <<format, value, read>>

(* One read of the control stream may return less than was written.        *)
Cut ==
  /\ bytes # << >> /\ read = NotRead /\ format \in {"client_setup", "server_setup"}
  /\ \E n \in 1 .. Len(bytes) - 1 : bytes' = SubSeq(bytes, 1, n)
  /\ UNCHANGED <<format, value, read>>

Read ==
  /\ bytes # << >> /\ read = NotRead
  /\ read' = ReadBack(format, bytes)
  /\ UNCHANGED <<format, value, bytes>>

Next == Write \/ Cut \/ Read

Spec == Init /\ [][Next]_vars

----------------------------------------------------------------------------
Whole == bytes = Written(format, value)
Fits(v) == v[1] < 64

(* A datagram, a setup message, a proxy token and a part of a JWT are read *)
(* as they were written, with every sequence number and timestamp below    *)
(* 2^62.                                                                   *)
ReadAsWritten ==
  (read # NotRead /\ Whole) =>
    CASE format = "datagram" -> (Fits(value.seq) /\ Fits(value.timestamp)) => read = Ok(value)
      [] format = "server_setup" ->
           read = Ok([version |-> value.version, role |-> value.role, path |-> {}])
      [] format \in {"capsule", "server_token"} -> TRUE
      [] OTHER -> read = Ok(value)

(* A setup message that was cut short before the end of its versions is    *)
(* taken for one that does not offer or select DRAFT_17.                   *)
CutIsRefused ==
  (read # NotRead /\ ~Whole) =>
    \A m \in read.val :
      CASE format = "client_setup" ->
             DRAFT_17 \in Range(m.versions) => DRAFT_17 \in Range(value.versions)
        [] format = "server_setup" -> m.version = DRAFT_17 => value.version = DRAFT_17
        [] OTHER -> TRUE

(* What comes out of a capsule is the packet that went in, or nothing.     *)
(* Packets of at most 62 bytes do come out: above that the two varints     *)
(* differ, although the comment of decode_h2_varint says they are the same.*)
CapsuleExact ==
  (format = "capsule" /\ read # NotRead) =>
    read = (IF Len(value) <= 62 THEN Ok(value) ELSE IF Len(value) = 63 THEN Panic ELSE Err)

(* Two tokens whose signatures cover the same bytes are the same token.    *)
SignsOneToken ==
  (format = "token") =>
    \A t \in Tokens : signing_message(t) = signing_message(value) => t = value

(* ProxyToken::decode refuses what the signaling server issues: the two    *)
(* agree on the name only.                                                 *)
ServerTokenUnread == (format = "server_token" /\ read # NotRead) => read = Err
=============================================================================
