---------------------------- MODULE AudioPipeline ----------------------------
(***************************************************************************)
(* The audio pipeline of a call (pipeline.rs): a remote pipeline encodes   *)
(* frames into numbered datagrams, the network loses, repeats and reorders *)
(* them, and the local pipeline keeps them in its jitter buffer until they *)
(* are due.  The local clock is the time stamp of the local encoder, which *)
(* moves only when a local frame is encoded.                               *)
(*                                                                         *)
(* Both counters of a pipeline move together, so a datagram is known by    *)
(* its sequence number.                                                    *)
(***************************************************************************)
EXTENDS Integers, Sequences, FiniteSetsExt

CONSTANTS
  FrameSize,    \* samples in a frame: 960
  SampleRate,   \* in thousands of samples per second: 48
  TargetMs,     \* jitter_target_ms: 20
  MaxFrames,    \* bound on the frames encoded at each end
  MaxArrivals   \* bound on the datagrams taken into the buffer

VARIABLES
  sequence,     \* the remote pipeline's counter
  timestamp,    \* the local pipeline's counter
  jitter_buffer,
  last_playback_ts,
  played        \* what drain_buffer returned so far (history)

vars == <<sequence, timestamp, jitter_buffer, last_playback_ts, played>>

None == -1
Ts(d) == d.seq * FrameSize
jitter_target_samples == SampleRate * TargetMs
saturating_sub(a, b) == Max({a - b, 0})

Init ==
  /\ sequence = 0
  /\ timestamp = 0
  /\ jitter_buffer = << >>
  /\ last_playback_ts = None
  /\ played = << >>

(* A PCM slice that is too short, or that Opus cannot encode, is an error  *)
(* before the counters move.                                               *)
encode_frame(samples, opus_ok) == samples >= FrameSize /\ opus_ok

EncodeRemote(samples, opus_ok) ==
  /\ sequence < MaxFrames
  /\ sequence' = IF encode_frame(samples, opus_ok) THEN sequence + 1 ELSE sequence
  /\ UNCHANGED <<timestamp, jitter_buffer, last_playback_ts, played>>

EncodeLocal(samples, opus_ok) ==
  /\ timestamp < MaxFrames * FrameSize
  /\ timestamp' = IF encode_frame(samples, opus_ok) THEN timestamp + FrameSize ELSE timestamp
  /\ UNCHANGED <<sequence, jitter_buffer, last_playback_ts, played>>

insert_pos_last(q) == Len(jitter_buffer) + 1

(* Before the first datagram with a higher number, or at the end.          *)
insert_pos(q) ==
  Min({i \in 1 .. Len(jitter_buffer) : jitter_buffer[i].seq > q} \cup {Len(jitter_buffer) + 1})

(* Datagram q arrives, for the first time or again.  after (history): how  *)
(* many had been played by then.                                           *)
buffer_incoming(q) ==
  /\ Len(played) + Len(jitter_buffer) < MaxArrivals
  /\ \A i \in 1 .. Len(jitter_buffer) : jitter_buffer[i].seq # q
  /\ LET pos == insert_pos(q)
     IN jitter_buffer' = SubSeq(jitter_buffer, 1, pos - 1) \o <<[seq |-> q, after |-> Len(played)]>>
                           \o SubSeq(jitter_buffer, pos, Len(jitter_buffer))
  /\ UNCHANGED <<sequence, timestamp, last_playback_ts, played>>

(* last_playback_ts does not move within the loop.                         *)
should_drain(front) ==
  \/ saturating_sub(last_playback_ts, Ts(front)) >= jitter_target_samples
  \/ saturating_sub(timestamp, Ts(front)) >= 2 * jitter_target_samples

(* How many the loop takes from the front.                                 *)
Ready ==
  IF last_playback_ts = None THEN Max({Len(jitter_buffer) - 1, 0})
  ELSE Max({n \in 0 .. Len(jitter_buffer) : \A i \in 1 .. n : should_drain(jitter_buffer[i])})

drain_buffer ==
  /\ played' = played \o SubSeq(jitter_buffer, 1, Ready)
  /\ jitter_buffer' = SubSeq(jitter_buffer, Ready + 1, Len(jitter_buffer))
  /\ last_playback_ts' = IF Ready > 0 THEN Ts(jitter_buffer[Ready]) ELSE last_playback_ts
  /\ UNCHANGED <<sequence, timestamp>>

Next ==
  \/ \E samples \in {FrameSize - 1, FrameSize}, opus_ok \in BOOLEAN :
       EncodeRemote(samples, opus_ok) \/ EncodeLocal(samples, opus_ok)
  \/ \E q \in 0 .. sequence - 1 : buffer_incoming(q)
  \/ drain_buffer

Spec == Init /\ [][Next]_vars

----------------------------------------------------------------------------
Datagrams == [seq : 0 .. MaxFrames - 1, after : 0 .. MaxArrivals]

TypeOK ==
  /\ sequence \in 0 .. MaxFrames
  /\ timestamp \in {n * FrameSize : n \in 0 .. MaxFrames}
  /\ jitter_buffer \in Seq(Datagrams) /\ played \in Seq(Datagrams)
  /\ last_playback_ts \in {None} \cup {n * FrameSize : n \in 0 .. MaxFrames}

(* Datagrams are played in the order of their numbers, over any number of  *)
(* drain_buffer calls, except for one that arrived (late, or again) after  *)
(* the other had been played.                                              *)
PlaysInOrder ==
  \A i, j \in 1 .. Len(played) :
    (i < j /\ played[j].after < i) => played[i].seq < played[j].seq

(* Once playback has begun, drain_buffer leaves nothing in the buffer that *)
(* is two jitter targets older than the local clock.                       *)
DrainLeavesNothingDue ==
  last_playback_ts # None =>
    \A i \in Ready + 1 .. Len(jitter_buffer) :
      timestamp - Ts(jitter_buffer[i]) < 2 * jitter_target_samples
=============================================================================
