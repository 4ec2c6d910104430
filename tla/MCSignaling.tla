---------------------------- MODULE MCSignaling ----------------------------
(* Instances of SignalingServer for TLC. *)
EXTENDS SignalingServer, TLC

CONSTANTS alice, bob, carol, s1, s2, c1, c2

\* One session of alice and one of bob.
OneEach == (s1 :> alice) @@ (s2 :> bob)

\* One session of alice.
AliceOnce == s1 :> alice

\* alice connects twice.
AliceOnly == (s1 :> alice) @@ (s2 :> alice)

=============================================================================
