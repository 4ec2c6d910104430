------------------------------ MODULE MoqPart ------------------------------
(* The MoQ sessions as a part of MCCalls, kept apart from the others so that *)
(* their proofs need not see those.                                         *)
EXTENDS Naturals

CONSTANTS Scenes, Window

VARIABLES side, pc, air

Moq == INSTANCE MoqSession

\* The client calls setup and the server accept, on sessions of their own.
ASSUME MoqAssumption ==
  \A t \in Moq!Tasks :
    /\ t[1] \in Moq!Ends /\ t[3] \in Nat
    /\ t[2] = "setup" => t[1] = "client"
    /\ t[2] = "accept" => t[1] = "server"
=============================================================================
