----------------------------- MODULE MCStreaming -----------------------------
(***************************************************************************)
(* Instances of Streaming: sockets of one DID or of two, on one mediator   *)
(* or on two.                                                              *)
(***************************************************************************)
EXTENDS Streaming

CONSTANTS alice, bob, c1, c2, c3, m1, m2

SameDid == [c \in Sockets |-> alice]
BobHasOne == [c \in Sockets |-> IF c = c3 THEN bob ELSE alice]
OneHome == [c \in Sockets |-> m1]
TwoHomes == [c \in Sockets |-> IF c = c1 THEN m1 ELSE m2]
==============================================================================
