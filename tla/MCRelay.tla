------------------------------ MODULE MCRelay ------------------------------
(* Instances of Relay for TLC. *)
EXTENDS Relay

CONSTANTS c1, c2, b1, b2, a1, a2, w1, r1
=============================================================================
