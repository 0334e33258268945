-------------------------- MODULE MCSessionRegistry --------------------------
(* Instances of SessionRegistry for TLC.                                     *)
EXTENDS SessionRegistry

CONSTANTS c1, c2, d1, d2

\* A peer that may verify as either device, and another one of the first.
BothDevices == [c \in Conn |-> IF c = c1 THEN {d1, d2} ELSE {d1}]

\* A peer that verifies again, as itself or as the other device.
VerifyAgain == [c \in Conn |-> IF c = c1 THEN 2 ELSE 1]
=============================================================================
