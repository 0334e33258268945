----------------------------- MODULE MCOutcome -----------------------------
(* Outcome with user calls as model values, which are interchangeable. *)
EXTENDS Outcome, TLC

CONSTANTS u1, u2

Users == Permutations(User)
=============================================================================
