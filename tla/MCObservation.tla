---------------------------- MODULE MCObservation ----------------------------
(* Instances of Observation for TLC.                                         *)
EXTENDS Observation, TLC

CONSTANTS o1, o2

Observers == Permutations(Observer)
=============================================================================
