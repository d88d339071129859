----------------------- MODULE MCCreatureObservation -----------------------
(* Small instances of CreatureObservation for TLC.                             *)
EXTENDS CreatureObservation, TLC

CONSTANTS c1, c2

MCSymmetry == Permutations(Conns)
=============================================================================
