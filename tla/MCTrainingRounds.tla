-------------------------- MODULE MCTrainingRounds --------------------------
(* An instance of TrainingRounds alone, for TLC. *)
EXTENDS TrainingRounds

CONSTANTS p1, p2, a1, a2
=============================================================================
