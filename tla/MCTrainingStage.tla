---------------------------- MODULE MCTrainingStage ----------------------------
(* The two datasets of the repository, trained in the order of the code.     *)
EXTENDS TrainingStage

TwoInOrder == <<"nbaiot", "botiot">>
=============================================================================
