---------------------------- MODULE MCTrainingJob ----------------------------
(* Small instances of TrainingJob.                                         *)
EXTENDS TrainingJob, TLC

(* Clients are alike; a dataset that is packaged is not like one that is   *)
(* trained on.                                                             *)
Symmetry == Permutations(Clients) \cup Permutations(Datasets \ Faces)
=============================================================================
