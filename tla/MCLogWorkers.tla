---------------------------- MODULE MCLogWorkers ----------------------------
(***************************************************************************)
(* Several log workers for TLC: they are started alike, and which of them  *)
(* geard gives a job to makes no difference.                               *)
(***************************************************************************)
EXTENDS LogWorker, TLC

AlikeWorkers == Permutations(Workers)

=============================================================================
