-------------------------- MODULE MCTextAdmission --------------------------
(* An instance of TextAdmission: two workers, which are alike. *)
EXTENDS TextAdmission, TLC

CONSTANTS gpu0, gpu1

MCWorker == {gpu0, gpu1}
Symmetric == Permutations(MCWorker)
=============================================================================
