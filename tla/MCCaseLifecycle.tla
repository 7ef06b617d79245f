--------------------------- MODULE MCCaseLifecycle ---------------------------
(* Instances of CaseLifecycle for TLC. *)
EXTENDS CaseLifecycle, TLC

WorkerSymmetry == Permutations(Workers)
==============================================================================
