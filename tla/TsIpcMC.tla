------------------------------ MODULE TsIpcMC ------------------------------
(* Instances of TsIpc for TLC. *)
EXTENDS TsIpc, TLC

\* Callers run the same code and are only compared with each other.
CallerSymmetry == Permutations(Callers)
=============================================================================
