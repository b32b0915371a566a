-------------------------- MODULE MCStatusService ---------------------------
(* An instance of StatusService for TLC.                                   *)
EXTENDS StatusService, TLC

Symmetric == Permutations(Addresses)

=============================================================================
