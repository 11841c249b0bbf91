------------------------ MODULE MCCommitmentService ------------------------
(***************************************************************************)
(* Model-checking instances of CommitmentService.                          *)
(***************************************************************************)
EXTENDS CommitmentService, TLC

\* The nodes play the same part until they act.  Only for runs without liveness.
AddressSymmetry == Permutations(Addresses)
=============================================================================
