---------------------------- MODULE MCRaidexNode ----------------------------
(***************************************************************************)
(* Model-checking instances of RaidexNode.                                 *)
(***************************************************************************)
EXTENDS RaidexNode, TLC

\* The peers play the same part until they act.  Only for runs without liveness.
PeerSymmetry == Permutations(Peers)
=============================================================================
