-------------------------- MODULE MCDaemonService --------------------------
(***************************************************************************)
(* Small daemons for TLC.                                                  *)
(***************************************************************************)
EXTENDS DaemonService, TLC

Symmetry == Permutations(Lease) \cup Permutations(Request) \cup Permutations(WorkspaceLease)
=============================================================================
