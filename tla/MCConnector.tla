---------------------------- MODULE MCConnector ----------------------------
(* A small instance of Connector for TLC.                                  *)
EXTENDS Connector, TLC

CONSTANT MaxEvents  \* bound on calls and faults together

MCSpec == Init /\ [][Next /\ calls' + faults' <= MaxEvents]_vars

Symmetry == Permutations(Call)
=============================================================================
