------------------------------- MODULE MCPaid -------------------------------
(***************************************************************************)
(* Concurrent paid calls.  Calls are interchangeable.                      *)
(***************************************************************************)
EXTENDS PaidDecision, TLC

Symmetry == Permutations(Calls)
=============================================================================
