------------------------------ MODULE MCGuards ------------------------------
(***************************************************************************)
(* The guards with windows of a tick and a day of three, so that both the  *)
(* minute and the day turn while requests come in.  A limit of two, since  *)
(* a limit of one leaves a window nothing but the request that opened it,  *)
(* and no minute could straddle two.  Callers are interchangeable.         *)
(***************************************************************************)
EXTENDS Guards, TLC

Symmetry == Permutations(IPs)
=============================================================================
