------------------------------ MODULE MCXlPools ------------------------------
(***************************************************************************)
(* An instance of XlPools for TLC.                                         *)
(***************************************************************************)
EXTENDS XlPools, TLC

CONSTANTS na, nb

\* Two nodes, the first of two CPUs.
MCNodeOf == (0 :> 0) @@ (1 :> 0) @@ (2 :> 1)
MCSymmetry == Permutations(Procs)
MCCalled == (0 :> na) @@ (1 :> nb)
=============================================================================
