---------------------------- MODULE MCLibxlConfig ----------------------------
(***************************************************************************)
(* An instance of LibxlConfig for TLC.                                     *)
(***************************************************************************)
EXTENDS LibxlConfig, TLC

Symmetry == Permutations(Sources) \cup Permutations(Threads)
=============================================================================
