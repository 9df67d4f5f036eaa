-------------------------- MODULE MCLibxlMigration --------------------------
(***************************************************************************)
(* Instances of LibxlMigration for TLC.                                    *)
(***************************************************************************)
EXTENDS LibxlMigration, TLC

EveryFlag == {TRUE, FALSE}
NotPaused == {FALSE}
ClientSymmetry == Permutations(Clients)
=============================================================================
