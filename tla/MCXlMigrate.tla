----------------------------- MODULE MCXlMigrate -----------------------------
(***************************************************************************)
(* An instance of XlMigrate for TLC.                                       *)
(***************************************************************************)
EXTENDS XlMigrate, TLC
=============================================================================
