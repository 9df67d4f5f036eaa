----------------------------- MODULE MCXlDevices -----------------------------
(***************************************************************************)
(* An instance of XlDevices for TLC.                                       *)
(***************************************************************************)
EXTENDS XlDevices, TLC

CONSTANTS empty, file, lost, disk

\* A medium of each kind, and one of each exception.
MCKindOf == (empty :> "vbd") @@ (file :> "qdisk") @@ (lost :> "vbd") @@ (disk :> "qdisk")
=============================================================================
