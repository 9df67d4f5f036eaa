----------------------------- MODULE MCXlMemory -----------------------------
(***************************************************************************)
(* An instance of XlMemory for TLC.                                        *)
(***************************************************************************)
EXTENDS XlMemory, TLC

CONSTANTS d0, g1, g2

\* Nine units: domain 0 has most of them, a guest with video memory the rest.
MCSize == (d0 :> 6) @@ (g1 :> 2) @@ (g2 :> 0)
MCTop == (d0 :> 6) @@ (g1 :> 4) @@ (g2 :> 0)
MCVideoram == (g1 :> 1) @@ (g2 :> 0)
=============================================================================
