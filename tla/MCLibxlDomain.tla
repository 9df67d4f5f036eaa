---------------------------- MODULE MCLibxlDomain ----------------------------
(***************************************************************************)
(* Instances of LibxlDomain for TLC.                                       *)
(***************************************************************************)
EXTENDS LibxlDomain

EveryOp == AllOps
UndefineOps == AllOps \ {"define", "suspend"}
EveryFailure == {"create", "late", "events", "after"}
SomeFailures == {"create", "late"}
=============================================================================
