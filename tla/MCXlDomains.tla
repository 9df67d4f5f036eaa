----------------------------- MODULE MCXlDomains -----------------------------
(***************************************************************************)
(* An instance of XlDomains for TLC.                                       *)
(***************************************************************************)
EXTENDS XlDomains, TLC

\* One that uses most actions.
OneConfig == {[poweroff |-> "coredump-destroy", reboot |-> "rename-restart", crash |-> "restart"]}
=============================================================================
