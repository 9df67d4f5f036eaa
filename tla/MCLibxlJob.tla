----------------------------- MODULE MCLibxlJob -----------------------------
(***************************************************************************)
(* Instances of LibxlJob for TLC.                                          *)
(***************************************************************************)
EXTENDS LibxlJob, TLC

Normal(j, driver) == [job |-> j, asyncJob |-> "none", withDriver |-> driver, removes |-> FALSE]
Async(a) == [job |-> "async", asyncJob |-> a, withDriver |-> TRUE, removes |-> FALSE]

\* libxlDomainDestroyFlags of a transient domain, libxlDomainUndefineFlags.
DestroyTransient == [job |-> "destroy", asyncJob |-> "none", withDriver |-> TRUE, removes |-> TRUE]
Undefine == [job |-> "none", asyncJob |-> "none", withDriver |-> TRUE, removes |-> TRUE]

\* One call of each shape of the driver.
AllCalls == {Normal("modify", FALSE), Normal("abort", FALSE), Async("save"),
             Async("migration in"), DestroyTransient, Undefine}
\* Calls on a persistent domain, which stays on the list.
PersistentCalls == {Normal("modify", TRUE), Async("save"), Normal("destroy", TRUE)}
FewCalls == {Normal("modify", TRUE), Normal("abort", FALSE), Async("migration out"), DestroyTransient}
=============================================================================
