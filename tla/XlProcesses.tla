---------------------------- MODULE XlProcesses ----------------------------
(***************************************************************************)
(* What the specifications of xl have in common.  Each run of xl is a      *)
(* process, that goes from place to place in the code as it is given a     *)
(* command; a place is between two accesses to what processes share.       *)
(***************************************************************************)
EXTENDS Integers

CONSTANTS
  Procs,      \* runs of xl
  MaxCalls    \* bound: commands given

VARIABLES
  proc,       \* the processes: where each is, and what it has
  calls       \* commands given so far

Go(p, r) == proc' = [proc EXCEPT ![p] = r]
Given == calls < MaxCalls /\ calls' = calls + 1
=============================================================================
