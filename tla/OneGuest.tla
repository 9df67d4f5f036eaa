------------------------------ MODULE OneGuest ------------------------------
(***************************************************************************)
(* What migrating a guest promises, whatever becomes of the hosts' xl and  *)
(* of the connection between them: the guest runs as one copy at a time,   *)
(* and once a newer copy has run no older one does.                        *)
(***************************************************************************)
EXTENDS Integers

VARIABLES
  holder,     \* the newest copy that has run
  runs        \* how many copies run

Init == holder = 1 /\ runs = 1

Stops == runs = 1 /\ runs' = 0 /\ holder' = holder
Resumes == runs = 0 /\ runs' = 1 /\ holder' = holder
HandsOver == runs = 0 /\ runs' = 1 /\ holder' > holder

Next == Stops \/ Resumes \/ HandsOver

Spec == Init /\ [][Next]_<<holder, runs>>
=============================================================================
