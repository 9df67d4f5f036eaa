------------------------------ MODULE JobSlots ------------------------------
(***************************************************************************)
(* What the job API of the libxl driver promises to the operations on one  *)
(* domain, with no locks, queues, or waiting: at most one normal job and   *)
(* at most one asynchronous job run at a time, a normal job starts beside  *)
(* an asynchronous one only if the mask of the latter lets it, and an      *)
(* asynchronous job starts only on a domain nobody works on.               *)
(***************************************************************************)
CONSTANTS Threads, Kinds, AsyncKinds, DefaultMask

VARIABLES
  normal,   \* <<thread, kind>> of the normal jobs that run
  async,    \* <<thread, kind>> of the asynchronous jobs that run
  mask      \* the kinds of normal job the asynchronous job lets start

slots == <<normal, async, mask>>

Init ==
  /\ normal = {}
  /\ async = {}
  /\ mask = {}

StartNormal(t, k) ==
  /\ normal = {}
  /\ async = {} \/ k \in mask
  /\ normal' = {<<t, k>>}
  /\ UNCHANGED <<async, mask>>

StartAsync(t, k) ==
  /\ normal = {}
  /\ async = {}
  /\ async' = {<<t, k>>}
  /\ mask' = DefaultMask
  /\ UNCHANGED normal

\* The owner of the asynchronous job decides what may run beside it.
SetMask(m) ==
  /\ async # {}
  /\ mask' = m
  /\ UNCHANGED <<normal, async>>

EndNormal ==
  /\ normal # {}
  /\ normal' = {}
  /\ UNCHANGED <<async, mask>>

EndAsync ==
  /\ async # {}
  /\ async' = {}
  /\ mask' = DefaultMask
  /\ UNCHANGED normal

Next ==
  \/ \E t \in Threads, k \in Kinds : StartNormal(t, k)
  \/ \E t \in Threads, k \in AsyncKinds : StartAsync(t, k)
  \/ \E m \in SUBSET Kinds : SetMask(m)
  \/ EndNormal
  \/ EndAsync

Spec == Init /\ [][Next]_slots
=============================================================================
