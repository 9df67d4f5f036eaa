------------------------ MODULE LibxlConfig_proofs ------------------------
(***************************************************************************)
(* Proofs about LibxlConfig: the live definition of the listed domain has  *)
(* the disks of its guest, a save file has those of the guest it was made  *)
(* of, and each step of the driver with jobs is one the driver with a single *)
(* lock may take, or that of a thread that is astray.  The first sections are *)
(* about the operators of LibxlOldDriver, whatever object they are applied *)
(* to; then come the threads, the invariant, and the actions one by one.   *)
(***************************************************************************)
EXTENDS LibxlConfig, TLAPS

\* The fields of an object with its files and guests.
Fields == {"listed", "persistent", "autostart", "id", "state", "def", "newDef", "config", "link",
           "status", "saves", "xen", "lost", "half", "orphans"}

\* The driver has made guest i, or i is none; and it still answers for it.
Known(s, i) == i = 0 \/ (i \in DomIds /\ s.xen[i].state # "unused")
Theirs(s, i) == Old!Exists(s, i) /\ i \notin s.orphans

Typed(s) ==
  /\ DOMAIN s = Fields
  /\ s.saves \in [Old!Paths -> Old!SaveFiles \cup {NoDef}] /\ DOMAIN s.xen = DomIds
  /\ \A i \in DomIds : DOMAIN s.xen[i] = {"state", "disks"} /\ DOMAIN s.xen[i].disks = Old!Targets
  /\ s.listed => s.def \in Old!Defs
  /\ s.newDef # NoDef => s.newDef \in Old!Defs
  /\ s.config # NoDef => s.config \in Old!Defs
  /\ s.status # NoDef => s.status.def \in Old!Defs /\ Known(s, s.status.id)
  /\ Known(s, s.id)

\* What every critical section leaves: the live definition has the disks of the
\* guest (but for what libxl_cdrom_insert did half), the file in stateDir is of no
\* other guest the driver answers for, and an object off the list has no guest.
Good(s) ==
  /\ s.listed /\ Theirs(s, s.id) /\ ~s.lost => Old!HasDisksOf(s, s.def, s.id)
  /\ s.status # NoDef /\ Theirs(s, s.status.id) => s.listed /\ s.id = s.status.id
  /\ s.listed \/ s.id = 0
Fine(s) == Typed(s) /\ Good(s)

\* What holds from one critical section to the next, for threads that wait: a guest
\* that was made stays made, one that is gone stays gone, the guest of the listed
\* object is the same while the driver answers for it, and so are a guest's disks
\* and a save file.
Keeps(s, u) ==
  /\ \A i \in DomIds : s.xen[i].state # "unused" =>
       u.xen[i].state # "unused" /\ (Old!Exists(u, i) => Old!Exists(s, i))
  /\ s.orphans \subseteq u.orphans
  /\ s.listed /\ Theirs(u, s.id) => u.listed /\ u.id = s.id
SameGuest(s, u, i) == u.xen[i].disks = s.xen[i].disks /\ (i \in s.half => i \in u.half)
SameDisks(s, u) == \A i \in DomIds : s.xen[i].state # "unused" => SameGuest(s, u, i)
NoNewFile(s, u) == \A p \in Old!Paths : u.saves[p] \in {s.saves[p], NoDef}
Steps(s, u) == Fine(u) /\ Keeps(s, u) /\ SameDisks(s, u) /\ NoNewFile(s, u)

\* A guest that is new is the object's.
Only(s, u) == \A i \in DomIds : Old!Exists(u, i) => Old!Exists(s, i) \/ i = u.id

LEMMA NoGuestZero == 0 \notin DomIds /\ \A i \in DomIds : i # 0
  BY ConfigAssumption DEF DomIds, Old!DomIds

LEMMA StepsTrans ==
  ASSUME NEW s, NEW u, NEW w, Typed(s), Steps(s, u), Steps(u, w)
  PROVE  Steps(s, w)
<1>1. Keeps(s, w)
  BY NoGuestZero DEF Steps, Fine, Typed, Known, Keeps, Theirs, Old!Exists
<1>2. SameDisks(s, w)
  BY DEF Steps, Keeps, SameDisks, SameGuest
<1>3. NoNewFile(s, w)
  BY DEF Steps, NoNewFile
<1> QED BY <1>1, <1>2, <1>3 DEF Steps

LEMMA StepsSame ==
  ASSUME NEW s, Fine(s)
  PROVE  Steps(s, s)
  BY DEF Fine, Good, Steps, Keeps, SameDisks, SameGuest, NoNewFile

LEMMA SwapDef ==
  ASSUME NEW d \in Old!Defs
  PROVE  /\ [d EXCEPT !.pinned = FALSE] \in Old!Defs
         /\ [d EXCEPT !.pinned = TRUE] \in Old!Defs
         /\ [d EXCEPT !.pinned = FALSE].disks = d.disks
         /\ [d EXCEPT !.pinned = TRUE].disks = d.disks
  BY DEF Old!Defs

LEMMA AssignSteps ==
  ASSUME NEW s, Fine(s), NEW d \in Old!Defs, NEW live
  PROVE  LET u == Old!AssignDef(s, d, live)
         IN  /\ Steps(s, u)
             /\ u.listed /\ u.id = s.id /\ u.orphans = s.orphans /\ u.xen = s.xen /\ u.half = s.half
             /\ u.saves = s.saves /\ u.lost = s.lost
<1> DEFINE u == Old!AssignDef(s, d, live)
<1>1. Typed(u)
  BY DEF Fine, Typed, Known, Old!AssignDef, Old!PersistentDef, Old!Active, Fields
<1>2. /\ u.listed /\ u.id = s.id /\ u.orphans = s.orphans /\ u.xen = s.xen /\ u.half = s.half
      /\ u.saves = s.saves /\ u.lost = s.lost /\ u.status = s.status
      /\ s.listed /\ s.id # 0 => u.def = s.def
  BY DEF Fine, Typed, Old!AssignDef, Old!Active, Fields
<1>3. Good(u) /\ Keeps(s, u)
  BY <1>2 DEF Fine, Good, Old!HasDisksOf, Theirs, Old!Exists, Keeps
<1> QED BY <1>1, <1>2, <1>3 DEF Steps, Fine, SameDisks, SameGuest, NoNewFile

LEMMA RemoveSteps ==
  ASSUME NEW s, Fine(s), ~Theirs(s, s.id)
  PROVE  LET u == Old!RemoveInactive(s)
         IN  /\ Steps(s, u)
             /\ ~u.listed /\ u.id = 0
<1> DEFINE u == Old!RemoveInactive(s)
<1>1. Typed(u)
  BY DEF Fine, Typed, Known, Old!RemoveInactive, Fields
<1>2. /\ ~u.listed /\ u.id = 0 /\ u.orphans = s.orphans /\ u.xen = s.xen /\ u.half = s.half
      /\ u.saves = s.saves /\ u.status = s.status
  BY DEF Fine, Typed, Old!RemoveInactive, Fields
<1>3. Good(u) /\ Keeps(s, u)
  BY <1>2 DEF Fine, Good, Theirs, Old!Exists, Keeps
<1> QED BY <1>1, <1>2, <1>3 DEF Steps, Fine, SameDisks, SameGuest, NoNewFile

LEMMA CleanupSteps ==
  ASSUME NEW s, Fine(s), s.listed, ~Theirs(s, s.id)
  PROVE  LET u == Old!VmCleanup(s)
         IN  /\ Steps(s, u)
             /\ u.listed /\ u.id \in {0, s.id} /\ u.orphans = s.orphans /\ u.xen = s.xen /\ u.half = s.half
             /\ u.saves = s.saves /\ u.status = NoDef /\ ~Theirs(u, u.id)
<1> DEFINE u == Old!VmCleanup(s)
<1>0. s.def \in Old!Defs
  BY DEF Fine, Typed
<1>1. Typed(u)
  BY <1>0, SwapDef DEF Fine, Typed, Known, Old!VmCleanup, Fields
<1>2. /\ u.listed /\ u.id \in {0, s.id} /\ u.orphans = s.orphans /\ u.xen = s.xen /\ u.half = s.half
      /\ u.saves = s.saves /\ u.status = NoDef
  BY DEF Fine, Typed, Old!VmCleanup, Fields
<1>3. Good(u) /\ Keeps(s, u) /\ ~Theirs(u, u.id)
  BY <1>2 DEF Fine, Good, Theirs, Old!Exists, Keeps
<1> QED BY <1>1, <1>2, <1>3 DEF Steps, Fine, SameDisks, SameGuest, NoNewFile

LEMMA GoneSteps ==
  ASSUME NEW s, Fine(s), NEW i \in DomIds, s.xen[i].state # "unused"
  PROVE  LET u == [s EXCEPT !.xen[i].state = "gone"]
         IN  /\ Steps(s, u)
             /\ u.listed = s.listed /\ u.id = s.id /\ u.orphans = s.orphans /\ u.saves = s.saves
             /\ ~Theirs(u, i) /\ u.def = s.def /\ u.newDef = s.newDef /\ u.status = s.status
<1> DEFINE u == [s EXCEPT !.xen[i].state = "gone"]
<1>2. /\ DOMAIN u = Fields /\ DOMAIN u.xen = DomIds
      /\ u.xen[i].state = "gone" /\ u.xen[i].disks = s.xen[i].disks
      /\ DOMAIN u.xen[i] = {"state", "disks"}
      /\ \A j \in DomIds \ {i} : u.xen[j] = s.xen[j]
      /\ u.half = s.half
      /\ u.listed = s.listed /\ u.id = s.id /\ u.orphans = s.orphans /\ u.saves = s.saves
      /\ u.def = s.def /\ u.newDef = s.newDef /\ u.status = s.status /\ u.config = s.config
      /\ u.lost = s.lost
  BY DEF Fine, Typed, Fields
<1> HIDE DEF u
<1>1. Typed(u)
  BY <1>2 DEF Fine, Typed, Known
<1>4. \A j : Old!Exists(u, j) /\ (j = 0 \/ j \in DomIds) => Old!Exists(s, j) /\ j # i
  BY <1>2 DEF Old!Exists, Old!Existing, Old!Stopped
<1>5. ~Old!Exists(u, i)
  BY <1>2 DEF Old!Exists, Old!Existing, Old!Stopped
<1>3. Good(u)
  <2>1. u.listed /\ Theirs(u, u.id) /\ ~u.lost => Old!HasDisksOf(u, u.def, u.id)
    BY <1>1, <1>2, <1>4 DEF Fine, Good, Old!HasDisksOf, Theirs, Typed, Known, Old!Exists
  <2>2. u.status # NoDef /\ Theirs(u, u.status.id) => u.listed /\ u.id = u.status.id
    BY <1>1, <1>2, <1>4 DEF Fine, Good, Theirs, Typed, Known
  <2> QED BY <2>1, <2>2, <1>2 DEF Fine, Good
<1>6. Keeps(s, u)
  BY <1>2, <1>4 DEF Keeps, Theirs, Fine, Typed, Known
<1>7. SameDisks(s, u) /\ NoNewFile(s, u)
  BY <1>2 DEF SameDisks, SameGuest, NoNewFile
<1>8. ~Theirs(u, i)
  BY <1>5 DEF Theirs
<1> QED BY <1>1, <1>2, <1>3, <1>6, <1>7, <1>8 DEF Steps, Fine, u

(***************************************************************************)
(* Starting and stopping a guest.                                          *)
(***************************************************************************)
LEMMA ReapSteps ==
  ASSUME NEW s, Fine(s), s.listed, Old!Exists(s, s.id)
  PROVE  LET u == Old!VmReap(s)
         IN  /\ Steps(s, u)
             /\ u.listed /\ u.id \in {0, s.id} /\ u.orphans = s.orphans
             /\ u.saves = s.saves /\ u.status = NoDef /\ ~Theirs(u, u.id)
<1> DEFINE g == [s EXCEPT !.xen[s.id].state = "gone"]
           u == Old!VmCleanup(g)
<1>1. s.id \in DomIds /\ s.xen[s.id].state # "unused"
  BY DEF Fine, Typed, Known, Old!Exists, Old!Existing, Old!Stopped
<1>2. /\ Steps(s, g)
      /\ g.listed = s.listed /\ g.id = s.id /\ g.orphans = s.orphans /\ g.saves = s.saves
      /\ ~Theirs(g, s.id)
  BY <1>1, GoneSteps
<1> HIDE DEF g
<1>3. Fine(g) /\ g.listed /\ ~Theirs(g, g.id)
  BY <1>2 DEF Steps
<1>4. /\ Steps(g, u)
      /\ u.listed /\ u.id \in {0, g.id} /\ u.orphans = g.orphans
      /\ u.saves = g.saves /\ u.status = NoDef /\ ~Theirs(u, u.id)
  BY <1>3, CleanupSteps
<1> HIDE DEF u
<1>5. Steps(s, u)
  BY <1>2, <1>4, StepsTrans DEF Fine
<1>6. u = Old!VmReap(s)
  BY DEF u, g, Old!VmReap
<1> QED BY <1>2, <1>4, <1>5, <1>6

LEMMA TransientSteps ==
  ASSUME NEW s, Fine(s), ~Theirs(s, s.id)
  PROVE  Steps(s, Old!RemoveTransient(s))
  BY RemoveSteps, StepsSame DEF Old!RemoveTransient

\* Domain n is made, where no other of its name is.
LEMMA MadeSteps ==
  ASSUME NEW s, Fine(s), s.listed, NEW n \in Old!NextUnused(s)
  PROVE  LET u == Old!Made(s, n)
         IN  /\ Steps(s, u)
             /\ u.listed /\ u.id = n /\ n \in DomIds /\ u.xen[n].state = "paused"
             /\ u.xen[n].disks = u.def.disks /\ Only(s, u)
<1> DEFINE u == Old!Made(s, n)
<1>1. n \in DomIds /\ s.xen[n].state = "unused"
  BY DEF Old!NextUnused, Old!Unused, DomIds
<1>7. \A j \in DomIds : ~Old!Exists(s, j)
  BY DEF Old!NextUnused, Old!NameTaken, DomIds
<1>2. /\ DOMAIN u = Fields /\ DOMAIN u.xen = DomIds
      /\ u.xen[n] = [state |-> "paused", disks |-> s.def.disks]
      /\ \A j \in DomIds \ {n} : u.xen[j] = s.xen[j]
      /\ u.half = s.half
      /\ u.listed /\ u.id = n /\ u.orphans = s.orphans /\ u.saves = s.saves
      /\ u.def = s.def /\ u.newDef = s.newDef /\ u.status = s.status /\ u.config = s.config
  BY <1>1 DEF Fine, Typed, Fields, Old!Made
<1> HIDE DEF u
<1>3. Typed(u)
  BY <1>1, <1>2 DEF Fine, Typed, Known, Old!Defs
<1>4. Good(u)
  <2>1. s.status # NoDef => s.status.id # n /\ ~Theirs(s, s.status.id) /\ Known(s, s.status.id)
    BY <1>1, <1>7, NoGuestZero DEF Fine, Typed, Known, Theirs, Old!Exists
  <2>2. u.status # NoDef => ~Theirs(u, u.status.id)
    BY <2>1, <1>2 DEF Theirs, Known, Old!Exists
  <2> QED BY <1>2, <2>2 DEF Good, Old!HasDisksOf
<1>5. Keeps(s, u)
  BY <1>1, <1>2, <1>7 DEF Keeps, Fine, Typed, Known, Theirs, Old!Exists
<1>6. SameDisks(s, u) /\ NoNewFile(s, u)
  BY <1>1, <1>2 DEF SameDisks, SameGuest, NoNewFile
<1>8. Only(s, u)
  BY <1>2 DEF Only, Old!Exists
<1> QED BY <1>1, <1>2, <1>3, <1>4, <1>5, <1>6, <1>8 DEF Steps, Fine, u

LEMMA ErrorSteps ==
  ASSUME NEW s, Fine(s), s.listed, s.id \in DomIds
  PROVE  LET u == Old!StartError(s, s.id)
         IN  /\ Steps(s, u) /\ u.listed /\ ~Theirs(u, u.id)
             /\ \A j \in DomIds : Old!Exists(u, j) => Old!Exists(s, j) /\ j # s.id
<1> DEFINE n == s.id
           u == Old!StartError(s, n)
<1>2. /\ DOMAIN u = Fields /\ DOMAIN u.xen = DomIds
      /\ u.xen[n].state = "gone" /\ u.xen[n].disks = s.xen[n].disks
      /\ DOMAIN u.xen[n] = {"state", "disks"}
      /\ \A j \in DomIds \ {n} : u.xen[j] = s.xen[j]
      /\ u.half = s.half
      /\ u.listed /\ u.id = 0 /\ u.orphans = s.orphans /\ u.saves = s.saves
      /\ u.def = s.def /\ u.newDef = s.newDef /\ u.status = s.status /\ u.config = s.config
  BY DEF Fine, Typed, Fields, Old!StartError
<1> HIDE DEF u
<1>0. s.xen[n].state # "unused"
  BY NoGuestZero DEF Fine, Typed, Known
<1>3. Typed(u)
  BY <1>2 DEF Fine, Typed, Known
<1>1. ~Old!Exists(u, n) /\ \A j \in DomIds : Old!Exists(u, j) => Old!Exists(s, j)
  BY <1>2 DEF Old!Exists, Old!Existing, Old!Stopped
<1>4. Good(u) /\ ~Theirs(u, u.id)
  <2>1. u.status # NoDef => u.status.id = 0 \/ u.status.id \in DomIds
    BY <1>3 DEF Typed, Known
  <2>2. u.status # NoDef => ~Theirs(u, u.status.id)
    BY <2>1, <1>1, <1>2 DEF Theirs, Fine, Good, Old!Exists
  <2>3. ~Theirs(u, u.id)
    BY <1>2 DEF Theirs, Old!Exists
  <2> QED BY <1>2, <2>2, <2>3 DEF Good
<1>5. Keeps(s, u)
  BY <1>0, <1>1, <1>2 DEF Keeps, Theirs
<1>6. SameDisks(s, u) /\ NoNewFile(s, u)
  BY <1>2 DEF SameDisks, SameGuest, NoNewFile
<1> QED BY <1>1, <1>2, <1>3, <1>4, <1>5, <1>6 DEF Steps, Fine, u

\* A guest let run, or left paused, with its status written.
LEMMA RunSteps ==
  ASSUME NEW s, Fine(s), s.listed, s.id \in DomIds, s.xen[s.id].disks = s.def.disks,
         s.xen[s.id].state = "paused", NEW v \in {"running", "paused"}
  PROVE  LET on0 == [s EXCEPT !.state = v, !.xen[s.id].state = v, !.lost = FALSE]
             u == [on0 EXCEPT !.status = [id |-> s.id, def |-> on0.def]]
         IN  Steps(s, u) /\ u.id = s.id /\ \A j \in DomIds : Old!Exists(u, j) => Old!Exists(s, j)
<1> DEFINE n == s.id
           on0 == [s EXCEPT !.state = v, !.xen[n].state = v, !.lost = FALSE]
           u == [on0 EXCEPT !.status = [id |-> n, def |-> on0.def]]
<1>2. /\ DOMAIN u = Fields /\ DOMAIN u.xen = DomIds
      /\ u.xen[n].state = v /\ u.xen[n].disks = s.xen[n].disks
      /\ DOMAIN u.xen[n] = {"state", "disks"}
      /\ \A j \in DomIds \ {n} : u.xen[j] = s.xen[j]
      /\ u.half = s.half
      /\ u.listed /\ u.id = n /\ u.orphans = s.orphans /\ u.saves = s.saves
      /\ u.def = s.def /\ u.newDef = s.newDef /\ u.config = s.config
      /\ u.status = [id |-> n, def |-> s.def]
  BY DEF Fine, Typed, Fields
<1> HIDE DEF u, on0
<1>3. Typed(u)
  BY <1>2 DEF Fine, Typed, Known
<1>4. Good(u)
  BY <1>2 DEF Good, Old!HasDisksOf
<1>5. Keeps(s, u)
  BY <1>2 DEF Keeps, Theirs, Old!Exists, Old!Existing
<1>6. SameDisks(s, u) /\ NoNewFile(s, u)
  BY <1>2 DEF SameDisks, SameGuest, NoNewFile
<1>7. Steps(s, u)
  BY <1>3, <1>4, <1>5, <1>6 DEF Steps, Fine
<1>8. u.id = s.id /\ \A j \in DomIds : Old!Exists(u, j) => Old!Exists(s, j)
  BY <1>2 DEF Old!Exists, Old!Existing
<1> QED BY <1>7, <1>8 DEF u, on0

\* What a start may come to.
LEMMA StartSteps ==
  ASSUME NEW s, Fine(s), s.listed, NEW paused, NEW whole,
         NEW r \in Old!StartDomain(s, paused, whole)
  PROVE  Steps(s, r.s) /\ r.s.listed /\ Only(s, r.s)
<1> DEFINE made(n) == Old!Made(s, n)
           v == IF paused THEN "paused" ELSE "running"
           on0(n) == [made(n) EXCEPT !.state = v, !.xen[n].state = v, !.lost = FALSE]
           runs(n) == [on0(n) EXCEPT !.status = [id |-> n, def |-> on0(n).def]]
<1>1. \/ r = Old!Fail(s)
      \/ \E n \in Old!NextUnused(s) : r = Old!Fail(Old!StartError(made(n), n)) \/ r = Old!Ok(runs(n))
  BY Zenon DEF Old!StartDomain
<1>2. CASE r = Old!Fail(s)
  BY <1>2, StepsSame DEF Old!Fail, Only
<1>3. ASSUME NEW n \in Old!NextUnused(s), r = Old!Fail(Old!StartError(made(n), n)) \/ r = Old!Ok(runs(n))
      PROVE  Steps(s, r.s) /\ r.s.listed /\ Only(s, r.s)
  <2>1. /\ Steps(s, made(n)) /\ made(n).listed /\ made(n).id = n /\ n \in DomIds
        /\ made(n).xen[n].state = "paused" /\ made(n).xen[n].disks = made(n).def.disks
        /\ Only(s, made(n))
    BY MadeSteps
  <2> HIDE DEF made
  <2>2. Fine(made(n))
    BY <2>1 DEF Steps
  <2>3. CASE r = Old!Fail(Old!StartError(made(n), n))
    <3>1. /\ Steps(made(n), Old!StartError(made(n), n))
          /\ Old!StartError(made(n), n).listed
          /\ \A j \in DomIds : Old!Exists(Old!StartError(made(n), n), j) => Old!Exists(made(n), j) /\ j # n
      BY <2>1, <2>2, ErrorSteps
    <3>2. r.s = Old!StartError(made(n), n)
      BY <2>3 DEF Old!Fail
    <3>3. Only(s, r.s)
      BY <2>1, <3>1, <3>2 DEF Only
    <3> QED BY <2>1, <3>1, <3>2, <3>3, StepsTrans DEF Fine
  <2>4. CASE r = Old!Ok(runs(n))
    <3>0. v \in {"running", "paused"}
      OBVIOUS
    <3> HIDE DEF v
    <3>1. /\ Steps(made(n), runs(n)) /\ runs(n).id = n
          /\ \A j \in DomIds : Old!Exists(runs(n), j) => Old!Exists(made(n), j)
      BY <2>1, <2>2, <3>0, RunSteps
    <3>2. runs(n).listed
      BY <2>1, <2>2 DEF Fine, Typed, Fields
    <3> HIDE DEF runs
    <3>3. r.s = runs(n)
      BY <2>4 DEF Old!Ok
    <3>4. Only(s, r.s)
      BY <2>1, <3>1, <3>3 DEF Only
    <3> QED BY <2>1, <3>1, <3>2, <3>3, <3>4, StepsTrans DEF Fine
  <2> QED BY <1>3, <2>3, <2>4
<1> QED BY <1>1, <1>2, <1>3

LEMMA DropFileSteps ==
  ASSUME NEW s, Fine(s), NEW p \in Old!Paths
  PROVE  LET u == [s EXCEPT !.saves[p] = NoDef]
         IN  Steps(s, u) /\ u.listed = s.listed /\ u.id = s.id /\ u.xen = s.xen /\ u.half = s.half /\ u.orphans = s.orphans
<1> DEFINE u == [s EXCEPT !.saves[p] = NoDef]
<1>1. /\ DOMAIN u = Fields /\ u.saves = [s.saves EXCEPT ![p] = NoDef]
      /\ u.saves[p] = NoDef /\ \A q \in Old!Paths \ {p} : u.saves[q] = s.saves[q]
      /\ u.listed = s.listed /\ u.id = s.id /\ u.orphans = s.orphans /\ u.xen = s.xen /\ u.half = s.half
      /\ u.def = s.def /\ u.newDef = s.newDef /\ u.config = s.config /\ u.status = s.status
      /\ u.lost = s.lost
  BY DEF Fine, Typed, Fields
<1> HIDE DEF u
<1>2. Typed(u)
  <2>1. u.saves \in [Old!Paths -> Old!SaveFiles \cup {NoDef}]
    BY <1>1 DEF Fine, Typed
  <2> QED BY <1>1, <2>1 DEF Fine, Typed, Known
<1>3. Good(u) /\ Keeps(s, u)
  BY <1>1 DEF Fine, Good, Old!HasDisksOf, Theirs, Old!Exists, Keeps
<1>4. SameDisks(s, u) /\ NoNewFile(s, u)
  BY <1>1 DEF SameDisks, SameGuest, NoNewFile
<1> QED BY <1>1, <1>2, <1>3, <1>4 DEF Steps, Fine, u

LEMMA FileDef ==
  ASSUME NEW s, Typed(s), NEW p \in Old!Paths, Old!Opens(s.saves[p])
  PROVE  s.saves[p].def \in Old!Defs
  BY DEF Typed, Old!Opens, Old!SaveFiles

LEMMA VmStartSteps ==
  ASSUME NEW s, Fine(s), s.listed, NEW paused,
         NEW r \in Old!VmStart(s, paused)
  PROVE  Steps(s, r.s) /\ r.s.listed /\ Only(s, r.s)
<1> DEFINE file == s.saves["managed"]
           d == file.def
           u == Old!AssignDef(s, d, TRUE)
           w == Old!TakeManagedSave(s)
<1>0. "managed" \in Old!Paths
  BY DEF Old!Paths
<1>1. CASE file = NoDef
  BY <1>1, StartSteps DEF Old!VmStart
<1>2. CASE file # NoDef /\ ~Old!Opens(file)
  <2>1. r = Old!Fail(s)
    BY <1>2 DEF Old!VmStart
  <2> QED BY <2>1, StepsSame DEF Old!Fail, Only
<1>3. CASE file # NoDef /\ Old!Opens(file)
  <2>1. d \in Old!Defs
    BY <1>0, <1>3, FileDef DEF Fine
  <2>2. Steps(s, u) /\ u.listed /\ u.id = s.id /\ u.orphans = s.orphans /\ u.xen = s.xen /\ u.half = s.half
    BY <2>1, AssignSteps
  <2>3. w = [u EXCEPT !.saves["managed"] = NoDef]
    BY DEF Old!TakeManagedSave
  <2>4. r \in Old!StartDomain(w, paused, file.whole)
    BY <1>3 DEF Old!VmStart
  <2> HIDE DEF u, w
  <2>5. Steps(u, w) /\ w.listed /\ w.id = s.id /\ w.orphans = s.orphans /\ w.xen = s.xen /\ w.half = s.half
    BY <1>0, <2>2, <2>3, DropFileSteps DEF Steps
  <2>7. Steps(w, r.s) /\ r.s.listed /\ Only(w, r.s)
    BY <2>4, <2>5, StartSteps DEF Steps
  <2>8. Only(s, r.s)
    BY <2>5, <2>7 DEF Only, Old!Exists
  <2> QED BY <2>2, <2>5, <2>7, <2>8, StepsTrans DEF Steps, Fine
<1> QED BY <1>1, <1>2, <1>3

\* While a guest has the name, a start takes the managed save file or nothing.
LEMMA NoLaunch ==
  ASSUME NEW s, Typed(s), s.listed, NEW i \in DomIds, Old!Exists(s, i), NEW paused, NEW whole,
         NEW r, r \in Old!VmStart(s, paused) \/ r \in Old!StartDomain(s, paused, whole)
  PROVE  /\ Typed(r.s) /\ r.s.listed /\ r.s.id = s.id /\ r.s.orphans = s.orphans /\ r.s.xen = s.xen
         /\ r.s.half = s.half /\ r.s.status = s.status /\ r.s.config = s.config /\ NoNewFile(s, r.s)
<1> DEFINE file == s.saves["managed"]
           d == file.def
           u == Old!AssignDef(s, d, TRUE)
           w == Old!TakeManagedSave(s)
<1>0. "managed" \in Old!Paths
  BY DEF Old!Paths
<1>1. ASSUME NEW x, x.xen = s.xen, NEW all
      PROVE  Old!StartDomain(x, paused, all) = {Old!Fail(x)}
  <2>1. Old!NextUnused(x) = {}
    BY <1>1 DEF Old!NextUnused, Old!NameTaken, Old!Exists, DomIds
  <2> QED BY <2>1 DEF Old!StartDomain
<1>2. CASE r = Old!Fail(s)
  BY <1>2 DEF Old!Fail, NoNewFile
<1>3. CASE Old!Opens(file) /\ r \in Old!StartDomain(w, paused, file.whole)
  <2>1. d \in Old!Defs
    BY <1>0, <1>3, FileDef
  <2>2. /\ DOMAIN u = Fields
        /\ u.listed /\ u.id = s.id /\ u.orphans = s.orphans /\ u.xen = s.xen /\ u.half = s.half
        /\ u.saves = s.saves /\ u.status = s.status /\ u.config = s.config
        /\ u.def \in Old!Defs /\ (u.newDef # NoDef => u.newDef \in Old!Defs)
    BY <2>1 DEF Typed, Old!AssignDef, Old!PersistentDef, Old!Active, Fields
  <2> HIDE DEF u
  <2>3. w = [u EXCEPT !.saves["managed"] = NoDef]
    BY DEF Old!TakeManagedSave, u
  <2> HIDE DEF w
  <2>4. /\ DOMAIN w = Fields
        /\ w.listed /\ w.id = s.id /\ w.orphans = s.orphans /\ w.xen = s.xen /\ w.half = s.half
        /\ w.saves = [s.saves EXCEPT !["managed"] = NoDef] /\ w.status = s.status /\ w.config = s.config
        /\ w.def \in Old!Defs /\ (w.newDef # NoDef => w.newDef \in Old!Defs)
    BY <2>2, <2>3 DEF Fields
  <2>5. w.saves \in [Old!Paths -> Old!SaveFiles \cup {NoDef}]
    BY <2>4 DEF Typed
  <2>6. Typed(w)
    BY <2>4, <2>5 DEF Typed, Known
  <2>7. NoNewFile(s, w)
    BY <2>4 DEF NoNewFile, Typed
  <2>8. r.s = w
    BY <1>1, <1>3, <2>4 DEF Old!Fail
  <2> QED BY <2>4, <2>6, <2>7, <2>8
<1>4. r = Old!Fail(s) \/ (Old!Opens(file) /\ r \in Old!StartDomain(w, paused, file.whole))
  BY <1>1 DEF Old!VmStart
<1> QED BY <1>2, <1>3, <1>4

LEMMA AutostartSteps ==
  ASSUME NEW s, Fine(s), NEW u \in Old!Autostart(s)
  PROVE  Steps(s, u)
<1>1. CASE s.listed /\ s.autostart /\ ~Old!Active(s)
  <2>1. PICK r \in Old!VmStart(s, FALSE) : u = r.s
    BY <1>1 DEF Old!Autostart
  <2> QED BY <1>1, <2>1, VmStartSteps
<1>2. CASE ~(s.listed /\ s.autostart /\ ~Old!Active(s))
  BY <1>2, StepsSame DEF Old!Autostart
<1> QED BY <1>1, <1>2

LEMMA XmlDefsAreDefs == Old!XmlDefs \subseteq Old!Defs
<1>1. \A x \in Sources : [t \in Old!Targets |-> IF t = Old!Cdrom THEN x ELSE NoSource]
                           \in [Old!Targets -> Sources \cup {NoSource}]
  OBVIOUS
<1>2. 1 \in Old!Amounts /\ MaxAmount \in Old!Amounts
  BY ConfigAssumption DEF Old!Amounts
<1>3. \A f \in [Old!Targets -> Sources \cup {NoSource}] : Old!Plain(f) \in Old!Defs
  BY <1>2 DEF Old!Plain, Old!Defs
<1> QED BY <1>1, <1>3 DEF Old!XmlDefs

\* Changes of the object and its guest that bring no new guest and no new file.
GuestTo(s, state, guest) == [s EXCEPT !.state = state, !.xen[s.id].state = guest]

LEMMA GuestStateSteps ==
  ASSUME NEW s, Fine(s), Old!Exists(s, s.id), NEW st, NEW v \in Old!Existing
  PROVE  LET u == GuestTo(s, st, v)
         IN  Steps(s, u) /\ u.listed = s.listed /\ u.id = s.id /\ Old!Exists(u, u.id)
<1> DEFINE n == s.id
           u == GuestTo(s, st, v)
<1>0. n \in DomIds /\ v # "unused"
  BY DEF Fine, Typed, Known, Old!Exists, Old!Existing, Old!Stopped
<1>2. /\ DOMAIN u = Fields /\ DOMAIN u.xen = DomIds
      /\ u.xen[n].state = v /\ u.xen[n].disks = s.xen[n].disks
      /\ DOMAIN u.xen[n] = {"state", "disks"}
      /\ \A j \in DomIds \ {n} : u.xen[j] = s.xen[j]
      /\ u.half = s.half
      /\ u.listed = s.listed /\ u.id = n /\ u.orphans = s.orphans /\ u.saves = s.saves
      /\ u.def = s.def /\ u.newDef = s.newDef /\ u.config = s.config
      /\ u.status = s.status /\ u.lost = s.lost
  BY <1>0 DEF Fine, Typed, Fields, GuestTo
<1> HIDE DEF u
<1>3. Typed(u)
  BY <1>0, <1>2 DEF Fine, Typed, Known
<1>1. \A j : (j = 0 \/ j \in DomIds) => (Old!Exists(u, j) <=> Old!Exists(s, j))
  BY <1>0, <1>2 DEF Old!Exists
<1>4. Good(u)
  <2>1. s.status # NoDef => s.status.id = 0 \/ s.status.id \in DomIds
    BY DEF Fine, Typed, Known
  <2>2. u.listed /\ Theirs(u, u.id) /\ ~u.lost => Old!HasDisksOf(u, u.def, u.id)
    BY <1>0, <1>1, <1>2 DEF Fine, Good, Old!HasDisksOf, Theirs
  <2>3. u.status # NoDef /\ Theirs(u, u.status.id) => u.listed /\ u.id = u.status.id
    BY <2>1, <1>1, <1>2 DEF Fine, Good, Theirs
  <2> QED BY <1>2, <2>2, <2>3 DEF Fine, Good
<1>5. Keeps(s, u)
  BY <1>0, <1>1, <1>2 DEF Keeps, Theirs
<1>6. SameDisks(s, u) /\ NoNewFile(s, u)
  BY <1>2 DEF SameDisks, SameGuest, NoNewFile
<1>7. Old!Exists(u, u.id)
  BY <1>0, <1>1, <1>2
<1> QED BY <1>2, <1>3, <1>4, <1>5, <1>6, <1>7 DEF Steps, Fine, u

\* Fields that no property depends on, or a definition with the same disks.
Resembles(s, u) ==
  /\ DOMAIN u = Fields
  /\ u.listed = s.listed /\ u.id = s.id /\ u.orphans = s.orphans /\ u.saves = s.saves
  /\ u.xen = s.xen /\ u.half = s.half /\ u.lost = s.lost
  /\ s.listed => u.def \in Old!Defs /\ u.def.disks = s.def.disks
  /\ u.newDef # NoDef => u.newDef \in Old!Defs
  /\ u.config # NoDef => u.config \in Old!Defs
  /\ \/ u.status = s.status
     \/ s.listed /\ u.status.id = s.id /\ u.status.def \in Old!Defs

LEMMA ResembleSteps ==
  ASSUME NEW s, Fine(s), NEW u, Resembles(s, u)
  PROVE  Steps(s, u)
<1>1. Typed(u)
  BY DEF Fine, Typed, Known, Resembles
<1>2. Good(u)
  BY DEF Fine, Good, Old!HasDisksOf, Theirs, Old!Exists, Resembles
<1>3. Keeps(s, u)
  BY DEF Keeps, Theirs, Old!Exists, Resembles
<1>4. SameDisks(s, u) /\ NoNewFile(s, u)
  BY DEF SameDisks, SameGuest, NoNewFile, Resembles
<1> QED BY <1>1, <1>2, <1>3, <1>4 DEF Steps, Fine

LEMMA StatusSteps ==
  ASSUME NEW s, Fine(s), s.listed, NEW r \in Old!SaveStatus(s)
  PROVE  Resembles(s, r.s) /\ Steps(s, r.s)
<1>1. Resembles(s, r.s)
  <2>1. r = Old!Ok([s EXCEPT !.status = [id |-> s.id, def |-> s.def]]) \/ r = Old!Fail(s)
    BY DEF Old!SaveStatus
  <2>2. CASE r = Old!Fail(s)
    BY <2>2 DEF Old!Fail, Fine, Typed, Resembles
  <2>3. CASE r = Old!Ok([s EXCEPT !.status = [id |-> s.id, def |-> s.def]])
    BY <2>3 DEF Old!Ok, Fine, Typed, Resembles, Fields
  <2> QED BY <2>1, <2>2, <2>3
<1> QED BY <1>1, ResembleSteps

(***************************************************************************)
(* The calls.                                                              *)
(***************************************************************************)
LEMMA Inactive == ASSUME NEW s, ~Old!Active(s) PROVE ~Theirs(s, s.id)
  BY DEF Old!Active, Theirs, Old!Exists

LEMMA CreateWithFlagsSteps ==
  ASSUME NEW s, Fine(s), s.listed, NEW paused, NEW r \in Old!CreateWithFlags(s, paused)
  PROVE  Steps(s, r.s)
<1>1. CASE Old!Active(s)
  BY <1>1, StepsSame DEF Old!CreateWithFlags, Old!Fail
<1>2. CASE ~Old!Active(s)
  BY <1>2, VmStartSteps DEF Old!CreateWithFlags
<1> QED BY <1>1, <1>2

LEMMA ReapTransientSteps ==
  ASSUME NEW s, Fine(s), s.listed, Old!Exists(s, s.id)
  PROVE  Steps(s, Old!RemoveTransient(Old!VmReap(s)))
<1> DEFINE u == Old!VmReap(s)
<1>1. Steps(s, u) /\ ~Theirs(u, u.id)
  BY ReapSteps
<1> HIDE DEF u
<1>2. Steps(u, Old!RemoveTransient(u))
  BY <1>1, TransientSteps DEF Steps
<1>3. Steps(s, Old!RemoveTransient(u))
  BY <1>1, <1>2, StepsTrans DEF Fine
<1> QED BY <1>3 DEF u

LEMMA DestroyFlagsSteps ==
  ASSUME NEW s, Fine(s), s.listed, NEW r \in Old!DestroyFlags(s)
  PROVE  Steps(s, r.s)
<1>1. CASE Old!Active(s) /\ Old!Exists(s, s.id)
  BY <1>1, ReapTransientSteps DEF Old!DestroyFlags, Old!Ok
<1>2. CASE ~(Old!Active(s) /\ Old!Exists(s, s.id))
  BY <1>2, StepsSame DEF Old!DestroyFlags, Old!Fail
<1> QED BY <1>1, <1>2

LEMMA CoreDumpSteps ==
  ASSUME NEW s, Fine(s), s.listed, NEW l, NEW c, c => s.persistent, NEW r \in Old!CoreDump(s, l, c)
  PROVE  Steps(s, r.s)
<1> DEFINE pauses == ~l /\ s.state = "running"
           v == IF s.xen[s.id].state = "running" THEN "paused" ELSE s.xen[s.id].state
           held == GuestTo(s, "paused", v)
           p == IF pauses THEN held ELSE s
<1>1. CASE ~Old!Active(s) \/ ~Old!Exists(s, s.id)
  <2>1. r = Old!Fail(s)
    BY <1>1 DEF Old!CoreDump
  <2> QED BY <2>1, StepsSame DEF Old!Fail
<1>2. CASE Old!Active(s) /\ Old!Exists(s, s.id)
  <2>1. r \in {Old!Fail(s), Old!Fail(p), Old!Ok(s), Old!Ok(p), Old!Ok(Old!VmReap(p))}
    BY <1>2 DEF Old!CoreDump, GuestTo
  <2>2. v \in Old!Existing
    BY <1>2 DEF Old!Exists, Old!Existing
  <2> HIDE DEF v
  <2>3. Steps(s, held) /\ held.listed /\ Old!Exists(held, held.id)
    BY <1>2, <2>2, GuestStateSteps
  <2> HIDE DEF held, pauses
  <2>4. Steps(s, p) /\ p.listed /\ Old!Exists(p, p.id)
    BY <1>2, <2>3, StepsSame
  <2> HIDE DEF p
  <2>5. Steps(p, Old!VmReap(p))
    BY <2>4, ReapSteps DEF Steps
  <2>6. Steps(s, Old!VmReap(p))
    BY <2>4, <2>5, StepsTrans DEF Fine
  <2> QED BY <2>1, <2>4, <2>6, StepsSame DEF Old!Ok, Old!Fail
<1> QED BY <1>1, <1>2

LEMMA DomainResumeSteps ==
  ASSUME NEW s, Fine(s), s.listed, NEW r \in Old!DomainResume(s)
  PROVE  Steps(s, r.s)
<1> DEFINE v == IF s.xen[s.id].state = "paused" THEN "running" ELSE s.xen[s.id].state
           run == GuestTo(s, "running", v)
<1>1. \/ r = Old!Fail(s)
      \/ r \in Old!SaveStatus(s)
      \/ Old!Exists(s, s.id) /\ r \in Old!SaveStatus(run)
  BY DEF Old!DomainResume, Old!SetPaused, GuestTo
<1>2. CASE r = Old!Fail(s)
  BY <1>2, StepsSame DEF Old!Fail
<1>3. CASE r \in Old!SaveStatus(s)
  BY <1>3, StatusSteps
<1>4. CASE Old!Exists(s, s.id) /\ r \in Old!SaveStatus(run)
  <2>2. v \in Old!Existing
    BY <1>4 DEF Old!Exists, Old!Existing
  <2> HIDE DEF v
  <2>3. Steps(s, run) /\ run.listed
    BY <1>4, <2>2, GuestStateSteps
  <2> HIDE DEF run
  <2>4. Steps(run, r.s)
    BY <1>4, <2>3, StatusSteps DEF Steps
  <2> QED BY <2>3, <2>4, StepsTrans DEF Fine
<1> QED BY <1>1, <1>2, <1>3, <1>4

LEMMA PersistentDefTyped ==
  ASSUME NEW s, Typed(s), s.listed
  PROVE  Old!PersistentDef(s) \in Old!Defs
  BY DEF Typed, Old!PersistentDef

\* An object leaves the list, and the guest it has is nobody's.
LEMMA LeavesSteps ==
  ASSUME NEW s, Fine(s)
  PROVE  LET w == Old!Leaves(s)
         IN  /\ Steps(s, w)
             /\ ~w.listed /\ w.id = 0 /\ w.xen = s.xen /\ w.saves = s.saves /\ ~Theirs(w, s.id)
<1> DEFINE left == {i \in DomIds : i = s.id /\ Old!Exists(s, i)}
           w == Old!Leaves(s)
<1>1. /\ DOMAIN w = Fields
      /\ ~w.listed /\ w.id = 0 /\ w.orphans = s.orphans \cup left /\ w.xen = s.xen /\ w.half = s.half
      /\ w.saves = s.saves /\ w.status = s.status /\ w.newDef = NoDef /\ w.config = s.config
  BY DEF Fine, Typed, Fields, Old!RemoveInactive, Old!Leaves, Old!Orphaned, DomIds
<1>3. ~Theirs(w, s.id) /\ \A j \in DomIds : Theirs(w, j) => Theirs(s, j)
  BY <1>1 DEF Theirs, Old!Exists, Fine, Typed, Known
<1> HIDE DEF w, left
<1>2. Typed(w)
  BY <1>1 DEF Fine, Typed, Known
<1>4. Good(w)
  <2>1. w.status # NoDef => w.status.id = 0 \/ w.status.id \in DomIds
    BY <1>2 DEF Typed, Known
  <2>2. w.status # NoDef => ~Theirs(w, w.status.id)
    BY <1>1, <1>3, <2>1 DEF Fine, Good, Theirs, Old!Exists
  <2> QED BY <1>1, <2>2 DEF Good
<1>5. Keeps(s, w)
  BY <1>1, <1>3 DEF Keeps, Old!Exists
<1>6. SameDisks(s, w) /\ NoNewFile(s, w)
  BY <1>1 DEF SameDisks, SameGuest, NoNewFile
<1>7. Steps(s, w)
  BY <1>2, <1>4, <1>5, <1>6 DEF Steps, Fine
<1> QED BY <1>1, <1>3, <1>7 DEF w

LEMMA DefineXMLSteps ==
  ASSUME NEW s, Fine(s), NEW d \in Old!XmlDefs, NEW r \in Old!DefineXML(s, d)
  PROVE  Steps(s, r.s)
<1> DEFINE a == Old!AssignDef(s, d, FALSE)
           u == [a EXCEPT !.persistent = TRUE]
           pd == Old!PersistentDef(u)
           w == Old!Leaves(s)
<1>1. r = Old!Ok([u EXCEPT !.config = pd]) \/ r = Old!Fail(w)
  BY DEF Old!DefineXML, Old!SaveConfig, Old!Ok, Old!Fail
<1>2. CASE r = Old!Ok([u EXCEPT !.config = pd])
  <2>1. Steps(s, a) /\ a.listed
    BY XmlDefsAreDefs, AssignSteps
  <2> HIDE DEF a
  <2>2. Resembles(a, u)
    BY <2>1 DEF Resembles, Steps, Fine, Typed, Fields
  <2>3. Steps(a, u) /\ u.listed
    BY <2>1, <2>2, ResembleSteps DEF Steps, Resembles
  <2> HIDE DEF u
  <2>4. pd \in Old!Defs
    BY <2>3, PersistentDefTyped DEF Steps, Fine
  <2> HIDE DEF pd
  <2>5. Resembles(u, [u EXCEPT !.config = pd])
    BY <2>3, <2>4 DEF Resembles, Steps, Fine, Typed, Fields
  <2>6. Steps(u, [u EXCEPT !.config = pd])
    BY <2>3, <2>5, ResembleSteps DEF Steps
  <2>7. Steps(s, [u EXCEPT !.config = pd])
    BY <2>1, <2>3, <2>6, StepsTrans DEF Fine, Steps
  <2> QED BY <1>2, <2>7 DEF Old!Ok
<1>3. CASE r = Old!Fail(w)
  BY <1>3, LeavesSteps DEF Old!Fail
<1> QED BY <1>1, <1>2, <1>3

LEMMA UndefineFlagsSteps ==
  ASSUME NEW s, Fine(s), s.listed, NEW m, NEW r \in Old!UndefineFlags(s, m)
  PROVE  Steps(s, r.s)
<1> DEFINE x == [s EXCEPT !.config = NoDef, !.link = FALSE]
           u == [x EXCEPT !.saves["managed"] = NoDef]
           off == [s EXCEPT !.config = NoDef, !.link = FALSE, !.saves["managed"] = NoDef]
           w == [u EXCEPT !.persistent = FALSE]
<1>1. \/ r = Old!Fail(s)
      \/ Old!Active(u) /\ r = Old!Ok(w)
      \/ ~Old!Active(u) /\ r = Old!Ok(Old!RemoveInactive(u))
  <2>1. u = off /\ off.id = s.id
    BY DEF Fine, Typed, Fields
  <2> QED BY <2>1 DEF Old!UndefineFlags, Old!Active
<1>2. Resembles(s, x)
  BY DEF Fine, Typed, Resembles, Fields
<1>3. Steps(s, x) /\ x.listed
  BY <1>2, ResembleSteps DEF Resembles
<1> HIDE DEF x
<1>4. Steps(x, u) /\ u.listed
  BY <1>3, DropFileSteps DEF Steps, Old!Paths
<1> HIDE DEF u
<1>5. Steps(s, u)
  BY <1>3, <1>4, StepsTrans DEF Fine
<1>6. CASE Old!Active(u) /\ r = Old!Ok(w)
  <2>1. Resembles(u, w)
    BY <1>4 DEF Fine, Typed, Resembles, Fields, Steps
  <2>2. Steps(u, w)
    BY <1>4, <2>1, ResembleSteps DEF Steps
  <2> QED BY <1>5, <1>6, <2>2, StepsTrans DEF Fine, Old!Ok
<1>7. CASE ~Old!Active(u) /\ r = Old!Ok(Old!RemoveInactive(u))
  <2>1. Steps(u, Old!RemoveInactive(u))
    BY <1>4, <1>7, Inactive, RemoveSteps DEF Steps
  <2> QED BY <1>5, <1>7, <2>1, StepsTrans DEF Fine, Old!Ok
<1> QED BY <1>1, <1>6, <1>7, StepsSame DEF Old!Fail

LEMMA ManagedSaveRemoveSteps ==
  ASSUME NEW s, Fine(s), NEW r \in Old!ManagedSaveRemove(s)
  PROVE  Steps(s, r.s)
<1>1. r = Old!Fail(s) \/ r = Old!Ok([s EXCEPT !.saves["managed"] = NoDef])
  BY DEF Old!ManagedSaveRemove
<1>2. "managed" \in Old!Paths
  BY DEF Old!Paths
<1> QED BY <1>1, <1>2, StepsSame, DropFileSteps DEF Old!Fail, Old!Ok

LEMMA PinVcpuSteps ==
  ASSUME NEW s, Fine(s), s.listed, NEW r \in Old!PinVcpu(s)
  PROVE  Steps(s, r.s)
<1> DEFINE u == [s EXCEPT !.def.pinned = TRUE]
<1>1. r = Old!Fail(s) \/ r \in Old!SaveStatus(u)
  BY DEF Old!PinVcpu
<1>2. CASE r \in Old!SaveStatus(u)
  <2>0. u.def = [s.def EXCEPT !.pinned = TRUE] /\ s.def \in Old!Defs
    BY DEF Fine, Typed, Fields
  <2>1. Resembles(s, u)
    BY <2>0, SwapDef DEF Fine, Typed, Resembles, Fields
  <2>2. Steps(s, u) /\ u.listed
    BY <2>1, ResembleSteps DEF Resembles
  <2> HIDE DEF u
  <2>3. Steps(u, r.s)
    BY <1>2, <2>2, StatusSteps DEF Steps
  <2> QED BY <2>2, <2>3, StepsTrans DEF Fine
<1> QED BY <1>1, <1>2, StepsSame DEF Old!Fail

LEMMA SetAutostartSteps ==
  ASSUME NEW s, Fine(s), NEW a, NEW r \in Old!SetAutostart(s, a)
  PROVE  Steps(s, r.s)
<1>1. \/ r = Old!Fail(s)
      \/ r = Old!Ok([s EXCEPT !.autostart = a, !.link = IF a = s.autostart THEN @ ELSE a])
  BY DEF Old!SetAutostart
<1>2. Resembles(s, [s EXCEPT !.autostart = a, !.link = IF a = s.autostart THEN @ ELSE a])
  BY DEF Fine, Typed, Resembles, Fields
<1> QED BY <1>1, <1>2, StepsSame, ResembleSteps DEF Old!Fail, Old!Ok

LEMMA EventHandlerSteps ==
  ASSUME NEW s, Fine(s), s.listed, Old!Exists(s, s.id), NEW u \in Old!EventHandler(s)
  PROVE  Steps(s, u)
<1> DEFINE x == Old!VmReap(s)
<1>1. u = Old!RemoveTransient(x) \/ \E r \in Old!VmStart(x, FALSE) : u = r.s
  BY DEF Old!EventHandler
<1>2. CASE u = Old!RemoveTransient(x)
  BY <1>2, ReapTransientSteps
<1>3. ASSUME NEW r \in Old!VmStart(x, FALSE), u = r.s
      PROVE  Steps(s, u)
  <2>1. Steps(s, x) /\ x.listed /\ ~Theirs(x, x.id)
    BY ReapSteps
  <2> HIDE DEF x
  <2>2. Steps(x, r.s)
    BY <2>1, VmStartSteps DEF Steps
  <2> QED BY <1>3, <2>1, <2>2, StepsTrans DEF Fine
<1> QED BY <1>1, <1>2, <1>3

LEMMA StartupFine ==
  ASSUME NEW s, Fine(s)
  PROVE  Fine(Old!Startup(s))
<1> DEFINE off == Old!RemoveInactive(s)
           found == [off EXCEPT !.listed = TRUE, !.id = s.status.id, !.def = s.status.def,
                                !.lost = s.lost \/ (s.listed /\ s.status.def.disks # s.def.disks)]
           on0 == IF s.status = NoDef THEN off ELSE Old!ReconnectDomain(found)
           there == Old!AssignDef(on0, s.config, FALSE)
           up == [there EXCEPT !.persistent = TRUE, !.autostart = s.link]
<1>1. Old!Startup(s) = IF s.config = NoDef THEN on0 ELSE up
  BY DEF Old!Startup
<1>2. /\ DOMAIN off = Fields
      /\ ~off.listed /\ off.id = 0 /\ off.orphans = s.orphans /\ off.xen = s.xen /\ off.half = s.half
      /\ off.saves = s.saves /\ off.status = s.status /\ off.newDef = NoDef /\ off.config = s.config
  BY DEF Fine, Typed, Fields, Old!RemoveInactive
<1> HIDE DEF off
<1>3. Fine(on0)
  <2>1. CASE s.status = NoDef
    <3>1. Typed(off)
      BY <2>1, <1>2 DEF Fine, Typed, Known
    <3>2. Good(off)
      BY <2>1, <1>2 DEF Good
    <3> QED BY <2>1, <3>1, <3>2 DEF Fine
  <2>2. CASE s.status # NoDef
    <3>1. /\ DOMAIN found = Fields
          /\ found.listed /\ found.id = s.status.id /\ found.def = s.status.def
          /\ found.orphans = s.orphans /\ found.xen = s.xen /\ found.half = s.half
          /\ found.saves = s.saves /\ found.status = s.status /\ found.newDef = NoDef
          /\ found.config = s.config
          /\ found.lost <=> (s.lost \/ (s.listed /\ s.status.def.disks # s.def.disks))
      BY <1>2 DEF Fields
    <3> HIDE DEF found
    <3>2. Typed(found)
      BY <2>2, <3>1 DEF Fine, Typed, Known
    <3>3. Good(found)
      <4>1. Theirs(found, found.id) => s.listed /\ s.id = s.status.id /\ Theirs(s, s.id)
        BY <2>2, <3>1 DEF Fine, Good, Theirs, Old!Exists
      <4> QED BY <3>1, <4>1 DEF Fine, Good, Old!HasDisksOf
    <3>4. CASE Old!Exists(found, found.id)
      <4>1. Old!ReconnectDomain(found) = [found EXCEPT !.state = "running"]
        BY <3>4 DEF Old!ReconnectDomain
      <4>2. Resembles(found, [found EXCEPT !.state = "running"])
        BY <3>1, <3>2 DEF Resembles, Typed, Fields
      <4>3. Fine([found EXCEPT !.state = "running"])
        BY <3>2, <3>3, <4>2, ResembleSteps DEF Fine, Steps
      <4> QED BY <2>2, <4>1, <4>3
    <3>5. CASE ~Old!Exists(found, found.id)
      <4> DEFINE c == Old!VmCleanup(found)
      <4>1. ~Theirs(found, found.id) /\ Fine(found) /\ found.listed
        BY <3>1, <3>2, <3>3, <3>5 DEF Theirs, Fine
      <4>2. Fine(c) /\ ~Theirs(c, c.id)
        BY <4>1, CleanupSteps DEF Steps
      <4> HIDE DEF c
      <4>3. Fine(Old!RemoveInactive(c))
        BY <4>2, RemoveSteps DEF Steps
      <4> QED BY <2>2, <3>5, <4>3 DEF Old!ReconnectDomain, c
    <3> QED BY <3>4, <3>5
  <2> QED BY <2>1, <2>2
<1>4. CASE s.config # NoDef
  <2>1. s.config \in Old!Defs
    BY <1>4 DEF Fine, Typed
  <2> HIDE DEF on0
  <2>2. Fine(there)
    BY <1>3, <2>1, AssignSteps DEF Steps
  <2> HIDE DEF there
  <2>3. Resembles(there, up)
    BY <2>2 DEF Fine, Typed, Resembles, Fields
  <2>4. Fine(up)
    BY <2>2, <2>3, ResembleSteps DEF Steps
  <2> QED BY <1>1, <1>4, <2>4
<1> QED BY <1>1, <1>3, <1>4

LEMMA RestartFine ==
  ASSUME Fine(vm), Old!Restart \/ Old!DieInStart
  PROVE  Fine(vm')
<1>1. CASE Old!Restart
  BY <1>1, StartupFine, AutostartSteps DEF Old!Restart, Steps
<1>2. CASE Old!DieInStart
  <2>1. PICK n \in Old!NextUnused(vm) :
          vm' = [Old!Startup(Old!Made(vm, n)) EXCEPT !.orphans = @ \cup {n}]
    BY <1>2 DEF Old!DieInStart
  <2>2. Fine(Old!Made(vm, n))
    BY <1>2, MadeSteps DEF Old!DieInStart, Steps
  <2> DEFINE s == Old!Startup(Old!Made(vm, n))
             u == [s EXCEPT !.orphans = @ \cup {n}]
  <2>3. Fine(s)
    BY <2>2, StartupFine
  <2> HIDE DEF s
  <2>4. /\ DOMAIN u = Fields
        /\ u.listed = s.listed /\ u.id = s.id /\ s.orphans \subseteq u.orphans /\ u.xen = s.xen /\ u.half = s.half
        /\ u.saves = s.saves /\ u.status = s.status /\ u.newDef = s.newDef /\ u.config = s.config
        /\ u.def = s.def /\ u.lost = s.lost /\ u.half = s.half
    BY <2>3 DEF Fine, Typed, Fields
  <2> HIDE DEF u
  <2>5. Typed(u)
    BY <2>3, <2>4 DEF Fine, Typed, Known
  <2>6. Good(u)
    BY <2>3, <2>4 DEF Fine, Good, Old!HasDisksOf, Theirs, Old!Exists
  <2>7. Fine(u)
    BY <2>5, <2>6 DEF Fine
  <2> QED BY <2>1, <2>7 DEF s, u
<1> QED BY <1>1, <1>2

(***************************************************************************)
(* The calls of the threads that wait, on an object listed or not.         *)
(***************************************************************************)
\* What a call on an object that may have left the list changes: its own guest only,
\* never a guest it does not have, and, Acts, no save file.
Agrees(s) == Theirs(s, s.id) /\ ~s.lost => Old!HasDisksOf(s, s.def, s.id)
Touches(s, u) ==
  /\ Typed(u) /\ u.listed = s.listed /\ u.orphans = s.orphans
  /\ u.id \in {0, s.id} /\ (Theirs(u, s.id) => u.id = s.id)
  /\ \A i \in DomIds :
       /\ i # s.id => u.xen[i] = s.xen[i] /\ (i \in s.half => i \in u.half)
       /\ u.xen[i].state \in {s.xen[i].state, "gone"}
       /\ SameGuest(s, u, i) \/ Old!Exists(s, i)
  /\ u.status # NoDef => u.status = s.status \/ u.status.id \in {0, s.id}
  /\ Agrees(s) => Agrees(u)
Acts(s, u) == Touches(s, u) /\ u.saves = s.saves

LEMMA ActsTrans ==
  ASSUME NEW s, NEW u, NEW w, Typed(s), Acts(s, u), Acts(u, w)
  PROVE  Acts(s, w)
<1>1. \A i \in DomIds : Old!Exists(u, i) => Old!Exists(s, i)
  BY DEF Acts, Touches, Old!Exists, Old!Existing, Old!Stopped
<1>2. \A i \in DomIds : Old!Exists(w, i) => Old!Exists(u, i)
  BY DEF Acts, Touches, Old!Exists, Old!Existing, Old!Stopped
<1>3. \A i \in DomIds :
        /\ i # s.id => w.xen[i] = s.xen[i] /\ (i \in s.half => i \in w.half)
        /\ w.xen[i].state \in {s.xen[i].state, "gone"}
        /\ SameGuest(s, w, i) \/ Old!Exists(s, i)
  BY <1>1, NoGuestZero DEF Acts, Touches, SameGuest
<1>4. Theirs(w, s.id) => w.id = s.id
  BY <1>2 DEF Acts, Touches, Theirs, Typed, Known, Old!Exists
<1>5. w.status # NoDef => w.status = s.status \/ w.status.id \in {0, s.id}
  BY DEF Acts, Touches
<1> QED BY <1>3, <1>4, <1>5 DEF Acts, Touches

LEMMA ResembleTrans ==
  ASSUME NEW s, NEW u, NEW w, Resembles(s, u), Resembles(u, w)
  PROVE  Resembles(s, w)
  BY DEF Resembles

LEMMA ResembleSame == ASSUME NEW s, Typed(s) PROVE Resembles(s, s)
  BY DEF Resembles, Typed

LEMMA ResembleTyped ==
  ASSUME NEW s, NEW u, Typed(s), Resembles(s, u)
  PROVE  Typed(u)
  BY DEF Typed, Known, Resembles

LEMMA ResembleActs ==
  ASSUME NEW s, NEW u, Typed(s), s.listed, Resembles(s, u)
  PROVE  Acts(s, u)
<1>1. Typed(u)
  BY ResembleTyped
<1>2. Agrees(s) => Agrees(u)
  BY DEF Agrees, Old!HasDisksOf, Theirs, Old!Exists, Resembles
<1> QED BY <1>1, <1>2 DEF Acts, Touches, SameGuest, Resembles

LEMMA ActsSame == ASSUME NEW s, Typed(s), s.listed PROVE Acts(s, s)
  BY ResembleSame, ResembleActs

LEMMA WithNewDefResembles ==
  ASSUME NEW s, Typed(s), s.listed
  PROVE  Resembles(s, Old!WithNewDef(s)) /\ Typed(Old!WithNewDef(s)) /\ Old!WithNewDef(s).listed
<1>1. Resembles(s, Old!WithNewDef(s))
  BY DEF Typed, Old!WithNewDef, Resembles, Fields
<1> QED BY <1>1, ResembleTyped DEF Resembles

\* The memory or the vcpus of a definition do not concern its disks.
LEMMA ChangeConfigResembles ==
  ASSUME NEW s, Typed(s), s.listed, NEW field \in {"mem", "cpu"}, NEW a \in Old!Amounts, NEW m,
         NEW r \in Old!ChangeConfig(s, field, a, m)
  PROVE  Resembles(s, r.s)
<1> DEFINE d == Old!PersistentDef(s)
           new == IF m THEN [cur |-> IF d[field].cur > a THEN a ELSE d[field].cur, max |-> a]
                  ELSE [d[field] EXCEPT !.cur = a]
           changed == [d EXCEPT ![field] = new]
           u == Old!SetPersistentDef(s, changed)
<1>1. d \in Old!Defs
  BY PersistentDefTyped
<1>2. new \in [cur : Old!Amounts, max : Old!Amounts]
  BY <1>1 DEF Old!Defs
<1> HIDE DEF new
<1>3. changed \in Old!Defs /\ changed.disks = d.disks
  BY <1>1, <1>2 DEF Old!Defs
<1>4. r = Old!Ok([u EXCEPT !.config = changed]) \/ r = Old!Fail(u)
  BY DEF Old!ChangeConfig, Old!SaveConfig, new
<1> HIDE DEF changed
<1>5. Resembles(s, u)
  BY <1>3 DEF Typed, Resembles, Fields, Old!SetPersistentDef, Old!PersistentDef
<1>6. Resembles(u, [u EXCEPT !.config = changed])
  BY <1>3, <1>5 DEF Resembles, Fields
<1> HIDE DEF u
<1> QED BY <1>4, <1>5, <1>6, ResembleTrans DEF Old!Ok, Old!Fail

LEMMA SetMemoryResembles ==
  ASSUME NEW s, Typed(s), s.listed, NEW r \in SetMemory(s)
  PROVE  Resembles(s, r.s)
<1>1. PICK a \in Old!Amounts, m \in BOOLEAN, f \in Old!FlagSets : r \in Old!SetMemoryFlags(s, a, m, f)
  BY DEF SetMemory
<1> DEFINE t == IF "config" \in Old!Resolve(s, f) THEN Old!WithNewDef(s) ELSE s
<1>2. r \in {Old!Fail(s), Old!Fail(t), Old!Ok(t)} \cup Old!ChangeConfig(t, "mem", a, m)
  BY <1>1 DEF Old!SetMemoryFlags
<1>3. Resembles(s, t) /\ Typed(t) /\ t.listed
  BY WithNewDefResembles, ResembleSame
<1> HIDE DEF t
<1>4. CASE r \in Old!ChangeConfig(t, "mem", a, m)
  BY <1>3, <1>4, ChangeConfigResembles, ResembleTrans
<1> QED BY <1>2, <1>3, <1>4, ResembleSame DEF Old!Fail, Old!Ok

LEMMA SetVcpusResembles ==
  ASSUME NEW s, Typed(s), s.listed, NEW r \in SetVcpus(s)
  PROVE  Resembles(s, r.s)
<1>1. PICK a \in Old!Amounts, m \in BOOLEAN, f \in Old!FlagSets : r \in Old!SetVcpusFlags(s, a, m, f)
  BY DEF SetVcpus
<1> DEFINE t == Old!WithNewDef(s)
<1>2. r \in {Old!Fail(s), Old!Fail(t), Old!Ok(t)} \cup Old!ChangeConfig(t, "cpu", a, m)
  BY <1>1 DEF Old!SetVcpusFlags
<1>3. Resembles(s, t) /\ Typed(t) /\ t.listed
  BY WithNewDefResembles
<1> HIDE DEF t
<1>4. CASE r \in Old!ChangeConfig(t, "cpu", a, m)
  BY <1>3, <1>4, ChangeConfigResembles, ResembleTrans
<1> QED BY <1>2, <1>3, <1>4, ResembleSame DEF Old!Fail, Old!Ok

LEMMA AssignActs ==
  ASSUME NEW s, Typed(s), s.listed, NEW d \in Old!Defs
  PROVE  Acts(s, Old!AssignDef(s, d, FALSE))
<1> DEFINE u == Old!AssignDef(s, d, FALSE)
<1>1. /\ DOMAIN u = Fields
      /\ u.listed /\ u.id = s.id /\ u.orphans = s.orphans /\ u.xen = s.xen /\ u.half = s.half
      /\ u.saves = s.saves /\ u.lost = s.lost /\ u.status = s.status /\ u.config = s.config
      /\ s.id # 0 => u.def = s.def
      /\ u.def \in Old!Defs /\ (u.newDef # NoDef => u.newDef \in Old!Defs)
  BY DEF Typed, Old!AssignDef, Old!Active, Fields
<1> HIDE DEF u
<1>2. Typed(u)
  BY <1>1 DEF Typed, Known
<1>3. Agrees(s) => Agrees(u)
  BY <1>1 DEF Agrees, Old!HasDisksOf, Theirs, Old!Exists
<1> QED BY <1>1, <1>2, <1>3 DEF Acts, Touches, SameGuest, u

LEMMA ReapActs ==
  ASSUME NEW s, Typed(s), s.listed, Old!Exists(s, s.id)
  PROVE  Acts(s, Old!VmReap(s))
<1> DEFINE n == s.id
           g == [s EXCEPT !.xen[n].state = "gone"]
           u == Old!VmCleanup(g)
<1>0. n \in DomIds /\ n # 0
  BY NoGuestZero DEF Typed, Known, Old!Exists
<1>2. /\ DOMAIN g = Fields /\ DOMAIN g.xen = DomIds
      /\ g.xen[n].state = "gone" /\ g.xen[n].disks = s.xen[n].disks
      /\ DOMAIN g.xen[n] = {"state", "disks"}
      /\ \A j \in DomIds \ {n} : g.xen[j] = s.xen[j]
      /\ g.half = s.half
      /\ g.listed /\ g.id = s.id /\ g.orphans = s.orphans /\ g.saves = s.saves
      /\ g.def = s.def /\ g.newDef = s.newDef /\ g.config = s.config
  BY <1>0 DEF Typed, Fields
<1> HIDE DEF g
<1>3. s.def \in Old!Defs
  BY DEF Typed
<1>4. /\ DOMAIN u = Fields /\ u.xen = g.xen /\ u.half = s.half
      /\ u.listed /\ u.id \in {0, n} /\ u.orphans = s.orphans /\ u.saves = s.saves
      /\ u.def \in Old!Defs /\ (u.newDef # NoDef => u.newDef \in Old!Defs) /\ u.config = s.config
      /\ u.status = NoDef
  BY <1>2, <1>3, SwapDef DEF Old!VmCleanup, Fields, Typed
<1> HIDE DEF u
<1>5. Typed(u)
  BY <1>2, <1>4 DEF Typed, Known
<1>6. ~Theirs(u, n) /\ ~Theirs(u, u.id)
  BY <1>2, <1>4 DEF Theirs, Old!Exists, Old!Existing, Old!Stopped
<1>7. Acts(s, u)
  BY <1>0, <1>2, <1>4, <1>5, <1>6 DEF Acts, Touches, SameGuest, Agrees
<1> QED BY <1>7 DEF u, g, Old!VmReap

LEMMA PutTyped ==
  ASSUME NEW d \in Old!Defs, NEW dev \in Old!Devices, NEW x \in Sources \cup {NoSource}
  PROVE  /\ Old!Put(d, dev, x) \in Old!Defs
         /\ Old!Put(d, dev, x).disks = [d.disks EXCEPT ![dev.target] = x]
  BY DEF Old!Put, Old!Defs, Old!Devices

LEMMA LiveChangeActs ==
  ASSUME NEW s, Typed(s), s.listed, NEW dev \in Old!Devices, NEW x \in Sources \cup {NoSource},
         NEW r \in Old!LiveChange(s, dev, x)
  PROVE  Acts(s, r.s)
<1> DEFINE n == s.id
           u == [s EXCEPT !.def = Old!Put(@, dev, x), !.xen[n].disks[dev.target] = x]
<1>1. r = Old!Fail(s) \/ (Old!Exists(s, n) /\ r = Old!Ok(u))
  BY DEF Old!LiveChange
<1>2. CASE Old!Exists(s, n) /\ r = Old!Ok(u)
  <2>0. n \in DomIds /\ n # 0
    BY <1>2, NoGuestZero DEF Typed, Known, Old!Exists
  <2>1. s.def \in Old!Defs
    BY DEF Typed
  <2>2. /\ DOMAIN u = Fields /\ DOMAIN u.xen = DomIds
        /\ u.xen[n].state = s.xen[n].state
        /\ u.xen[n].disks = [s.xen[n].disks EXCEPT ![dev.target] = x]
        /\ DOMAIN u.xen[n] = {"state", "disks"}
        /\ \A j \in DomIds \ {n} : u.xen[j] = s.xen[j]
        /\ u.half = s.half
        /\ u.listed /\ u.id = n /\ u.orphans = s.orphans /\ u.saves = s.saves
        /\ u.def = Old!Put(s.def, dev, x) /\ u.newDef = s.newDef /\ u.config = s.config
        /\ u.status = s.status /\ u.lost = s.lost
    BY <2>0 DEF Typed, Fields
  <2> HIDE DEF u
  <2>3. u.def \in Old!Defs /\ u.def.disks = [s.def.disks EXCEPT ![dev.target] = x]
    BY <2>1, <2>2, PutTyped
  <2>4. Typed(u)
    BY <2>0, <2>2, <2>3 DEF Typed, Known
  <2>7. DOMAIN s.def.disks = Old!Targets /\ DOMAIN s.xen[n].disks = Old!Targets
    BY <2>0, <2>1 DEF Old!Defs, Typed
  <2>5. Agrees(s) => Agrees(u)
    <3>1. Old!HasDisksOf(s, s.def, n) => Old!HasDisksOf(u, u.def, n)
      BY <2>2, <2>3, <2>7 DEF Old!HasDisksOf
    <3> QED BY <2>2, <3>1 DEF Agrees, Theirs, Old!Exists
  <2>6. Acts(s, u)
    BY <1>2, <2>2, <2>4, <2>5 DEF Acts, Touches, SameGuest
  <2> QED BY <1>2, <2>6 DEF Old!Ok
<1> QED BY <1>1, <1>2, ActsSame DEF Old!Fail

\* The drive removed and added again, or not, and the definition as if.
LEMMA MediaActs ==
  ASSUME NEW s, Typed(s), s.listed, NEW dev \in Old!Devices, NEW r \in Old!ChangeEjectableMedia(s, dev)
  PROVE  Acts(s, r.s) /\ DOMAIN r = {"ok", "s"}
<1> DEFINE n == s.id
           there == s.xen[n].disks[dev.target]
           changed(x) == [s EXCEPT !.def = Old!Put(@, dev, dev.source), !.xen[n].disks[dev.target] = x,
                                   !.half = IF x = dev.source THEN @ \ {n} ELSE @ \cup {n}]
<1>1. \/ r = Old!Fail(s)
      \/ /\ Old!Exists(s, n) /\ dev.target = Old!Cdrom
         /\ \E x \in {dev.source, there, NoSource} : r = Old!Ok(changed(x))
  BY Zenon DEF Old!ChangeEjectableMedia
<1>2. ASSUME Old!Exists(s, n), dev.target = Old!Cdrom, NEW x, r = Old!Ok(changed(x))
      PROVE  Acts(s, r.s)
  <2> DEFINE u == changed(x)
  <2>0. n \in DomIds /\ n # 0
    BY <1>2, NoGuestZero DEF Typed, Known, Old!Exists
  <2>1. s.def \in Old!Defs /\ dev.source \in Sources
    BY DEF Typed, Old!Devices
  <2>2. /\ DOMAIN u = Fields /\ DOMAIN u.xen = DomIds
        /\ u.xen[n].state = s.xen[n].state
        /\ u.xen[n].disks = [s.xen[n].disks EXCEPT ![dev.target] = x]
        /\ DOMAIN u.xen[n] = {"state", "disks"}
        /\ \A j \in DomIds \ {n} : u.xen[j] = s.xen[j]
        /\ u.half = IF x = dev.source THEN s.half \ {n} ELSE s.half \cup {n}
        /\ u.listed /\ u.id = n /\ u.orphans = s.orphans /\ u.saves = s.saves
        /\ u.def = Old!Put(s.def, dev, dev.source) /\ u.newDef = s.newDef /\ u.config = s.config
        /\ u.status = s.status /\ u.lost = s.lost
    BY <2>0 DEF Typed, Fields
  <2> HIDE DEF u, changed
  <2>3. u.def \in Old!Defs /\ u.def.disks = [s.def.disks EXCEPT ![dev.target] = dev.source]
    BY <2>1, <2>2, PutTyped
  <2>4. Typed(u)
    BY <2>0, <2>2, <2>3 DEF Typed, Known
  <2>5. DOMAIN s.def.disks = Old!Targets /\ DOMAIN s.xen[n].disks = Old!Targets
    BY <2>0, <2>1 DEF Old!Defs, Typed
  <2>6. Old!HasDisksOf(s, s.def, n) => Old!HasDisksOf(u, u.def, n)
    <3>1. ASSUME Old!HasDisksOf(s, s.def, n), NEW y \in Old!Targets
          PROVE  u.def.disks[y] = u.xen[n].disks[y] \/ (y = Old!Cdrom /\ n \in u.half)
      <4>1. CASE y = Old!Cdrom
        BY <1>2, <2>2, <2>3, <2>5, <4>1
      <4>2. CASE y # Old!Cdrom
        BY <1>2, <2>2, <2>3, <2>5, <3>1, <4>2 DEF Old!HasDisksOf
      <4> QED BY <4>1, <4>2
    <3> QED BY <3>1 DEF Old!HasDisksOf
  <2>7. Agrees(s) => Agrees(u)
    BY <2>2, <2>6 DEF Agrees, Theirs, Old!Exists
  <2>8. Acts(s, u)
    BY <1>2, <2>2, <2>4, <2>7 DEF Acts, Touches, SameGuest
  <2> QED BY <1>2, <2>8 DEF Old!Ok, u
<1> HIDE DEF changed, there
<1>3. DOMAIN r = {"ok", "s"}
  BY <1>1 DEF Old!Ok, Old!Fail
<1> QED BY <1>1, <1>2, <1>3, ActsSame DEF Old!Fail

LEMMA LivePartActs ==
  ASSUME NEW s, Typed(s), s.listed, NEW dev \in Old!Devices,
         NEW action \in {"attach", "detach", "update"}, NEW r \in Old!LivePart(s, action, dev)
  PROVE  Acts(s, r.s) /\ DOMAIN r = {"ok", "s"}
<1>1. \/ r = Old!Fail(s)
      \/ r \in Old!LiveChange(s, dev, dev.source)
      \/ r \in Old!LiveChange(s, dev, NoSource)
      \/ r \in Old!ChangeEjectableMedia(s, dev)
  BY DEF Old!LivePart, Old!AttachDeviceLive, Old!DetachDeviceLive, Old!UpdateDeviceLive
<1>2. dev.source \in Sources
  BY DEF Old!Devices
<1>3. DOMAIN r = {"ok", "s"}
  BY <1>1, MediaActs DEF Old!LiveChange, Old!Fail, Old!Ok
<1> QED BY <1>1, <1>2, <1>3, ActsSame, LiveChangeActs, MediaActs DEF Old!Fail

LEMMA ConfigPartTyped ==
  ASSUME NEW d \in Old!Defs, NEW dev \in Old!Devices, NEW action \in {"attach", "detach", "update"}
  PROVE  Old!ConfigPart(d, action, dev).s \in Old!Defs
<1>1. Old!ConfigPart(d, action, dev) \in
        {Old!Fail(d), Old!Ok(Old!Put(d, dev, dev.source)), Old!Ok(Old!Put(d, dev, NoSource))}
  BY DEF Old!ConfigPart, Old!AttachDeviceConfig, Old!DetachDeviceConfig, Old!UpdateDeviceConfig
<1>2. dev.source \in Sources
  BY DEF Old!Devices
<1>3. Old!Put(d, dev, dev.source) \in Old!Defs /\ Old!Put(d, dev, NoSource) \in Old!Defs
  BY <1>2, PutTyped
<1> QED BY <1>1, <1>3 DEF Old!Fail, Old!Ok

LEMMA SaveDevicesActs ==
  ASSUME NEW s, Typed(s), s.listed, NEW d \in Old!Defs, NEW r \in Old!SaveDevices(s, d)
  PROVE  Acts(s, r.s)
<1> DEFINE u == [s EXCEPT !.config = d]
           w == Old!AssignDef(u, d, FALSE)
<1>1. r = Old!Fail(s) \/ r = Old!Ok(w)
  <2>1. PICK q \in {Old!Ok(u), Old!Fail(s)} :
          r = IF q.ok THEN Old!Ok(Old!AssignDef(q.s, d, FALSE)) ELSE q
    BY Zenon DEF Old!SaveDevices, Old!SaveConfig
  <2>2. /\ Old!Ok(u).ok = TRUE /\ Old!Ok(u).s = u
        /\ Old!Fail(s).ok = FALSE
    BY DEF Old!Ok, Old!Fail
  <2> QED BY <2>1, <2>2
<1>2. Resembles(s, u)
  BY DEF Typed, Resembles, Fields
<1>3. Acts(s, u) /\ Typed(u) /\ u.listed
  BY <1>2, ResembleActs, ResembleTyped DEF Resembles
<1> HIDE DEF u
<1>4. Acts(u, w)
  BY <1>3, AssignActs
<1> HIDE DEF w
<1>5. Acts(s, w)
  BY <1>3, <1>4, ActsTrans
<1> QED BY <1>1, <1>5, ActsSame DEF Old!Ok, Old!Fail

LEMMA ModifyDeviceFlagsActs ==
  ASSUME NEW s, Typed(s), s.listed, NEW action \in {"attach", "detach", "update"},
         NEW dev \in Old!Devices, NEW f, NEW r \in Old!ModifyDeviceFlags(s, action, dev, f)
  PROVE  Acts(s, r.s)
<1> DEFINE flags == Old!Resolve(s, f)
           t == IF "config" \in flags THEN Old!WithNewDef(s) ELSE s
           copy == Old!ConfigPart(Old!PersistentDef(t), action, dev)
           live == IF "live" \notin flags
                     THEN {IF "config" \in flags /\ ~copy.ok THEN Old!Fail(t) ELSE Old!Ok(t)}
                   ELSE UNION {{[q EXCEPT !.ok = @ /\ p.ok, !.s = p.s] : p \in Old!SaveStatus(q.s)} :
                                 q \in Old!LivePart(t, action, dev)}
<1>1. \/ r = Old!Fail(s)
      \/ \E q \in live : r = q \/ r \in Old!SaveDevices(q.s, copy.s)
  BY Zenon DEF Old!ModifyDeviceFlags
<1>2. Acts(s, t) /\ Typed(t) /\ t.listed
  BY WithNewDefResembles, ResembleActs, ActsSame
<1> HIDE DEF t
<1>3. copy.s \in Old!Defs
  BY <1>2, PersistentDefTyped, ConfigPartTyped
<1> HIDE DEF copy, flags
<1>6. \A q \in live :
        \/ q \in {Old!Fail(t), Old!Ok(t)}
        \/ \E x \in Old!LivePart(t, action, dev) : \E p \in Old!SaveStatus(x.s) :
             q = [x EXCEPT !.ok = @ /\ p.ok, !.s = p.s]
  <2>1. CASE "live" \notin flags
    BY <2>1
  <2>2. CASE "live" \in flags
    <3> DEFINE Made(x) == {[x EXCEPT !.ok = @ /\ p.ok, !.s = p.s] : p \in Old!SaveStatus(x.s)}
    <3>1. live = UNION {Made(x) : x \in Old!LivePart(t, action, dev)}
      BY <2>2
    <3> HIDE DEF live, Made
    <3>2. \A q \in live : \E x \in Old!LivePart(t, action, dev) : q \in Made(x)
      BY <3>1
    <3> QED BY <3>2, Zenon DEF Made
  <2> QED BY <2>1, <2>2
<1> HIDE DEF live
<1>4. ASSUME NEW q \in live
      PROVE  Acts(t, q.s)
  <2>1. CASE q \in {Old!Fail(t), Old!Ok(t)}
    BY <2>1, <1>2, ActsSame DEF Old!Fail, Old!Ok
  <2>2. CASE \E x \in Old!LivePart(t, action, dev) : \E p \in Old!SaveStatus(x.s) :
               q = [x EXCEPT !.ok = @ /\ p.ok, !.s = p.s]
    <3>0. PICK x \in Old!LivePart(t, action, dev) :
            \E p \in Old!SaveStatus(x.s) : q = [x EXCEPT !.ok = @ /\ p.ok, !.s = p.s]
      BY <2>2
    <3>1. PICK p \in Old!SaveStatus(x.s) : q = [x EXCEPT !.ok = @ /\ p.ok, !.s = p.s]
      BY <3>0
    <3>2. Acts(t, x.s) /\ DOMAIN x = {"ok", "s"}
      BY <1>2, LivePartActs
    <3>3. q.s = p.s
      BY <3>1, <3>2
    <3>4. Typed(x.s) /\ x.s.listed
      BY <1>2, <3>2 DEF Acts, Touches
    <3>5. Resembles(x.s, p.s)
      <4> DEFINE y == x.s
      <4>1. p = Old!Ok([x.s EXCEPT !.status = [id |-> x.s.id, def |-> x.s.def]]) \/ p = Old!Fail(x.s)
        BY <3>1 DEF Old!SaveStatus
      <4>3. Typed(y) /\ y.listed
        BY <3>4
      <4> HIDE DEF y
      <4>4. Resembles(y, [y EXCEPT !.status = [id |-> y.id, def |-> y.def]])
        BY <4>3 DEF Typed, Resembles, Fields
      <4>2. Resembles(x.s, [x.s EXCEPT !.status = [id |-> x.s.id, def |-> x.s.def]])
        BY <4>4 DEF y
      <4> QED BY <4>1, <4>2, <3>4, ResembleSame DEF Old!Ok, Old!Fail
    <3>6. Acts(x.s, p.s)
      BY <3>4, <3>5, ResembleActs
    <3> QED BY <1>2, <3>2, <3>3, <3>6, ActsTrans
  <2> QED BY <1>6, <2>1, <2>2
<1>5. ASSUME NEW q \in live, r = q \/ r \in Old!SaveDevices(q.s, copy.s)
      PROVE  Acts(s, r.s)
  <2>1. Acts(t, q.s)
    BY <1>4
  <2> DEFINE y == q.s
  <2>4. Acts(t, y)
    BY <2>1
  <2> HIDE DEF y
  <2>6. Acts(s, y)
    BY <2>4, <1>2, ActsTrans
  <2>5. Acts(s, y) /\ Typed(y) /\ y.listed
    BY <2>6 DEF Acts, Touches
  <2>2. Acts(s, q.s) /\ Typed(q.s) /\ q.s.listed
    BY <2>5 DEF y
  <2>3. CASE r \in Old!SaveDevices(q.s, copy.s)
    BY <2>2, <2>3, <1>3, SaveDevicesActs, ActsTrans
  <2> QED BY <1>5, <2>2, <2>3
<1> QED BY <1>1, <1>5, ActsSame DEF Old!Fail

LEMMA DeviceCallsActs ==
  ASSUME NEW s, Typed(s), s.listed, NEW r \in DeviceCalls(s)
  PROVE  Acts(s, r.s)
<1>1. PICK action \in {"attach", "detach", "update"}, dev \in Old!Devices, f \in Old!FlagSets :
        r \in Old!ModifyDeviceFlags(s, action, dev, f)
  BY DEF DeviceCalls, Attaches, Detaches, Updates
<1> QED BY <1>1, ModifyDeviceFlagsActs

(***************************************************************************)
(* The inductive invariant.                                                *)
(***************************************************************************)
\* The threads.
Where == {"idle", "waits", "works", "saving", "saved"}
ThreadsTyped ==
  /\ pc \in [Threads -> Where]
  /\ op \in [Threads -> Ops \cup {"none"}]
  /\ on \in [Threads -> Here]
  /\ busy \in [Here -> SUBSET (Threads \X {"modify", "async"})]
  /\ from \in [Threads -> DomIds \cup {0}]
  /\ saved \in [Threads -> DomIds \cup {0}]
  /\ unlinked \subseteq Threads

\* What is left of an object that was removed is typed, and its guest is none that
\* the driver still answers for.
HeldTyped(o) == o.def \in Old!Defs /\ (o.newDef # NoDef => o.newDef \in Old!Defs)
HeldOk ==
  (\E t \in Threads : on[t] = "removed") =>
    HeldTyped(removed) /\ Known(vm, removed.id) /\ ~Theirs(vm, removed.id)

\* A thread past its grant has the one job of its object; one that waits for the
\* listed object has one to wait for.
Works(t) == pc[t] \in {"works", "saving", "saved"}
Writes(t) == pc[t] \in {"saving", "saved"}
ThreadOk(t) ==
  /\ pc[t] = "idle" => on[t] = "listed"
  /\ pc[t] # "idle" /\ on[t] = "listed" => vm.listed
  /\ Works(t) => \E j \in busy[on[t]] : j[1] = t
  /\ Writes(t) => op[t] \in Saves
  /\ pc[t] = "works" => op[t] \in Saves \cup {"devices"} \cup Starts
  /\ pc[t] = "waits" => op[t] \in Ops
  /\ ~Writes(t) => from[t] = 0
  /\ pc[t] # "saved" => saved[t] = 0
JobsOk ==
  /\ \A o \in Here : \A j, k \in busy[o] : j = k
  /\ \A t \in Threads : ThreadOk(t)

\* The guest of a save file, and the domain of that name.
Agreed(t) ==
  /\ Theirs(vm, from[t]) => on[t] = "listed" /\ vm.id = from[t]
  /\ /\ t \notin unlinked /\ from[t] \notin vm.orphans
     /\ IF pc[t] = "saving" THEN Old!Exists(vm, from[t]) ELSE saved[t] = from[t]
     => Old!HasDisksOf(vm, vm.saves[op[t]].def, from[t])
FileOk(t) ==
  Writes(t) =>
    /\ t \notin unlinked => vm.saves[op[t]] # NoDef
    /\ from[t] # 0 => Known(vm, from[t]) /\ Agreed(t)
FilesOk == \A t \in Threads : FileOk(t)

\* Neither Good nor FileOk is inductive alone: a thread may write to the definition of
\* an object or to a file only because it has the job (JobsOk), and one whose object
\* was removed has no guest of the driver's left to change (HeldOk).
ConfigInv == ThreadsTyped /\ Fine(vm) /\ HeldOk /\ JobsOk /\ FilesOk

ObjFacts(t) ==
  LET s == Object(t)
  IN  /\ Typed(s) /\ s.listed
      /\ s.xen = vm.xen /\ s.half = vm.half /\ s.saves = vm.saves /\ s.orphans = vm.orphans
      /\ s.status = vm.status
      /\ on[t] = "listed" => s = vm
      /\ on[t] = "removed" => ~Theirs(vm, s.id)

LEMMA ObjectFacts ==
  ASSUME ConfigInv, NEW t \in Threads, pc[t] # "idle"
  PROVE  ObjFacts(t)
<1>1. on[t] \in Here
  BY DEF ConfigInv, ThreadsTyped
<1>2. CASE on[t] = "listed"
  BY <1>2 DEF ObjFacts, ConfigInv, JobsOk, ThreadOk, Fine, Object
<1>3. CASE on[t] = "removed"
  <2> DEFINE s == Object(t)
  <2>1. /\ DOMAIN s = Fields
        /\ s.listed /\ s.xen = vm.xen /\ s.half = vm.half /\ s.saves = vm.saves /\ s.orphans = vm.orphans
        /\ s.status = vm.status /\ s.config = vm.config
        /\ s.def = removed.def /\ s.newDef = removed.newDef /\ s.id = removed.id
    BY <1>3 DEF Object, ConfigInv, Fine, Typed, Fields
  <2> HIDE DEF s
  <2>2. HeldTyped(removed) /\ Known(vm, removed.id) /\ ~Theirs(vm, removed.id)
    BY <1>3 DEF ConfigInv, HeldOk
  <2>3. Typed(s)
    BY <2>1, <2>2 DEF Typed, HeldTyped, Known, ConfigInv, Fine
  <2>4. /\ Typed(s) /\ s.listed
        /\ s.xen = vm.xen /\ s.half = vm.half /\ s.saves = vm.saves /\ s.orphans = vm.orphans /\ s.status = vm.status
        /\ on[t] = "listed" => s = vm
        /\ on[t] = "removed" => ~Theirs(vm, s.id)
    BY <1>3, <2>1, <2>2, <2>3
  <2> QED BY <2>4 DEF ObjFacts, s
<1> QED BY <1>1, <1>2, <1>3 DEF Here

LEMMA TouchesKeeps ==
  ASSUME NEW s, NEW u, Typed(s), Touches(s, u)
  PROVE  /\ \A i \in DomIds : /\ s.xen[i].state # "unused" => u.xen[i].state # "unused"
                              /\ Theirs(u, i) => Theirs(s, i)
                              /\ Old!Exists(u, i) => Old!Exists(s, i)
         /\ \A i : Known(s, i) => Known(u, i)
<1>1. \A i \in DomIds : /\ s.xen[i].state # "unused" => u.xen[i].state # "unused"
                        /\ Old!Exists(u, i) => Old!Exists(s, i)
  BY DEF Touches, Old!Exists, Old!Existing, Old!Stopped
<1> QED BY <1>1 DEF Touches, Theirs, Known

\* What the step of a thread on its object makes of the state.
LEMMA BecomesFine ==
  ASSUME ConfigInv, NEW t \in Threads, pc[t] # "idle", NEW u, Touches(Object(t), u), NEW stays,
         Becomes(t, u, stays)
  PROVE  /\ Fine(vm') /\ Keeps(vm, vm')
         /\ vm'.listed = vm.listed /\ vm'.xen = u.xen /\ vm'.half = u.half
         /\ vm'.saves = u.saves /\ vm'.orphans = vm.orphans
<1> DEFINE s == Object(t)
<1>1. ObjFacts(t)
  BY ObjectFacts
<1>2. on[t] \in Here
  BY DEF ConfigInv, ThreadsTyped
<1>3. CASE on[t] = "listed"
  <2>1. vm' = u /\ s = vm /\ vm.listed /\ Typed(vm) /\ Good(vm)
    BY <1>1, <1>3 DEF Becomes, ObjFacts, ConfigInv, Fine
  <2>2. \A i \in DomIds : /\ vm.xen[i].state # "unused" => u.xen[i].state # "unused"
                          /\ Theirs(u, i) => Theirs(vm, i)
                          /\ Old!Exists(u, i) => Old!Exists(vm, i)
    BY <2>1, TouchesKeeps
  <2>3. Touches(vm, u)
    BY <2>1
  <2>4. Good(u)
    <3>1. u.status # NoDef => u.status.id = 0 \/ u.status.id \in DomIds
      BY <2>3 DEF Touches, Typed, Known
    <3>2. u.listed /\ Theirs(u, u.id) /\ ~u.lost => Old!HasDisksOf(u, u.def, u.id)
      BY <2>1, <2>3 DEF Touches, Agrees, Good
    <3>3. u.status # NoDef /\ Theirs(u, u.status.id) => u.id = u.status.id
      BY <2>1, <2>2, <2>3, <3>1 DEF Touches, Good, Theirs, Old!Exists
    <3> QED BY <2>1, <2>3, <3>2, <3>3 DEF Good, Touches
  <2>5. Keeps(vm, u)
    BY <2>2, <2>3, <2>1 DEF Keeps, Touches
  <2> QED BY <2>1, <2>3, <2>4, <2>5 DEF Fine, Touches
<1>4. CASE on[t] = "removed"
  <2> DEFINE w == [u EXCEPT !.listed = vm.listed, !.persistent = vm.persistent,
                          !.autostart = vm.autostart, !.id = vm.id, !.state = vm.state,
                          !.def = vm.def, !.newDef = vm.newDef, !.lost = vm.lost]
  <2>1. vm' = w
    BY <1>4 DEF Becomes
  <2>2. /\ DOMAIN w = Fields /\ w.listed = vm.listed /\ w.id = vm.id /\ w.def = vm.def
        /\ w.newDef = vm.newDef /\ w.lost = vm.lost /\ w.config = u.config /\ w.status = u.status
        /\ w.saves = u.saves /\ w.xen = u.xen /\ w.half = u.half /\ w.orphans = u.orphans
    BY DEF Touches, Typed, Fields
  <2> HIDE DEF w
  <2>3. /\ Touches(s, u) /\ Typed(u) /\ Typed(s) /\ s.xen = vm.xen /\ s.half = vm.half /\ s.orphans = vm.orphans
        /\ s.status = vm.status /\ ~Theirs(vm, s.id)
    BY <1>1, <1>4 DEF ObjFacts, Touches
  <2> HIDE DEF s
  <2>4. \A i \in DomIds : /\ vm.xen[i].state # "unused" => w.xen[i].state # "unused"
                          /\ Theirs(w, i) => Theirs(vm, i) /\ i # s.id
                          /\ Old!Exists(w, i) => Old!Exists(vm, i)
    <3>1. \A i \in DomIds : /\ s.xen[i].state # "unused" => u.xen[i].state # "unused"
                            /\ Theirs(u, i) => Theirs(s, i)
                            /\ Old!Exists(u, i) => Old!Exists(s, i)
      BY <2>3, TouchesKeeps
    <3>2. \A i : /\ Old!Exists(w, i) <=> Old!Exists(u, i)
                 /\ Old!Exists(vm, i) <=> Old!Exists(s, i)
      BY <2>2, <2>3 DEF Old!Exists
    <3>3. \A i : /\ Theirs(w, i) <=> Theirs(u, i)
                 /\ Theirs(vm, i) <=> Theirs(s, i)
      BY <2>2, <2>3, <3>2 DEF Theirs
    <3> QED BY <2>2, <2>3, <3>1, <3>2, <3>3
  <2>5. Typed(w)
    BY <2>2, <2>3, <2>4 DEF Typed, Known, ConfigInv, Fine
  <2>6. Good(w)
    <3>1. w.status # NoDef => w.status.id = 0 \/ w.status.id \in DomIds
      BY <2>5 DEF Typed, Known
    <3>2. w.listed /\ Theirs(w, w.id) /\ ~w.lost => Old!HasDisksOf(w, w.def, w.id)
      <4>1. w.id = 0 \/ w.id \in DomIds
        BY <2>5 DEF Typed, Known
      <4>2. ~Theirs(w, 0)
        BY DEF Theirs, Old!Exists
      <4>3. \A i \in DomIds : i # s.id => w.xen[i] = vm.xen[i] /\ (i \in vm.half => i \in w.half)
        BY <2>2, <2>3 DEF Touches
      <4> QED BY <2>2, <2>4, <4>1, <4>2, <4>3 DEF Good, Old!HasDisksOf, ConfigInv, Fine
    <3>3. w.status # NoDef /\ Theirs(w, w.status.id) => w.listed /\ w.id = w.status.id
      <4>1. ~Theirs(w, 0)
        BY DEF Theirs, Old!Exists
      <4>2. w.status # NoDef => w.status = vm.status \/ w.status.id \in {0, s.id}
        BY <2>2, <2>3 DEF Touches
      <4> QED BY <2>2, <2>4, <3>1, <4>1, <4>2 DEF Good, ConfigInv, Fine
    <3> QED BY <2>2, <3>2, <3>3 DEF Good, ConfigInv, Fine
  <2>7. Keeps(vm, w)
    BY <2>2, <2>3, <2>4 DEF Keeps, Touches, ConfigInv, Fine, Typed, Known, Theirs, Old!Exists
  <2> QED BY <2>1, <2>2, <2>3, <2>5, <2>6, <2>7 DEF Fine, Touches
<1> QED BY <1>2, <1>3, <1>4 DEF Here

LEMMA BecomesHeld ==
  ASSUME ConfigInv, NEW t \in Threads, pc[t] # "idle", NEW u, Touches(Object(t), u), NEW stays,
         Becomes(t, u, stays), (stays /\ on' = on) \/ OnListed(t)
  PROVE  HeldOk'
<1> DEFINE s == Object(t)
<1>1. ObjFacts(t)
  BY ObjectFacts
<1>2. /\ Fine(vm') /\ Keeps(vm, vm') /\ vm'.xen = u.xen /\ vm'.orphans = vm.orphans
  BY BecomesFine
<1>3. SUFFICES ASSUME NEW v \in Threads, on'[v] = "removed"
               PROVE  HeldTyped(removed') /\ Known(vm', removed'.id) /\ ~Theirs(vm', removed'.id)
  BY DEF HeldOk, HeldTyped
<1>4. on[v] = "removed" /\ (~stays => v # t)
  BY <1>3 DEF OnListed, ConfigInv, ThreadsTyped
<1>5. HeldTyped(removed) /\ Known(vm, removed.id) /\ ~Theirs(vm, removed.id)
  BY <1>4 DEF ConfigInv, HeldOk
<1>6. CASE on[t] = "listed"
  <2>1. removed' = removed
    BY <1>6 DEF Becomes
  <2> QED BY <1>2, <1>5, <2>1 DEF Keeps, Known, Theirs, HeldTyped, Old!Exists
<1>7. CASE on[t] # "listed"
  <2>1. removed' = Memory(u)
    BY <1>4, <1>7 DEF Becomes
  <2>2. removed'.def = u.def /\ removed'.newDef = u.newDef /\ removed'.id = u.id
    BY <2>1 DEF Memory
  <2>3. Typed(u) /\ u.listed /\ u.id \in {0, s.id} /\ u.orphans = vm.orphans
    BY <1>1 DEF Touches, ObjFacts
  <2>4. ~Theirs(vm, s.id) /\ Typed(s) /\ s.xen = vm.xen
    BY <1>1, <1>7 DEF ObjFacts, ConfigInv, ThreadsTyped, Here
  <2>5. Known(vm', u.id)
    BY <1>2, <2>3 DEF Typed, Known
  <2>6. ~Theirs(vm', u.id)
    BY <1>2, <2>3, <2>4 DEF Keeps, Theirs, Old!Exists, Typed, Known
  <2>7. HeldTyped(removed')
    BY <2>2, <2>3 DEF Typed, HeldTyped
  <2> QED BY <2>2, <2>5, <2>6, <2>7
<1> QED BY <1>6, <1>7

(***************************************************************************)
(* Its preservation by what a thread does and by its return.               *)
(***************************************************************************)
\* A saving thread that a step leaves alone.
LEMMA FileKept ==
  ASSUME ConfigInv, NEW v \in Threads, Keeps(vm, vm'),
         pc'[v] = pc[v], op'[v] = op[v], saved'[v] = saved[v], from'[v] \in {from[v], 0},
         on'[v] = on[v] \/ ~vm'.listed,
         Writes(v) /\ v \notin unlinked' => v \notin unlinked /\ vm'.saves[op[v]] # NoDef,
         Writes(v) /\ v \notin unlinked' /\ from'[v] # 0 =>
           vm'.saves[op[v]].def = vm.saves[op[v]].def,
         Writes(v) /\ from'[v] # 0 /\ from[v] \notin vm.orphans => SameGuest(vm, vm', from[v])
  PROVE  FileOk(v)'
<1>1. SUFFICES ASSUME Writes(v), from'[v] # 0
               PROVE  Known(vm', from[v]) /\ Agreed(v)'
  BY DEF FileOk, Writes, Known, Agreed
<1>2. from'[v] = from[v]
  BY <1>1
<1>3. Known(vm, from[v]) /\ Agreed(v) /\ from[v] \in DomIds /\ (v \notin unlinked => vm.saves[op[v]] # NoDef)
  BY <1>1, <1>2 DEF ConfigInv, FilesOk, FileOk, Known
<1>4. Known(vm', from[v]) /\ (Old!Exists(vm', from[v]) => Old!Exists(vm, from[v]))
      /\ (Theirs(vm', from[v]) => Theirs(vm, from[v]))
  BY <1>1, <1>2, <1>3 DEF Keeps, Known, Theirs
<1>5. Theirs(vm', from[v]) => on'[v] = "listed" /\ vm'.id = from[v]
  <2>1. SUFFICES ASSUME Theirs(vm', from[v])
                 PROVE  on'[v] = "listed" /\ vm'.id = from[v]
    OBVIOUS
  <2>2. on[v] = "listed" /\ vm.id = from[v]
    BY <2>1, <1>3, <1>4 DEF Agreed
  <2>3. vm.listed
    BY <1>1, <2>2 DEF ConfigInv, JobsOk, ThreadOk, Writes
  <2> QED BY <2>1, <2>2, <2>3 DEF Keeps
<1>6. v \notin unlinked' /\ from[v] \notin vm'.orphans
      /\ (IF pc[v] = "saving" THEN Old!Exists(vm', from[v]) ELSE saved[v] = from[v])
      => Old!HasDisksOf(vm', vm'.saves[op[v]].def, from[v])
  BY <1>1, <1>2, <1>3, <1>4 DEF Agreed, Keeps, SameGuest, Old!HasDisksOf
<1> QED BY <1>2, <1>4, <1>5, <1>6 DEF Agreed

\* The others are untouched by what one thread and its object come to.
LEMMA OthersDisks ==
  ASSUME ConfigInv, NEW t \in Threads, Works(t), NEW v \in Threads \ {t},
         Writes(v), from[v] # 0, from[v] \notin vm.orphans
  PROVE  from[v] # Object(t).id \/ ~Old!Exists(vm, from[v])
<1> SUFFICES ASSUME from[v] = Object(t).id, Old!Exists(vm, from[v])
             PROVE  FALSE
  OBVIOUS
<1>1. ObjFacts(t)
  BY ObjectFacts DEF Works
<1>2. Theirs(vm, from[v])
  BY DEF Theirs
<1>3. on[v] = "listed" /\ vm.id = from[v]
  BY <1>2 DEF ConfigInv, FilesOk, FileOk, Agreed
<1>4. on[t] = "listed"
  BY <1>1, <1>2 DEF ObjFacts, ConfigInv, ThreadsTyped, Here
<1>5. \E j \in busy["listed"] : j[1] = t
  BY <1>4 DEF ConfigInv, JobsOk, ThreadOk
<1>6. \E k \in busy["listed"] : k[1] = v
  BY <1>3 DEF ConfigInv, JobsOk, ThreadOk, Works, Writes
<1> QED BY <1>5, <1>6 DEF ConfigInv, JobsOk, Here

\* A thread that returns.
LEMMA ReturnJobs ==
  ASSUME ConfigInv, NEW t \in Threads, NEW written, written \in [Threads -> DomIds \cup {0}],
         \A v \in Threads : written[v] \in {from[v], 0},
         Idles(t, written), OnListed(t), vm'.listed = vm.listed, UNCHANGED busy \/ Ends(t)
  PROVE  ThreadsTyped' /\ JobsOk'
<1>0. \A o \in Here : busy'[o] \subseteq busy[o] /\ \A j \in busy[o] : j[1] # t => j \in busy'[o]
  BY DEF Ends, ConfigInv, ThreadsTyped
<1>1. ThreadsTyped'
  <2>1. busy' \in [Here -> SUBSET (Threads \X {"modify", "async"})]
    BY DEF ConfigInv, ThreadsTyped, Ends
  <2>2. /\ pc' \in [Threads -> Where] /\ op' \in [Threads -> Ops \cup {"none"}] 
        /\ on' \in [Threads -> Here]
    BY DEF ConfigInv, ThreadsTyped, Idles, OnListed, Where, Here
  <2>3. /\ from' \in [Threads -> DomIds \cup {0}] /\ saved' \in [Threads -> DomIds \cup {0}]
        /\ unlinked' \subseteq Threads
    BY DEF ConfigInv, ThreadsTyped, Idles, Robbed
  <2> QED BY <2>1, <2>2, <2>3 DEF ThreadsTyped
<1>2. \A o \in Here : \A j, k \in busy'[o] : j = k
  BY <1>0 DEF ConfigInv, JobsOk
<1>3. ASSUME NEW v \in Threads
      PROVE  ThreadOk(v)'
  <2>1. CASE v = t
    BY <2>1 DEF ThreadOk, Works, Writes, Idles, OnListed, ConfigInv, ThreadsTyped
  <2>2. CASE v # t
    <3>1. pc'[v] = pc[v] /\ op'[v] = op[v] /\ on'[v] = on[v] /\ saved'[v] = saved[v]
          /\ from'[v] \in {from[v], 0}
      BY <2>2 DEF Idles, OnListed, ConfigInv, ThreadsTyped
    <3>2. ThreadOk(v) /\ on[v] \in Here
      BY DEF ConfigInv, JobsOk, ThreadsTyped
    <3>3. Works(v) => \E j \in busy'[on[v]] : j[1] = v
      BY <1>0, <2>2, <3>2 DEF ThreadOk
    <3> QED BY <3>1, <3>2, <3>3 DEF ThreadOk, Works, Writes
  <2> QED BY <2>1, <2>2
<1> QED BY <1>1, <1>2, <1>3 DEF JobsOk

\* What a call comes to, and its return.
LEMMA ActAndReturn ==
  ASSUME ConfigInv, NEW t \in Threads, pc[t] # "idle", NEW u, Touches(Object(t), u),
         Becomes(t, u, FALSE), OnListed(t), UNCHANGED busy \/ Ends(t),
         NEW written, written \in [Threads -> DomIds \cup {0}],
         \A v \in Threads : written[v] \in {from[v], 0}, Idles(t, written),
         Works(t) \/ (u.xen = vm.xen /\ u.half = vm.half),
         \A v \in Threads \ {t} : Writes(v) =>
           \/ u.saves[op[v]] = vm.saves[op[v]]
           \/ u.saves[op[v]] # NoDef /\ written[v] = 0
  PROVE  ConfigInv'
<1>1. /\ Fine(vm') /\ Keeps(vm, vm') /\ vm'.listed = vm.listed /\ vm'.xen = u.xen /\ vm'.half = u.half
      /\ vm'.saves = u.saves /\ vm'.orphans = vm.orphans
  BY BecomesFine
<1>2. HeldOk'
  BY BecomesHeld
<1>3. ThreadsTyped' /\ JobsOk'
  BY <1>1, ReturnJobs
<1>4. ASSUME NEW v \in Threads
      PROVE  FileOk(v)'
  <2>1. CASE v = t
    BY <2>1 DEF FileOk, Writes, Idles, ConfigInv, ThreadsTyped
  <2>2. CASE v # t
    <3>1. /\ pc'[v] = pc[v] /\ op'[v] = op[v] /\ saved'[v] = saved[v] /\ on'[v] = on[v]
          /\ from'[v] = written[v] /\ unlinked' = (unlinked \cup Robbed(vm')) \ {t}
      BY <2>2 DEF Idles, OnListed, ConfigInv, ThreadsTyped
    <3>2. Writes(v) /\ v \notin unlinked' => v \notin unlinked /\ vm'.saves[op[v]] # NoDef
      BY <2>2, <3>1 DEF ConfigInv, FilesOk, FileOk, Robbed, Writes
    <3>3. Writes(v) /\ from'[v] # 0 => vm'.saves[op[v]].def = vm.saves[op[v]].def
      BY <1>1, <2>2, <3>1
    <3>4. ASSUME Writes(v), from'[v] # 0, from[v] \notin vm.orphans
          PROVE  SameGuest(vm, vm', from[v])
      <4>1. from[v] = from'[v] /\ from[v] \in DomIds
        BY <3>1, <3>4 DEF ConfigInv, ThreadsTyped
      <4>2. CASE Works(t)
        <5>1. from[v] # Object(t).id \/ ~Old!Exists(vm, from[v])
          BY <4>1, <4>2, <2>2, <3>4, OthersDisks
        <5>2. Object(t).xen = vm.xen /\ Object(t).half = vm.half
          BY ObjectFacts DEF ObjFacts
        <5> QED BY <1>1, <4>1, <5>1, <5>2 DEF Touches, SameGuest, Old!Exists
      <4>3. CASE u.xen = vm.xen /\ u.half = vm.half
        BY <1>1, <4>3 DEF SameGuest
      <4> QED BY <4>2, <4>3
    <3> QED BY <1>1, <3>1, <3>2, <3>3, <3>4, FileKept
  <2> QED BY <2>1, <2>2
<1> QED BY <1>1, <1>2, <1>3, <1>4 DEF ConfigInv, FilesOk

LEMMA XenStateSteps ==
  ASSUME NEW s, Fine(s), NEW i \in DomIds, Old!Exists(s, i), NEW v \in Old!Existing
  PROVE  LET u == [s EXCEPT !.xen[i].state = v]
         IN  /\ Steps(s, u)
             /\ u.listed = s.listed /\ u.id = s.id /\ u.saves = s.saves /\ u.orphans = s.orphans
<1> DEFINE u == [s EXCEPT !.xen[i].state = v]
<1>0. i # 0 /\ v # "unused" /\ s.xen[i].state # "unused"
  BY NoGuestZero DEF Old!Exists, Old!Existing, Old!Stopped
<1>2. /\ DOMAIN u = Fields /\ DOMAIN u.xen = DomIds
      /\ u.xen[i].state = v /\ u.xen[i].disks = s.xen[i].disks
      /\ DOMAIN u.xen[i] = {"state", "disks"}
      /\ \A j \in DomIds \ {i} : u.xen[j] = s.xen[j]
      /\ u.half = s.half
      /\ u.listed = s.listed /\ u.id = s.id /\ u.orphans = s.orphans /\ u.saves = s.saves
      /\ u.def = s.def /\ u.newDef = s.newDef /\ u.status = s.status /\ u.config = s.config
      /\ u.lost = s.lost
  BY DEF Fine, Typed, Fields
<1> HIDE DEF u
<1>1. Typed(u)
  BY <1>0, <1>2 DEF Fine, Typed, Known
<1>4. \A j : (j = 0 \/ j \in DomIds) => (Old!Exists(u, j) <=> Old!Exists(s, j))
  BY <1>0, <1>2 DEF Old!Exists
<1>3. Good(u)
  <2>1. u.listed /\ Theirs(u, u.id) /\ ~u.lost => Old!HasDisksOf(u, u.def, u.id)
    BY <1>1, <1>2, <1>4 DEF Fine, Good, Old!HasDisksOf, Theirs, Typed, Known, Old!Exists
  <2>2. u.status # NoDef /\ Theirs(u, u.status.id) => u.listed /\ u.id = u.status.id
    BY <1>1, <1>2, <1>4 DEF Fine, Good, Theirs, Typed, Known
  <2> QED BY <2>1, <2>2, <1>2 DEF Fine, Good
<1>6. Keeps(s, u)
  BY <1>0, <1>2, <1>4 DEF Keeps, Theirs, Fine, Typed, Known
<1>7. SameDisks(s, u) /\ NoNewFile(s, u)
  BY <1>2 DEF SameDisks, SameGuest, NoNewFile
<1> QED BY <1>1, <1>2, <1>3, <1>6, <1>7 DEF Steps, Fine, u

(***************************************************************************)
(* The calls that wait.                                                    *)
(***************************************************************************)
LEMMA InitInv == Init => ConfigInv
<1> SUFFICES ASSUME Init PROVE ConfigInv
  OBVIOUS
<1>1. PICK d \in Old!XmlDefs :
        vm = [Old!Nothing EXCEPT !.listed = TRUE, !.persistent = TRUE, !.def = d, !.config = d]
  BY DEF Init, Old!Init
<1>2. d \in Old!Defs
  BY XmlDefsAreDefs
<1>3. Typed(vm)
  BY <1>1, <1>2 DEF Typed, Known, Old!Nothing, Old!NoGuest, Fields, DomIds
<1>4. Good(vm)
  BY <1>1 DEF Good, Theirs, Old!Exists, Old!Nothing
<1>5. ThreadsTyped /\ JobsOk
  BY <1>1 DEF Init, ThreadsTyped, JobsOk, ThreadOk, Works, Writes, Where, Here, Old!Nothing
<1>6. HeldOk /\ FilesOk
  BY DEF Init, HeldOk, FilesOk, FileOk, Writes
<1> QED BY <1>3, <1>4, <1>5, <1>6 DEF ConfigInv, Fine

LEMMA CallInv ==
  ASSUME ConfigInv, NEW t \in Threads, NEW o \in Ops, Call(t, o)
  PROVE  ConfigInv'
<1>1. /\ UNCHANGED <<vm, on, removed, busy, from, saved, unlinked>> /\ vm.listed /\ pc[t] = "idle"
      /\ pc' = [pc EXCEPT ![t] = "waits"] /\ op' = [op EXCEPT ![t] = o]
  BY DEF Call
<1>2. ThreadsTyped'
  BY <1>1 DEF ConfigInv, ThreadsTyped, Where
<1>3. HeldOk' /\ Fine(vm')
  BY <1>1 DEF ConfigInv, HeldOk
<1>4. ASSUME NEW v \in Threads
      PROVE  ThreadOk(v)' /\ FileOk(v)'
  <2>1. ThreadOk(v) /\ FileOk(v)
    BY DEF ConfigInv, JobsOk, FilesOk
  <2>2. CASE v = t
    BY <1>1, <2>1, <2>2 DEF ThreadOk, FileOk, Works, Writes, ConfigInv, ThreadsTyped
  <2>3. CASE v # t
    BY <1>1, <2>1, <2>3 DEF ThreadOk, FileOk, Agreed, Works, Writes, ConfigInv, ThreadsTyped
  <2> QED BY <2>2, <2>3
<1>5. \A o2 \in Here : \A j, k \in busy'[o2] : j = k
  BY <1>1 DEF ConfigInv, JobsOk
<1> QED BY <1>2, <1>3, <1>4, <1>5 DEF ConfigInv, JobsOk, FilesOk

\* libxlDomainCreateXML and libxlDomainRestoreFlags give the object its definition, and wait.
LEMMA AssignedSteps ==
  ASSUME Fine(vm), NEW t \in Threads, CallWithDef(t)
  PROVE  /\ Steps(vm, vm') /\ vm'.listed /\ vm'.saves = vm.saves /\ vm'.state = vm.state
         /\ pc[t] = "idle" /\ pc' = [pc EXCEPT ![t] = "waits"]
         /\ \E o \in Starts : op' = [op EXCEPT ![t] = o]
         /\ UNCHANGED <<on, removed, busy, from, saved, unlinked>>
<1>1. PICK d \in Old!Defs, live \in BOOLEAN : vm' = Old!AssignDef(vm, d, live)
  BY XmlDefsAreDefs, FileDef DEF CallWithDef, Fine, Old!Paths
<1>2. Steps(vm, vm') /\ vm'.listed /\ vm'.saves = vm.saves
  BY <1>1, AssignSteps
<1>3. vm'.state = vm.state
  BY <1>1 DEF Fine, Typed, Fields, Old!AssignDef
<1> QED BY <1>2, <1>3 DEF CallWithDef, Starts

LEMMA CallWithDefInv ==
  ASSUME ConfigInv, NEW t \in Threads, CallWithDef(t)
  PROVE  ConfigInv'
<1>1. /\ Steps(vm, vm') /\ vm'.listed /\ vm'.saves = vm.saves
      /\ pc[t] = "idle" /\ pc' = [pc EXCEPT ![t] = "waits"]
      /\ UNCHANGED <<on, removed, busy, from, saved, unlinked>>
  BY AssignedSteps DEF ConfigInv
<1>0. PICK o \in Starts : op' = [op EXCEPT ![t] = o]
  BY AssignedSteps DEF ConfigInv
<1>2. ThreadsTyped'
  BY <1>0, <1>1 DEF ConfigInv, ThreadsTyped, Where, Ops
<1>3. HeldOk'
  BY <1>1 DEF ConfigInv, HeldOk, Steps, Keeps, Known, Theirs, Old!Exists
<1>4. ASSUME NEW v \in Threads
      PROVE  ThreadOk(v)' /\ FileOk(v)'
  <2>1. ThreadOk(v) /\ FileOk(v)
    BY DEF ConfigInv, JobsOk, FilesOk
  <2>2. CASE v = t
    BY <1>0, <1>1, <2>1, <2>2 DEF ThreadOk, FileOk, Works, Writes, ConfigInv, ThreadsTyped, Ops
  <2>3. CASE v # t
    <3>1. pc'[v] = pc[v] /\ op'[v] = op[v]
      BY <1>0, <1>1, <2>3 DEF ConfigInv, ThreadsTyped
    <3>2. ThreadOk(v)'
      BY <1>1, <2>1, <3>1 DEF ThreadOk, Works, Writes
    <3>3. Writes(v) /\ from[v] # 0 => SameGuest(vm, vm', from[v])
      BY <1>1, <2>1 DEF FileOk, Known, Steps, SameDisks
    <3>4. FileOk(v)'
      BY <1>1, <2>1, <3>1, <3>3, FileKept DEF FileOk, Steps
    <3> QED BY <3>2, <3>4
  <2> QED BY <2>2, <2>3
<1>5. \A o2 \in Here : \A j, k \in busy'[o2] : j = k
  BY <1>1 DEF ConfigInv, JobsOk
<1> QED BY <1>1, <1>2, <1>3, <1>4, <1>5 DEF ConfigInv, JobsOk, FilesOk, Steps

LEMMA GrantInv ==
  ASSUME ConfigInv, NEW t \in Threads, Grant(t)
  PROVE  ConfigInv'
<1> DEFINE job == <<t, IF op[t] \in {"devices", "create"} THEN "modify" ELSE "async">>
<1>1. /\ UNCHANGED <<vm, on, op, removed, from, saved, unlinked>> /\ pc[t] = "waits"
      /\ op[t] # "amounts" /\ busy[on[t]] = {}
      /\ pc' = [pc EXCEPT ![t] = "works"] /\ busy' = [busy EXCEPT ![on[t]] = @ \cup {job}]
  BY DEF Grant, Granted, Begins, MayModify
<1>0. on[t] \in Here /\ job \in Threads \X {"modify", "async"} /\ job[1] = t
  BY DEF ConfigInv, ThreadsTyped
<1> HIDE DEF job
<1>2. ThreadsTyped'
  BY <1>0, <1>1 DEF ConfigInv, ThreadsTyped, Where
<1>3. HeldOk' /\ Fine(vm')
  BY <1>1 DEF ConfigInv, HeldOk
<1>6. busy'[on[t]] = {job} /\ \A o \in Here \ {on[t]} : busy'[o] = busy[o]
  BY <1>0, <1>1 DEF ConfigInv, ThreadsTyped
<1>4. ASSUME NEW v \in Threads
      PROVE  ThreadOk(v)' /\ FileOk(v)'
  <2>1. ThreadOk(v) /\ FileOk(v)
    BY DEF ConfigInv, JobsOk, FilesOk
  <2>2. CASE v = t
    <3>1. op[t] \in Saves \cup {"devices"} \cup Starts
      BY <1>1, <2>1, <2>2 DEF ThreadOk, Ops, Saves
    <3> QED BY <1>0, <1>1, <1>6, <2>1, <2>2, <3>1 DEF ThreadOk, FileOk, Works, Writes, ConfigInv, ThreadsTyped
  <2>3. CASE v # t
    <3>1. on[v] \in Here
      BY DEF ConfigInv, ThreadsTyped
    <3>2. Works(v) => on[v] # on[t]
      BY <1>1, <2>1 DEF ThreadOk
    <3>3. pc'[v] = pc[v]
      BY <1>1, <2>3 DEF ConfigInv, ThreadsTyped
    <3> QED BY <1>1, <1>6, <2>1, <3>1, <3>2, <3>3 DEF ThreadOk, FileOk, Agreed, Works, Writes
  <2> QED BY <2>2, <2>3
<1>5. \A o2 \in Here : \A j, k \in busy'[o2] : j = k
  BY <1>6 DEF ConfigInv, JobsOk
<1> QED BY <1>2, <1>3, <1>4, <1>5 DEF ConfigInv, JobsOk, FilesOk

LEMMA GiveUpInv ==
  ASSUME ConfigInv, NEW t \in Threads, GiveUp(t)
  PROVE  ConfigInv'
<1>1. pc[t] # "idle" /\ Becomes(t, Object(t), FALSE) /\ Idles(t, from) /\ OnListed(t) /\ UNCHANGED busy
  BY DEF GiveUp, Returns, Idle
<1>2. ObjFacts(t)
  BY <1>1, ObjectFacts
<1>3. Touches(Object(t), Object(t)) /\ Object(t).xen = vm.xen /\ Object(t).half = vm.half /\ Object(t).saves = vm.saves
  BY <1>2, ActsSame DEF ObjFacts, Acts
<1>4. from \in [Threads -> DomIds \cup {0}]
  BY DEF ConfigInv, ThreadsTyped
<1> QED BY <1>1, <1>3, <1>4, ActAndReturn

LEMMA SetAmountsInv ==
  ASSUME ConfigInv, NEW t \in Threads, SetAmounts(t)
  PROVE  ConfigInv'
<1>1. PICK r \in SetMemory(Object(t)) \cup SetVcpus(Object(t)) : Becomes(t, r.s, FALSE)
  BY DEF SetAmounts
<1>2. pc[t] = "waits" /\ Idles(t, from) /\ OnListed(t) /\ UNCHANGED busy
  BY DEF SetAmounts, Returns, Idle
<1>3. ObjFacts(t)
  BY <1>2, ObjectFacts
<1>4. Resembles(Object(t), r.s)
  BY <1>3, SetMemoryResembles, SetVcpusResembles DEF ObjFacts
<1>5. Touches(Object(t), r.s) /\ r.s.xen = vm.xen /\ r.s.half = vm.half /\ r.s.saves = vm.saves
  BY <1>3, <1>4, ResembleActs DEF ObjFacts, Acts, Resembles
<1>6. from \in [Threads -> DomIds \cup {0}]
  BY DEF ConfigInv, ThreadsTyped
<1> DEFINE u == r.s
<1>7. Becomes(t, u, FALSE) /\ Touches(Object(t), u) /\ u.xen = vm.xen /\ u.half = vm.half /\ u.saves = vm.saves
  BY <1>1, <1>5
<1> HIDE DEF u
<1> QED BY <1>2, <1>6, <1>7, ActAndReturn

LEMMA ModifyDeviceInv ==
  ASSUME ConfigInv, NEW t \in Threads, ModifyDevice(t)
  PROVE  ConfigInv'
<1>1. PICK r \in DeviceCalls(Object(t)) : Becomes(t, r.s, FALSE)
  BY DEF ModifyDevice
<1>2. pc[t] = "works" /\ Idles(t, from) /\ OnListed(t) /\ Ends(t)
  BY DEF ModifyDevice, Returns, Idle
<1>3. ObjFacts(t)
  BY <1>2, ObjectFacts
<1>4. Acts(Object(t), r.s)
  BY <1>3, DeviceCallsActs DEF ObjFacts
<1>5. Touches(Object(t), r.s) /\ r.s.saves = vm.saves
  BY <1>3, <1>4 DEF ObjFacts, Acts
<1>6. from \in [Threads -> DomIds \cup {0}]
  BY DEF ConfigInv, ThreadsTyped
<1> DEFINE u == r.s
<1>7. Becomes(t, u, FALSE) /\ Touches(Object(t), u) /\ u.saves = vm.saves
  BY <1>1, <1>5
<1> HIDE DEF u
<1> QED BY <1>2, <1>6, <1>7, ActAndReturn DEF Works

(***************************************************************************)
(* A save, in its three critical sections.                                 *)
(***************************************************************************)
LEMMA WroteTouches ==
  ASSUME NEW s, Typed(s), s.listed, NEW p \in Old!Paths, NEW f \in Old!SaveFiles
  PROVE  LET u == [s EXCEPT !.saves[p] = f]
         IN  /\ Touches(s, u) /\ u.xen = s.xen /\ u.half = s.half /\ u.saves = [s.saves EXCEPT ![p] = f]
             /\ Agrees(s) => Agrees(u)
<1> DEFINE u == [s EXCEPT !.saves[p] = f]
<1>1. /\ DOMAIN u = Fields
      /\ u.saves = [s.saves EXCEPT ![p] = f]
      /\ u.listed = s.listed /\ u.id = s.id /\ u.orphans = s.orphans /\ u.xen = s.xen /\ u.half = s.half
      /\ u.def = s.def /\ u.newDef = s.newDef /\ u.config = s.config /\ u.status = s.status
      /\ u.lost = s.lost
  BY DEF Typed, Fields
<1> HIDE DEF u
<1>2. Typed(u)
  BY <1>1 DEF Typed, Known
<1>3. Agrees(s) => Agrees(u)
  BY <1>1 DEF Agrees, Old!HasDisksOf, Theirs, Old!Exists
<1>4. Touches(s, u)
  BY <1>1, <1>2, <1>3 DEF Touches, SameGuest
<1> QED BY <1>1, <1>3, <1>4 DEF u

LEMMA SavesArePaths == Saves = Old!Paths
  BY DEF Saves, Old!Paths

\* A thread that starts to save: the file has the definition, which is the guest's
\* unless a restart lost what the guest has.
LEMMA SavingInv ==
  ASSUME ConfigInv, NEW t \in Threads, pc[t] = "works", op[t] \in Saves,
         Object(t).def # NoDef,
         Becomes(t, [Object(t) EXCEPT !.saves[op[t]] = [def |-> Object(t).def, whole |-> FALSE]], TRUE),
         pc' = [pc EXCEPT ![t] = "saving"],
         from' = [Overwrites(t) EXCEPT ![t] = IF Object(t).lost THEN 0 ELSE Object(t).id],
         UNCHANGED <<op, on, busy, saved, unlinked>>
  PROVE  ConfigInv'
<1> DEFINE s == Object(t)
           f == [def |-> s.def, whole |-> FALSE]
           u == [s EXCEPT !.saves[op[t]] = f]
<1>1. ObjFacts(t)
  BY ObjectFacts
<1>2. f \in Old!SaveFiles /\ f # NoDef /\ f.def = s.def /\ op[t] \in Old!Paths
  <2>1. s.def \in Old!Defs
    BY <1>1 DEF ObjFacts, Typed
  <2>2. f \in Old!SaveFiles
    BY <2>1 DEF Old!SaveFiles
  <2>3. f # NoDef
    BY <2>2, NoDefAssumption
  <2> QED BY <2>2, <2>3, SavesArePaths
<1>3. Becomes(t, u, TRUE)
  OBVIOUS
<1> HIDE DEF f
<1>4. Touches(s, u) /\ u.xen = s.xen /\ u.half = s.half /\ u.saves = [s.saves EXCEPT ![op[t]] = f]
  <2>1. Typed(s) /\ s.listed
    BY <1>1 DEF ObjFacts
  <2> HIDE DEF s
  <2> QED BY <1>2, <2>1, WroteTouches
<1> HIDE DEF u
<1>5. /\ Fine(vm') /\ Keeps(vm, vm') /\ vm'.listed = vm.listed /\ vm'.xen = u.xen /\ vm'.half = u.half
      /\ vm'.saves = u.saves /\ vm'.orphans = vm.orphans
  BY <1>3, <1>4, BecomesFine
<1>6. HeldOk'
  BY <1>3, <1>4, BecomesHeld
<1>7. s.id \in DomIds \cup {0}
  BY <1>1 DEF ObjFacts, Typed, Known
<1>8. \A v \in Threads \ {t} : pc'[v] = pc[v] /\ from'[v] \in {from[v], 0} /\ (op[v] = op[t] => from'[v] = 0)
  BY DEF ConfigInv, ThreadsTyped, Overwrites
<1>9. pc'[t] = "saving" /\ from'[t] = IF s.lost THEN 0 ELSE s.id
  BY DEF ConfigInv, ThreadsTyped, Overwrites
<1>10. ThreadsTyped'
  <2>1. Overwrites(t) \in [Threads -> DomIds \cup {0}]
    BY DEF Overwrites, ConfigInv, ThreadsTyped
  <2> QED BY <1>7, <2>1 DEF ConfigInv, ThreadsTyped, Where
<1>11. JobsOk'
  <2>1. ASSUME NEW v \in Threads
        PROVE  ThreadOk(v)'
    <3>1. ThreadOk(v)
      BY DEF ConfigInv, JobsOk
    <3> QED BY <1>5, <1>8, <1>9, <3>1 DEF ThreadOk, Works, Writes
  <2> QED BY <2>1 DEF ConfigInv, JobsOk
<1>12. ASSUME NEW v \in Threads
       PROVE  FileOk(v)'
  <2>1. CASE v # t
    <3>1. Writes(v) => op[v] \in Saves /\ (v \notin unlinked => vm.saves[op[v]] # NoDef)
      BY DEF ConfigInv, JobsOk, ThreadOk, FilesOk, FileOk
    <3>2. vm'.saves = [vm.saves EXCEPT ![op[t]] = f] /\ DOMAIN vm.saves = Old!Paths /\ vm'.xen = vm.xen /\ vm'.half = vm.half
      BY <1>1, <1>4, <1>5 DEF ObjFacts, ConfigInv, Fine, Typed
    <3>3. Writes(v) /\ v \notin unlinked => vm'.saves[op[v]] # NoDef
      BY <1>2, <3>1, <3>2, SavesArePaths
    <3>4. Writes(v) /\ from'[v] # 0 => vm'.saves[op[v]] = vm.saves[op[v]]
      BY <1>8, <2>1, <3>1, <3>2, SavesArePaths
    <3>5. SameGuest(vm, vm', from[v])
      BY <3>2 DEF SameGuest
    <3> QED BY <1>5, <1>8, <2>1, <3>3, <3>4, <3>5, FileKept
  <2>2. CASE v = t
    <3>1. vm'.saves[op[t]] = f /\ vm'.xen = vm.xen /\ vm'.half = vm.half
      BY <1>1, <1>2, <1>4, <1>5 DEF ObjFacts, Typed
    <3>2. ASSUME from'[t] # 0
          PROVE  Known(vm', from'[t]) /\ Agreed(t)'
      <4>1. from'[t] = s.id /\ ~s.lost
        BY <1>9, <3>2
      <4>2. Known(vm, s.id) /\ Known(vm', s.id)
        BY <1>1, <3>1 DEF ObjFacts, Typed, Known
      <4>3. CASE on[t] = "listed"
        <5>1. s = vm /\ vm' = u /\ vm'.id = vm.id
          BY <1>1, <1>3, <4>3 DEF ObjFacts, Becomes, u, ConfigInv, Fine, Typed, Fields
        <5>2. Old!Exists(vm', vm.id) /\ vm.id \notin vm'.orphans => Old!HasDisksOf(vm', f.def, vm.id)
          BY <1>2, <1>5, <3>1, <4>1, <5>1, <1>1
             DEF ObjFacts, ConfigInv, Fine, Good, Old!HasDisksOf, Theirs, Old!Exists
        <5>3. Theirs(vm', from'[t]) => on'[t] = "listed" /\ vm'.id = from'[t]
          BY <4>1, <4>3, <5>1
        <5> QED BY <1>9, <3>1, <4>1, <4>2, <5>1, <5>2, <5>3 DEF Agreed
      <4>4. CASE on[t] # "listed"
        <5>1. ~Theirs(vm, s.id)
          BY <1>1, <4>4 DEF ObjFacts, ConfigInv, ThreadsTyped, Here
        <5>2. ~Theirs(vm', s.id) /\ (Old!Exists(vm', s.id) => s.id \in vm'.orphans)
          BY <1>5, <3>1, <5>1 DEF Theirs, Old!Exists
        <5> QED BY <1>9, <4>1, <4>2, <5>2 DEF Agreed
      <4> QED BY <4>3, <4>4
    <3> QED BY <1>2, <2>2, <3>1, <3>2 DEF FileOk
  <2> QED BY <2>1, <2>2
<1> QED BY <1>5, <1>6, <1>10, <1>11, <1>12 DEF ConfigInv, FilesOk

LEMMA SaveBeginInv ==
  ASSUME ConfigInv, NEW t \in Threads, SaveBegin(t)
  PROVE  ConfigInv'
<1> DEFINE s == Object(t)
           file(d) == [s EXCEPT !.saves[op[t]] = [def |-> d, whole |-> FALSE]]
<1>1. /\ pc[t] = "works" /\ op[t] \in Saves
      /\ \/ /\ s.def # NoDef
            /\ Becomes(t, file(s.def), TRUE)
            /\ pc' = [pc EXCEPT ![t] = "saving"]
            /\ from' = [Overwrites(t) EXCEPT ![t] = IF s.lost THEN 0 ELSE s.id]
            /\ UNCHANGED <<op, on, busy, saved, unlinked>>
         \/ Becomes(t, s, FALSE) /\ Idles(t, from) /\ Ends(t) /\ OnListed(t)
         \/ Becomes(t, file(NoDef), FALSE) /\ Idles(t, Overwrites(t)) /\ Ends(t) /\ OnListed(t)
  BY DEF SaveBegin, Idle
<1>2. ObjFacts(t)
  BY <1>1, ObjectFacts
<1>3. CASE /\ s.def # NoDef
           /\ Becomes(t, file(s.def), TRUE)
           /\ pc' = [pc EXCEPT ![t] = "saving"]
           /\ from' = [Overwrites(t) EXCEPT ![t] = IF s.lost THEN 0 ELSE s.id]
           /\ UNCHANGED <<op, on, busy, saved, unlinked>>
  BY <1>1, <1>3, SavingInv
<1>4. CASE Becomes(t, s, FALSE) /\ Idles(t, from) /\ Ends(t) /\ OnListed(t)
  <2>1. Touches(s, s) /\ s.xen = vm.xen /\ s.half = vm.half /\ s.saves = vm.saves
    BY <1>2, ActsSame DEF ObjFacts, Acts
  <2>2. from \in [Threads -> DomIds \cup {0}]
    BY DEF ConfigInv, ThreadsTyped
  <2> QED BY <1>1, <1>4, <2>1, <2>2, ActAndReturn
<1>5. CASE Becomes(t, file(NoDef), FALSE) /\ Idles(t, Overwrites(t)) /\ Ends(t) /\ OnListed(t)
  <2> DEFINE f == [def |-> NoDef, whole |-> FALSE]
             u == [s EXCEPT !.saves[op[t]] = f]
             written == Overwrites(t)
  <2>1. f \in Old!SaveFiles /\ f # NoDef /\ op[t] \in Old!Paths
    <3>1. f \in Old!SaveFiles
      BY DEF Old!SaveFiles
    <3>2. f # NoDef
      BY <3>1, NoDefAssumption
    <3> QED BY <1>1, <3>1, <3>2, SavesArePaths
  <2>2. Becomes(t, u, FALSE)
    BY <1>5
  <2> HIDE DEF f
  <2>3. Touches(s, u) /\ u.xen = vm.xen /\ u.half = vm.half /\ u.saves = [vm.saves EXCEPT ![op[t]] = f]
    BY <1>2, <2>1, WroteTouches DEF ObjFacts
  <2> HIDE DEF u
  <2>4. /\ written \in [Threads -> DomIds \cup {0}]
        /\ \A v \in Threads : written[v] \in {from[v], 0} /\ (op[v] = op[t] => written[v] = 0)
    BY DEF Overwrites, ConfigInv, ThreadsTyped
  <2>5. \A v \in Threads \ {t} : Writes(v) =>
           \/ u.saves[op[v]] = vm.saves[op[v]]
           \/ u.saves[op[v]] # NoDef /\ written[v] = 0
    BY <1>1, <2>1, <2>3, <2>4, SavesArePaths DEF ConfigInv, JobsOk, ThreadOk, Fine, Typed
  <2>6. Idles(t, written)
    BY <1>5
  <2> HIDE DEF written
  <2> QED BY <1>1, <1>5, <2>2, <2>3, <2>4, <2>5, <2>6, ActAndReturn DEF Works
<1> QED BY <1>1, <1>3, <1>4, <1>5

LEMMA WholeSteps ==
  ASSUME NEW s, Typed(s), NEW p \in Old!Paths, s.saves[p] # NoDef
  PROVE  LET u == [s EXCEPT !.saves[p].whole = TRUE]
         IN  /\ Typed(u) /\ (Good(s) => Good(u)) /\ u.listed = s.listed /\ u.id = s.id
             /\ u.xen = s.xen /\ u.half = s.half /\ u.orphans = s.orphans
             /\ \A q \in Old!Paths : /\ u.saves[q] = NoDef => s.saves[q] = NoDef
                                     /\ u.saves[q].def = s.saves[q].def
<1> DEFINE u == [s EXCEPT !.saves[p].whole = TRUE]
<1>1. /\ DOMAIN u = Fields
      /\ u.saves = [s.saves EXCEPT ![p].whole = TRUE]
      /\ u.listed = s.listed /\ u.id = s.id /\ u.orphans = s.orphans /\ u.xen = s.xen /\ u.half = s.half
      /\ u.def = s.def /\ u.newDef = s.newDef /\ u.config = s.config /\ u.status = s.status
      /\ u.lost = s.lost
  BY DEF Typed, Fields
<1> HIDE DEF u
<1>2. s.saves[p] \in Old!SaveFiles /\ DOMAIN s.saves = Old!Paths
  BY DEF Typed
<1>3. /\ u.saves[p] = [s.saves[p] EXCEPT !.whole = TRUE]
      /\ \A q \in Old!Paths \ {p} : u.saves[q] = s.saves[q]
  BY <1>1, <1>2
<1>4. u.saves[p] \in Old!SaveFiles /\ u.saves[p].def = s.saves[p].def
  BY <1>2, <1>3 DEF Old!SaveFiles
<1>5. u.saves[p] # NoDef
  BY <1>4, NoDefAssumption
<1>6. DOMAIN u.saves = Old!Paths
  BY <1>1, <1>2
<1>7. Typed(u)
  BY <1>1, <1>3, <1>4, <1>6 DEF Typed, Known
<1>8. Good(s) => Good(u)
  BY <1>1 DEF Good, Old!HasDisksOf, Theirs, Old!Exists
<1> QED BY <1>1, <1>3, <1>4, <1>5, <1>7, <1>8 DEF u

LEMMA SaveGuestInv ==
  ASSUME ConfigInv, NEW t \in Threads, SaveGuest(t)
  PROVE  ConfigInv'
<1> DEFINE i == Object(t).id
           alive == i # 0 /\ vm.xen[i].state = "running"
           suspended == [vm EXCEPT !.xen[i].state = "suspended"]
           whole == [suspended EXCEPT !.saves[op[t]].whole = TRUE]
<1>1. /\ pc[t] = "saving" /\ pc' = [pc EXCEPT ![t] = "saved"]
      /\ UNCHANGED <<op, on, removed, busy, from, unlinked>>
      /\ \/ alive /\ vm' = (IF t \in unlinked THEN suspended ELSE whole) /\ saved' = [saved EXCEPT ![t] = i]
         \/ vm' \in {vm} \cup (IF alive THEN {suspended} ELSE {}) /\ saved' = saved
  BY DEF SaveGuest
<1>2. ObjFacts(t) /\ i \in DomIds \cup {0}
  BY <1>1, ObjectFacts DEF ObjFacts, Typed, Known
<1>3. Fine(vm) /\ op[t] \in Old!Paths /\ (t \notin unlinked => vm.saves[op[t]] # NoDef)
  BY <1>1, SavesArePaths DEF ConfigInv, JobsOk, ThreadOk, FilesOk, FileOk, Writes
<1>4. alive => /\ Steps(vm, suspended) /\ suspended.listed = vm.listed /\ suspended.id = vm.id
               /\ suspended.saves = vm.saves /\ suspended.orphans = vm.orphans
               /\ i \in DomIds /\ Old!Exists(vm, i)
  <2> SUFFICES ASSUME alive
               PROVE  /\ Steps(vm, suspended) /\ suspended.listed = vm.listed /\ suspended.id = vm.id
                      /\ suspended.saves = vm.saves /\ suspended.orphans = vm.orphans
                      /\ i \in DomIds /\ Old!Exists(vm, i)
    OBVIOUS
  <2>1. i \in DomIds /\ Old!Exists(vm, i)
    BY <1>2 DEF Old!Exists, Old!Existing
  <2>2. "suspended" \in Old!Existing
    BY DEF Old!Existing, Old!Stopped
  <2> QED BY <1>3, <2>1, <2>2, XenStateSteps
<1> HIDE DEF suspended
<1>5. alive /\ t \notin unlinked =>
        /\ Fine(whole) /\ whole.listed = vm.listed /\ whole.id = vm.id
        /\ whole.xen = suspended.xen /\ whole.half = suspended.half /\ whole.orphans = vm.orphans
        /\ \A q \in Old!Paths : /\ whole.saves[q] = NoDef => vm.saves[q] = NoDef
                                /\ whole.saves[q].def = vm.saves[q].def
  BY <1>3, <1>4, WholeSteps DEF Steps, Fine
<1> HIDE DEF whole
<1>6. /\ Fine(vm') /\ Keeps(vm, vm') /\ SameDisks(vm, vm') /\ vm'.listed = vm.listed /\ vm'.orphans = vm.orphans
      /\ \A q \in Old!Paths : /\ vm'.saves[q] = NoDef => vm.saves[q] = NoDef
                              /\ vm'.saves[q].def = vm.saves[q].def
  <2>1. vm' \in {vm, suspended, whole} /\ (vm' # vm => alive) /\ (vm' \notin {vm, suspended} => t \notin unlinked)
    BY <1>1
  <2>2. CASE vm' = vm
    BY <1>3, <2>2, StepsSame DEF Steps
  <2>3. CASE alive /\ vm' = suspended
    BY <1>4, <2>3 DEF Steps
  <2>4. CASE alive /\ t \notin unlinked /\ vm' = whole
    <3>1. \A j : (Old!Exists(whole, j) <=> Old!Exists(suspended, j)) /\ (Theirs(whole, j) <=> Theirs(suspended, j))
      BY <1>4, <1>5, <2>4 DEF Old!Exists, Theirs
    <3> QED BY <1>4, <1>5, <2>4, <3>1 DEF Steps, Keeps, SameDisks, SameGuest
  <2> QED BY <2>1, <2>2, <2>3, <2>4
<1> HIDE DEF i
<1>7. ThreadsTyped'
  BY <1>1, <1>2 DEF ConfigInv, ThreadsTyped, Where
<1>8. HeldOk'
  BY <1>1, <1>6 DEF ConfigInv, HeldOk, Keeps, Known, Theirs, Old!Exists
<1>9. JobsOk'
  <2>1. ASSUME NEW v \in Threads
        PROVE  ThreadOk(v)'
    <3>1. ThreadOk(v)
      BY DEF ConfigInv, JobsOk
    <3>2. pc'[v] = (IF v = t THEN "saved" ELSE pc[v]) /\ (v # t => saved'[v] = saved[v])
      BY <1>1 DEF ConfigInv, ThreadsTyped
    <3> QED BY <1>1, <1>6, <3>1, <3>2 DEF ThreadOk, Works, Writes
  <2> QED BY <1>1, <2>1 DEF ConfigInv, JobsOk
<1>10. ASSUME NEW v \in Threads
       PROVE  FileOk(v)'
  <2>1. FileOk(v) /\ (Writes(v) => op[v] \in Old!Paths)
    BY SavesArePaths DEF ConfigInv, FilesOk, JobsOk, ThreadOk
  <2>2. from[v] # 0 => from[v] \in DomIds
    BY DEF ConfigInv, ThreadsTyped
  <2>3. CASE v # t
    <3>1. pc'[v] = pc[v] /\ saved'[v] = saved[v]
      BY <1>1, <2>3 DEF ConfigInv, ThreadsTyped
    <3>2. Writes(v) /\ from'[v] # 0 => Known(vm, from[v])
      BY <1>1, <2>1 DEF FileOk
    <3>3. Writes(v) /\ from'[v] # 0 => SameGuest(vm, vm', from[v])
      BY <1>1, <1>6, <2>2, <3>2 DEF SameDisks, Known
    <3>4. Writes(v) /\ v \notin unlinked' => v \notin unlinked /\ vm'.saves[op[v]] # NoDef
      BY <1>1, <1>6, <2>1 DEF FileOk
    <3> QED BY <1>1, <1>6, <2>1, <3>1, <3>3, <3>4, FileKept
  <2>4. CASE v = t
    <3>1. pc'[t] = "saved" /\ saved'[t] \in {0, i} /\ (saved'[t] # 0 => alive)
      <4>1. saved[t] = 0
        BY <1>1 DEF ConfigInv, JobsOk, ThreadOk
      <4> QED BY <1>1, <4>1 DEF ConfigInv, ThreadsTyped
    <3>2. t \notin unlinked => vm'.saves[op[t]] # NoDef
      BY <1>3, <1>6
    <3>3. ASSUME from[t] # 0
          PROVE  Known(vm', from[t]) /\ Agreed(t)'
      <4>1. Known(vm, from[t]) /\ Agreed(t)
        BY <1>1, <2>1, <2>4, <3>3 DEF FileOk, Writes
      <4>2. Known(vm', from[t]) /\ SameGuest(vm, vm', from[t])
        BY <1>6, <2>2, <2>4, <3>3, <4>1 DEF Keeps, SameDisks, Known
      <4>3. Theirs(vm', from[t]) => on'[t] = "listed" /\ vm'.id = from[t]
        <5>1. Theirs(vm', from[t]) => Theirs(vm, from[t])
          BY <1>6, <2>2, <2>4, <3>3, <4>1 DEF Keeps, Theirs, Known
        <5>2. on[t] = "listed" => vm.listed
          BY <1>1 DEF ConfigInv, JobsOk, ThreadOk
        <5> QED BY <1>1, <1>6, <4>1, <5>1, <5>2 DEF Agreed, Keeps
      <4>4. t \notin unlinked /\ from[t] \notin vm.orphans /\ saved'[t] = from[t]
              => Old!HasDisksOf(vm', vm'.saves[op[t]].def, from[t])
        BY <1>1, <1>3, <1>4, <1>6, <3>1, <3>3, <4>1, <4>2 DEF Agreed, SameGuest, Old!HasDisksOf
      <4> QED BY <1>1, <1>6, <3>1, <4>2, <4>3, <4>4 DEF Agreed
    <3> QED BY <1>1, <2>4, <3>2, <3>3 DEF FileOk
  <2> QED BY <2>3, <2>4
<1> QED BY <1>6, <1>7, <1>8, <1>9, <1>10 DEF ConfigInv, FilesOk

(***************************************************************************)
(* The calls in one critical section, the events, the daemon.              *)
(***************************************************************************)
\* The listed object leaves the list, and the threads that wait for it go on.
LEMMA ForgetsOk ==
  ASSUME ConfigInv, Typed(vm'), Keeps(vm, vm'), vm.listed, ~vm'.listed,
         NEW o, HeldTyped(o), Known(vm', o.id), ~Theirs(vm', o.id), NEW by, Forgets(o, by),
         \/ by = {} /\ UNCHANGED <<pc, op, from, saved>> /\ unlinked' \subseteq Threads
         \/ \E t \in Threads : by = {t} /\ Idle(t)
  PROVE  ThreadsTyped' /\ HeldOk' /\ JobsOk'
<1> DEFINE holders == {u \in Threads \ by : pc[u] # "idle" /\ on[u] = "listed"}
<1>1. /\ holders # {} => \A u \in Threads : on[u] = "listed"
      /\ removed' = IF holders = {} THEN removed ELSE Memory(o)
      /\ on' = [u \in Threads |-> IF u \in holders THEN "removed" ELSE IF u \in by THEN "listed" ELSE on[u]]
      /\ busy' = IF holders = {} THEN [busy EXCEPT !["listed"] = {}]
                 ELSE [o2 \in Here |-> IF o2 = "removed" THEN {j \in busy["listed"] : j[1] \in holders} ELSE {}]
  BY DEF Forgets
<1>2. \A v \in Threads :
        /\ v \in by => pc'[v] = "idle" /\ from'[v] = 0 /\ saved'[v] = 0
        /\ v \notin by => pc'[v] = pc[v] /\ op'[v] = op[v] /\ from'[v] = from[v] /\ saved'[v] = saved[v]
  BY DEF Idle, Idles, ConfigInv, ThreadsTyped
<1>3. ThreadsTyped'
  <2>1. on' \in [Threads -> Here]
    BY <1>1 DEF ConfigInv, ThreadsTyped, Here
  <2>2. busy' \in [Here -> SUBSET (Threads \X {"modify", "async"})]
    BY <1>1 DEF ConfigInv, ThreadsTyped, Here
  <2>3. /\ pc' \in [Threads -> Where] /\ op' \in [Threads -> Ops \cup {"none"}]
        /\ from' \in [Threads -> DomIds \cup {0}] /\ saved' \in [Threads -> DomIds \cup {0}]
        /\ unlinked' \subseteq Threads
    BY DEF Idle, Idles, Robbed, ConfigInv, ThreadsTyped, Where
  <2> QED BY <2>1, <2>2, <2>3 DEF ThreadsTyped
<1>4. HeldOk'
  <2>1. SUFFICES ASSUME NEW v \in Threads, on'[v] = "removed"
                 PROVE  HeldTyped(removed') /\ Known(vm', removed'.id) /\ ~Theirs(vm', removed'.id)
    BY DEF HeldOk, HeldTyped
  <2>2. CASE holders = {}
    <3>1. removed' = removed /\ on[v] = "removed"
      BY <1>1, <2>1, <2>2
    <3>2. HeldTyped(removed) /\ Known(vm, removed.id) /\ ~Theirs(vm, removed.id)
      BY <3>1 DEF ConfigInv, HeldOk
    <3> QED BY <3>1, <3>2 DEF Keeps, Known, Theirs, Old!Exists
  <2>3. CASE holders # {}
    <3>1. removed'.id = o.id /\ HeldTyped(removed')
      BY <1>1, <2>3 DEF Memory, HeldTyped
    <3> QED BY <3>1
  <2> QED BY <2>2, <2>3
<1>5. ASSUME NEW v \in Threads
      PROVE  ThreadOk(v)'
  <2>1. ThreadOk(v) /\ on[v] \in Here
    BY DEF ConfigInv, JobsOk, ThreadsTyped
  <2>2. CASE v \in by
    BY <1>1, <1>2, <2>2 DEF ThreadOk, Works, Writes
  <2>3. CASE v \notin by /\ v \in holders
    <3>1. on'[v] = "removed" /\ pc[v] # "idle" /\ on[v] = "listed"
      BY <1>1, <2>3
    <3>2. Works(v) => \E j \in busy'["removed"] : j[1] = v
      BY <1>1, <2>1, <2>3, <3>1 DEF ThreadOk, Here
    <3> QED BY <1>2, <2>1, <2>3, <3>1, <3>2 DEF ThreadOk, Works, Writes
  <2>4. CASE v \notin by /\ v \notin holders
    <3>1. on'[v] = on[v] /\ (pc[v] # "idle" => on[v] = "removed")
      BY <1>1, <2>1, <2>4 DEF Here
    <3>2. pc[v] # "idle" => busy'["removed"] = busy["removed"]
      BY <1>1, <3>1 DEF ConfigInv, ThreadsTyped, Here
    <3> QED BY <1>2, <2>1, <2>4, <3>1, <3>2 DEF ThreadOk, Works, Writes
  <2> QED BY <2>2, <2>3, <2>4
<1>6. \A o2 \in Here : \A j, k \in busy'[o2] : j = k
  BY <1>1 DEF ConfigInv, JobsOk, ThreadsTyped, Here
<1> QED BY <1>3, <1>4, <1>5, <1>6 DEF JobsOk

\* A call in one critical section, and the events.
LEMMA LeftAlone ==
  ASSUME ConfigInv, Keeps(vm, vm'), vm.listed, ~vm'.listed, NEW i \in {0, vm.id}
  PROVE  Known(vm', i) /\ ~Theirs(vm', i)
<1>1. Known(vm, vm.id)
  BY DEF ConfigInv, Fine, Typed
<1> QED BY <1>1 DEF Keeps, Known, Theirs, Old!Exists

LEMMA DoesInv ==
  ASSUME ConfigInv, NEW r, NEW o, Does(r, o), Steps(vm, r.s),
         vm.listed => HeldTyped(o) /\ o.id \in {0, vm.id}
  PROVE  ConfigInv'
<1>1. /\ vm' = r.s /\ unlinked' = unlinked \cup Robbed(vm') /\ UNCHANGED <<pc, op, from, saved>>
      /\ IF vm.listed /\ ~vm'.listed THEN Forgets(o, {}) ELSE UNCHANGED <<on, removed, busy>>
  BY DEF Does
<1>2. Steps(vm, vm') /\ Fine(vm')
  BY <1>1 DEF Steps
<1>3. unlinked' \subseteq Threads /\ unlinked \subseteq unlinked'
  BY <1>1 DEF Robbed, ConfigInv, ThreadsTyped
<1>4. ThreadsTyped' /\ HeldOk' /\ JobsOk'
  <2>1. CASE vm.listed /\ ~vm'.listed
    <3>1. Known(vm', o.id) /\ ~Theirs(vm', o.id)
      BY <1>2, <2>1, LeftAlone DEF Steps
    <3> QED BY <1>1, <1>2, <1>3, <2>1, <3>1, ForgetsOk DEF Steps, Fine
  <2>2. CASE ~(vm.listed /\ ~vm'.listed)
    <3>1. ThreadsTyped'
      BY <1>1, <1>3, <2>2 DEF ConfigInv, ThreadsTyped
    <3>2. HeldOk'
      BY <1>1, <1>2, <2>2 DEF ConfigInv, HeldOk, Steps, Keeps, Known, Theirs, Old!Exists
    <3>3. JobsOk'
      BY <1>1, <2>2 DEF ConfigInv, JobsOk, ThreadOk, Works, Writes
    <3> QED BY <3>1, <3>2, <3>3
  <2> QED BY <2>1, <2>2
<1>5. ASSUME NEW v \in Threads
      PROVE  FileOk(v)'
  <2>1. Writes(v) => op[v] \in Old!Paths /\ (v \notin unlinked => vm.saves[op[v]] # NoDef)
    BY SavesArePaths DEF ConfigInv, JobsOk, ThreadOk, FilesOk, FileOk
  <2>2. Writes(v) /\ v \notin unlinked' => v \notin unlinked /\ vm'.saves[op[v]] # NoDef
    BY <1>1, <1>3, <2>1 DEF Robbed, Writes
  <2>3. Writes(v) /\ v \notin unlinked' => vm'.saves[op[v]] = vm.saves[op[v]]
    BY <1>2, <2>1, <2>2 DEF Steps, NoNewFile
  <2>4. Writes(v) /\ from[v] # 0 => SameGuest(vm, vm', from[v])
    BY <1>2 DEF ConfigInv, FilesOk, FileOk, Known, Steps, SameDisks
  <2>5. on'[v] = on[v] \/ ~vm'.listed
    BY <1>1
  <2> QED BY <1>1, <1>2, <2>2, <2>3, <2>4, <2>5, FileKept DEF Steps
<1> QED BY <1>2, <1>4, <1>5 DEF ConfigInv, FilesOk

LEMMA HeldVm ==
  ASSUME ConfigInv
  PROVE  /\ Fine(vm)
         /\ vm.listed => HeldTyped(vm)
         /\ vm.listed /\ Old!Exists(vm, vm.id) =>
              HeldTyped(Old!VmReap(vm)) /\ Old!VmReap(vm).id \in {0, vm.id}
         /\ \A d \in Old!XmlDefs : vm.listed =>
              LET o == Old!AssignDef(vm, d, FALSE)
              IN  /\ HeldTyped(o) /\ o.id = vm.id
                  /\ HeldTyped([o EXCEPT !.persistent = TRUE]) /\ [o EXCEPT !.persistent = TRUE].id = vm.id
<1>1. Fine(vm)
  BY DEF ConfigInv
<1>2. \A s : Typed(s) /\ s.listed => HeldTyped(s)
  BY DEF Typed, HeldTyped
<1>3. vm.listed /\ Old!Exists(vm, vm.id) =>
        HeldTyped(Old!VmReap(vm)) /\ Old!VmReap(vm).id \in {0, vm.id}
  BY <1>1, <1>2, ReapSteps DEF Steps, Fine
<1>4. ASSUME NEW d \in Old!XmlDefs
      PROVE  LET o == Old!AssignDef(vm, d, FALSE)
             IN  /\ HeldTyped(o) /\ o.id = vm.id
                 /\ HeldTyped([o EXCEPT !.persistent = TRUE]) /\ [o EXCEPT !.persistent = TRUE].id = vm.id
  <2> DEFINE o == Old!AssignDef(vm, d, FALSE)
  <2>1. Typed(o) /\ o.listed /\ o.id = vm.id
    BY <1>1, XmlDefsAreDefs, AssignSteps DEF Steps, Fine
  <2> HIDE DEF o
  <2>2. HeldTyped(o)
    BY <1>2, <2>1
  <2>3. HeldTyped([o EXCEPT !.persistent = TRUE]) /\ [o EXCEPT !.persistent = TRUE].id = vm.id
    BY <2>1, <2>2 DEF HeldTyped, Typed, Fields
  <2> QED BY <2>1, <2>2, <2>3 DEF o
<1> QED BY <1>1, <1>2, <1>3, <1>4 DEF Fine

\* A thread that returns from a step that takes no guest's disks away.
LEMMA ReturnsInv ==
  ASSUME ConfigInv, NEW t \in Threads, Idle(t), Fine(vm'), Keeps(vm, vm'), SameDisks(vm, vm'),
         NoNewFile(vm, vm'), ThreadsTyped', HeldOk', JobsOk',
         \A v \in Threads \ {t} : on'[v] = on[v] \/ ~vm'.listed
  PROVE  ConfigInv'
<1>1. ASSUME NEW v \in Threads
      PROVE  FileOk(v)'
  <2>1. CASE v = t
    BY <2>1 DEF FileOk, Writes, Idle, Idles, ConfigInv, ThreadsTyped
  <2>2. CASE v # t
    <3>1. /\ pc'[v] = pc[v] /\ op'[v] = op[v] /\ saved'[v] = saved[v] /\ from'[v] = from[v]
          /\ unlinked' = (unlinked \cup Robbed(vm')) \ {t}
      BY <2>2 DEF Idle, Idles, ConfigInv, ThreadsTyped
    <3>2. Writes(v) => op[v] \in Old!Paths
      BY SavesArePaths DEF ConfigInv, JobsOk, ThreadOk
    <3>3. Writes(v) /\ v \notin unlinked' => v \notin unlinked /\ vm'.saves[op[v]] # NoDef
      BY <2>2, <3>1 DEF ConfigInv, FilesOk, FileOk, Robbed, Writes
    <3>4. Writes(v) /\ v \notin unlinked' => vm'.saves[op[v]] = vm.saves[op[v]]
      BY <3>2, <3>3 DEF NoNewFile
    <3>5. Writes(v) /\ from[v] # 0 => SameGuest(vm, vm', from[v])
      BY DEF ConfigInv, FilesOk, FileOk, Known, SameDisks
    <3>6. on'[v] = on[v] \/ ~vm'.listed
      BY <2>2
    <3> QED BY <3>1, <3>3, <3>4, <3>5, <3>6, FileKept
  <2> QED BY <2>1, <2>2
<1> QED BY <1>1 DEF ConfigInv, FilesOk

LEMMA SaveEndInv ==
  ASSUME ConfigInv, NEW t \in Threads, SaveEnd(t)
  PROVE  ConfigInv'
<1> DEFINE s == Object(t)
           reaped == Old!VmReap(s)
           done == saved[t] # 0 /\ Old!Exists(s, s.id)
<1>1. /\ pc[t] = "saved"
      /\ \/ Becomes(t, IF done THEN reaped ELSE s, FALSE) /\ Ends(t) /\ Idles(t, from) /\ OnListed(t)
         \/ /\ done /\ on[t] = "listed" /\ vm' = Old!RemoveInactive(reaped)
            /\ Forgets(reaped, {t}) /\ Idle(t)
  BY DEF SaveEnd, Returns, Idle
<1>2. ObjFacts(t)
  BY <1>1, ObjectFacts
<1>3. CASE Becomes(t, IF done THEN reaped ELSE s, FALSE) /\ Ends(t) /\ Idles(t, from) /\ OnListed(t)
  <2> DEFINE u == IF done THEN reaped ELSE s
  <2>1. Acts(s, u)
    BY <1>2, ReapActs, ActsSame DEF ObjFacts
  <2> HIDE DEF u
  <2>2. Touches(s, u) /\ u.saves = vm.saves
    BY <1>2, <2>1 DEF ObjFacts, Acts
  <2>3. Becomes(t, u, FALSE)
    BY <1>3 DEF u
  <2>4. from \in [Threads -> DomIds \cup {0}]
    BY DEF ConfigInv, ThreadsTyped
  <2> QED BY <1>1, <1>3, <2>2, <2>3, <2>4, ActAndReturn DEF Works
<1>4. CASE /\ done /\ on[t] = "listed" /\ vm' = Old!RemoveInactive(reaped)
           /\ Forgets(reaped, {t}) /\ Idle(t)
  <2>1. s = vm /\ Fine(vm) /\ vm.listed /\ Old!Exists(vm, vm.id)
    BY <1>2, <1>4 DEF ObjFacts, ConfigInv
  <2>2. Steps(vm, reaped) /\ ~Theirs(reaped, reaped.id)
    BY <2>1, ReapSteps
  <2>3. HeldTyped(reaped) /\ reaped.id \in {0, vm.id}
    BY <2>1, HeldVm
  <2> HIDE DEF reaped
  <2>4. Steps(reaped, vm') /\ ~vm'.listed
    BY <1>4, <2>2, RemoveSteps DEF Steps
  <2>5. Steps(vm, vm')
    BY <2>1, <2>2, <2>4, StepsTrans DEF Fine
  <2>7. Known(vm', reaped.id) /\ ~Theirs(vm', reaped.id)
    BY <2>1, <2>3, <2>4, <2>5, LeftAlone DEF Steps
  <2>8. ThreadsTyped' /\ HeldOk' /\ JobsOk'
    BY <1>4, <2>1, <2>3, <2>4, <2>5, <2>7, ForgetsOk DEF Steps, Fine
  <2> QED BY <1>4, <2>4, <2>5, <2>8, ReturnsInv DEF Steps
<1> QED BY <1>1, <1>3, <1>4

\* A start of a listed object.
LEMMA StartedListed ==
  ASSUME ConfigInv, NEW t \in Threads, pc[t] = "works", on[t] = "listed", NEW r, NEW removes,
         Steps(vm, r.s), r.s.listed, Started(t, r, removes)
  PROVE  ConfigInv'
<1>1. vm.listed /\ Fine(vm)
  BY DEF ConfigInv, JobsOk, ThreadOk
<1>2. CASE ~removes
  <2>1. vm' = r.s /\ UNCHANGED removed /\ Ends(t) /\ Idle(t) /\ OnListed(t)
    BY <1>2 DEF Started, Returns
  <2>2. HeldOk'
    <3>1. on' = on
      BY <2>1 DEF OnListed, ConfigInv, ThreadsTyped
    <3> QED BY <2>1, <3>1 DEF ConfigInv, HeldOk, Steps, Keeps, Known, Theirs, Old!Exists
  <2>3. ThreadsTyped' /\ JobsOk'
    <3>1. from \in [Threads -> DomIds \cup {0}]
      BY DEF ConfigInv, ThreadsTyped
    <3> QED BY <1>1, <2>1, <3>1, ReturnJobs DEF Idle
  <2>4. \A v \in Threads \ {t} : on'[v] = on[v]
    BY <2>1 DEF OnListed
  <2> QED BY <2>1, <2>2, <2>3, <2>4, ReturnsInv DEF Steps
<1>3. CASE removes
  <2> DEFINE o == Old!Orphaned(r.s)
             w == Old!Leaves(r.s)
  <2>1. vm' = w /\ Forgets(o, {t}) /\ Idle(t)
    BY <1>3 DEF Started, Old!Leaves
  <2>2. Steps(r.s, w) /\ ~w.listed /\ ~Theirs(w, r.s.id)
    BY LeavesSteps DEF Steps
  <2>3. HeldTyped(o) /\ o.id = r.s.id
    BY DEF Old!Orphaned, HeldTyped, Steps, Fine, Typed, Fields
  <2> HIDE DEF o, w
  <2>4. Steps(vm, vm') /\ ~vm'.listed
    BY <1>1, <2>1, <2>2, StepsTrans DEF Fine
  <2>5. Known(vm', o.id) /\ ~Theirs(vm', o.id)
    BY <2>1, <2>2, <2>3 DEF Steps, Fine, Typed, Known, Keeps
  <2>6. ThreadsTyped' /\ HeldOk' /\ JobsOk'
    BY <1>1, <2>1, <2>3, <2>4, <2>5, ForgetsOk DEF Steps, Fine
  <2> QED BY <2>1, <2>4, <2>6, ReturnsInv DEF Steps
<1> QED BY <1>2, <1>3

\* A start for an object that is off the list: the guest is nobody's.
LEMMA RemovedStarts ==
  ASSUME ConfigInv, NEW t \in Threads, pc[t] = "works", on[t] = "removed",
         NEW r, NEW paused, NEW whole,
         r \in Old!VmStart(Object(t), paused) \/ r \in Old!StartDomain(Object(t), paused, whole)
  PROVE  LET s == Object(t)
         IN  /\ Typed(r.s) /\ r.s.listed /\ NoNewFile(s, r.s) /\ SameDisks(s, r.s) /\ s.orphans \subseteq r.s.orphans
             /\ \A i \in DomIds : s.xen[i].state # "unused" =>
                  r.s.xen[i].state # "unused" /\ (Old!Exists(r.s, i) => Old!Exists(s, i))
             /\ \A i \in DomIds : Theirs(r.s, i) => i = r.s.id \/ (Theirs(vm, i) /\ r.s.status = vm.status)
<1> DEFINE s == Object(t)
<1>1. /\ Typed(s) /\ s.listed /\ s.xen = vm.xen /\ s.half = vm.half /\ s.saves = vm.saves
      /\ s.orphans = vm.orphans /\ s.status = vm.status /\ ~Theirs(vm, s.id)
  BY ObjectFacts DEF ObjFacts
<1>4. r \in Old!VmStart(s, paused) \/ r \in Old!StartDomain(s, paused, whole)
  OBVIOUS
<1> HIDE DEF s
<1>5. Typed(r.s) /\ r.s.listed /\ NoNewFile(s, r.s) /\ SameDisks(s, r.s) /\ s.orphans \subseteq r.s.orphans
      /\ \A i \in DomIds : s.xen[i].state # "unused" =>
           r.s.xen[i].state # "unused" /\ (Old!Exists(r.s, i) => Old!Exists(s, i))
  <2>1. CASE \E i \in DomIds : Old!Exists(s, i)
    BY <1>1, <1>4, <2>1, NoLaunch DEF SameDisks, SameGuest, Old!Exists
  <2>2. CASE ~\E i \in DomIds : Old!Exists(s, i)
    <3>1. Fine(s)
      BY <1>1, <2>2 DEF Fine, Good, Theirs, Old!Exists, Typed, Known
    <3> QED BY <1>1, <1>4, <3>1, StartSteps, VmStartSteps DEF Steps, Fine, Keeps
  <2> QED BY <2>1, <2>2
<1>6. \A i \in DomIds : Theirs(r.s, i) => i = r.s.id \/ (Theirs(vm, i) /\ r.s.status = vm.status)
  <2>1. CASE \E i \in DomIds : Old!Exists(s, i)
    BY <1>1, <1>4, <2>1, NoLaunch DEF Theirs, Old!Exists
  <2>2. CASE ~\E i \in DomIds : Old!Exists(s, i)
    <3>1. Fine(s)
      BY <1>1, <2>2 DEF Fine, Good, Theirs, Old!Exists, Typed, Known
    <3>2. Only(s, r.s)
      BY <1>1, <1>4, <3>1, StartSteps, VmStartSteps
    <3> QED BY <2>2, <3>2 DEF Only, Theirs
  <2> QED BY <2>1, <2>2
<1> QED BY <1>5, <1>6 DEF s

LEMMA StartedRemoved ==
  ASSUME ConfigInv, NEW t \in Threads, pc[t] = "works", on[t] = "removed",
         NEW r, NEW removes, NEW paused, NEW whole,
         r \in Old!VmStart(Object(t), paused) \/ r \in Old!StartDomain(Object(t), paused, whole),
         Started(t, r, removes)
  PROVE  ConfigInv'
<1> DEFINE s == Object(t)
           u == Old!Orphaned(r.s)
<1>1. /\ Typed(s) /\ s.listed /\ s.xen = vm.xen /\ s.half = vm.half /\ s.saves = vm.saves
      /\ s.orphans = vm.orphans /\ s.status = vm.status /\ ~Theirs(vm, s.id)
  BY ObjectFacts DEF ObjFacts
<1>2. Fine(vm) /\ Known(vm, vm.id)
  BY DEF ConfigInv, Fine, Typed
<1>3. Becomes(t, u, FALSE) /\ Ends(t) /\ Idle(t) /\ OnListed(t)
  BY DEF Started, Returns
<1>5. /\ Typed(r.s) /\ r.s.listed /\ NoNewFile(s, r.s) /\ SameDisks(s, r.s) /\ s.orphans \subseteq r.s.orphans
      /\ \A i \in DomIds : s.xen[i].state # "unused" =>
           r.s.xen[i].state # "unused" /\ (Old!Exists(r.s, i) => Old!Exists(s, i))
      /\ \A i \in DomIds : Theirs(r.s, i) => i = r.s.id \/ (Theirs(vm, i) /\ r.s.status = vm.status)
  BY RemovedStarts
<1> HIDE DEF s
<1>7. /\ DOMAIN u = Fields /\ u.xen = r.s.xen /\ u.half = r.s.half /\ u.saves = r.s.saves
      /\ u.config = r.s.config /\ u.status = r.s.status /\ u.def = r.s.def /\ u.newDef = r.s.newDef
      /\ u.id = r.s.id /\ r.s.orphans \subseteq u.orphans
      /\ \A i \in DomIds : i = r.s.id /\ Old!Exists(r.s, i) => i \in u.orphans
  BY <1>5 DEF Typed, Fields, Old!Orphaned, DomIds
<1> HIDE DEF u
<1>8. /\ DOMAIN vm' = Fields /\ vm'.xen = u.xen /\ vm'.half = u.half /\ vm'.saves = u.saves
      /\ vm'.config = u.config /\ vm'.status = u.status /\ vm'.orphans = u.orphans
      /\ vm'.listed = vm.listed /\ vm'.id = vm.id /\ vm'.def = vm.def /\ vm'.newDef = vm.newDef
      /\ vm'.lost = vm.lost
  BY <1>3, <1>7 DEF Becomes, Fields
<1>9. \A i \in DomIds : Theirs(vm', i) => Theirs(vm, i) /\ vm'.status = vm.status /\ i # r.s.id
  <2>1. \A i \in DomIds : Theirs(vm', i) => Theirs(r.s, i) /\ i # r.s.id
    BY <1>7, <1>8 DEF Theirs, Old!Exists
  <2> QED BY <1>5, <1>7, <1>8, <2>1
<1>10. Typed(vm')
  <2>1. Known(vm', vm'.id)
    BY <1>1, <1>2, <1>5, <1>7, <1>8 DEF Known
  <2> QED BY <1>2, <1>5, <1>7, <1>8, <2>1 DEF Fine, Typed, Known
<1>11. Keeps(vm, vm')
  <2>1. \A i \in DomIds : vm.xen[i].state # "unused" =>
          vm'.xen[i].state # "unused" /\ (Old!Exists(vm', i) => Old!Exists(vm, i))
    BY <1>1, <1>5, <1>7, <1>8 DEF Old!Exists
  <2> QED BY <1>1, <1>5, <1>7, <1>8, <2>1 DEF Keeps
<1>12. SameDisks(vm, vm') /\ NoNewFile(vm, vm')
  BY <1>1, <1>5, <1>7, <1>8 DEF SameDisks, SameGuest, NoNewFile
<1>13. Good(vm')
  <2>1. ~Theirs(vm', 0)
    BY DEF Theirs, Old!Exists
  <2>2. vm.listed /\ Theirs(vm', vm.id) /\ ~vm.lost => Old!HasDisksOf(vm', vm.def, vm.id)
    BY <1>2, <1>8, <1>9, <1>12, <2>1
       DEF Fine, Good, Known, Old!HasDisksOf, SameDisks, SameGuest
  <2>3. vm'.status # NoDef => vm'.status.id = 0 \/ vm'.status.id \in DomIds
    BY <1>10 DEF Typed, Known
  <2>4. vm'.status # NoDef /\ Theirs(vm', vm'.status.id) => vm.listed /\ vm.id = vm'.status.id
    BY <1>2, <1>9, <2>1, <2>3 DEF Fine, Good
  <2> QED BY <1>2, <1>8, <2>2, <2>4 DEF Fine, Good
<1>14. HeldOk'
  <2>1. SUFFICES ASSUME NEW v \in Threads, on'[v] = "removed"
                 PROVE  HeldTyped(removed') /\ Known(vm', removed'.id) /\ ~Theirs(vm', removed'.id)
    BY DEF HeldOk, HeldTyped
  <2>2. v # t /\ on[v] = "removed"
    BY <1>3, <2>1 DEF OnListed, ConfigInv, ThreadsTyped
  <2>3. removed' = Memory(u)
    BY <1>3, <2>2 DEF Becomes
  <2>4. removed'.def = u.def /\ removed'.newDef = u.newDef /\ removed'.id = u.id
    BY <2>3 DEF Memory
  <2>5. Known(vm', u.id)
    BY <1>5, <1>7, <1>8 DEF Typed, Known
  <2>6. ~Theirs(vm', u.id)
    BY <1>7, <1>9, <2>5 DEF Known, Theirs, Old!Exists
  <2> QED BY <1>5, <1>7, <2>4, <2>5, <2>6 DEF Typed, HeldTyped
<1>15. ThreadsTyped' /\ JobsOk'
  <2>1. from \in [Threads -> DomIds \cup {0}]
    BY DEF ConfigInv, ThreadsTyped
  <2> QED BY <1>3, <1>8, <2>1, ReturnJobs DEF Idle
<1>16. \A v \in Threads \ {t} : on'[v] = on[v]
  BY <1>3 DEF OnListed
<1> QED BY <1>3, <1>10, <1>11, <1>12, <1>13, <1>14, <1>15, <1>16, ReturnsInv DEF Fine

LEMMA Starting ==
  ASSUME NEW t \in Threads, CreateXML(t) \/ RestoreFlags(t)
  PROVE  \E paused, whole, r, removes :
           /\ r \in Old!VmStart(Object(t), paused) \/ r \in Old!StartDomain(Object(t), paused, whole)
           /\ Started(t, r, removes)
<1>1. CASE CreateXML(t)
  BY <1>1 DEF CreateXML
<1>2. CASE RestoreFlags(t)
  BY <1>2 DEF RestoreFlags
<1> QED BY <1>1, <1>2

LEMMA StartedInv ==
  ASSUME ConfigInv, NEW t \in Threads, CreateXML(t) \/ RestoreFlags(t)
  PROVE  ConfigInv'
<1>1. PICK paused, whole, r, removes :
        /\ r \in Old!VmStart(Object(t), paused) \/ r \in Old!StartDomain(Object(t), paused, whole)
        /\ Started(t, r, removes)
  BY Starting
<1>2. pc[t] = "works" /\ on[t] \in Here
  BY DEF CreateXML, RestoreFlags, ConfigInv, ThreadsTyped
<1>3. CASE on[t] = "listed"
  <2>1. Object(t) = vm /\ Fine(vm) /\ vm.listed
    BY <1>2, <1>3 DEF Object, ConfigInv, JobsOk, ThreadOk
  <2>2. Steps(vm, r.s) /\ r.s.listed
    BY <1>1, <2>1, StartSteps, VmStartSteps
  <2> QED BY <1>1, <1>2, <1>3, <2>2, StartedListed
<1>4. CASE on[t] = "removed"
  BY <1>1, <1>2, <1>4, StartedRemoved
<1> QED BY <1>2, <1>3, <1>4 DEF Here

LEMMA CallsInv ==
  ASSUME ConfigInv,
         \/ CreateWithFlags \/ DestroyFlags
         \/ CoreDump \/ DomainResume
         \/ DefineXML \/ UndefineFlags \/ ManagedSaveRemove \/ PinVcpu \/ SetAutostart
  PROVE  ConfigInv'
<1>0. Fine(vm) /\ (vm.listed => HeldTyped(vm))
  BY HeldVm
<1>2. CASE CreateWithFlags
  BY <1>0, <1>2, CreateWithFlagsSteps, DoesInv DEF CreateWithFlags
<1>3. CASE DestroyFlags
  <2>1. PICK r \in Old!DestroyFlags(vm) : Does(r, Old!VmReap(vm))
    BY <1>3 DEF DestroyFlags
  <2>2. vm.listed /\ Steps(vm, r.s)
    BY <1>0, <1>3, DestroyFlagsSteps DEF DestroyFlags
  <2>3. CASE Old!Exists(vm, vm.id)
    BY <2>1, <2>2, <2>3, HeldVm, DoesInv
  <2>4. CASE ~Old!Exists(vm, vm.id)
    <3>1. r = Old!Fail(vm)
      BY <2>1, <2>4 DEF Old!DestroyFlags
    <3>2. Does(r, vm)
      BY <2>1, <2>2, <3>1 DEF Does, Old!Fail
    <3> QED BY <1>0, <2>2, <3>2, DoesInv
  <2> QED BY <2>3, <2>4
<1>5. CASE CoreDump
  <2>1. PICK l \in BOOLEAN, c \in BOOLEAN :
          (c => vm.persistent) /\ \E r \in Old!CoreDump(vm, l, c) : Does(r, vm)
    BY <1>5 DEF CoreDump
  <2> QED BY <1>0, <1>5, <2>1, CoreDumpSteps, DoesInv DEF CoreDump
<1>6. CASE DomainResume
  BY <1>0, <1>6, DomainResumeSteps, DoesInv DEF DomainResume
<1>7. CASE DefineXML
  <2>1. PICK d \in Old!XmlDefs :
          \E r \in Old!DefineXML(vm, d) : Does(r, [Old!AssignDef(vm, d, FALSE) EXCEPT !.persistent = TRUE])
    BY <1>7 DEF DefineXML
  <2>2. vm.listed => /\ HeldTyped([Old!AssignDef(vm, d, FALSE) EXCEPT !.persistent = TRUE])
                     /\ [Old!AssignDef(vm, d, FALSE) EXCEPT !.persistent = TRUE].id = vm.id
    BY HeldVm
  <2> QED BY <1>0, <2>1, <2>2, DefineXMLSteps, DoesInv
<1>8. CASE UndefineFlags
  BY <1>0, <1>8, UndefineFlagsSteps, DoesInv DEF UndefineFlags
<1>9. CASE ManagedSaveRemove
  BY <1>0, <1>9, ManagedSaveRemoveSteps, DoesInv DEF ManagedSaveRemove
<1>10. CASE PinVcpu
  BY <1>0, <1>10, PinVcpuSteps, DoesInv DEF PinVcpu
<1>11. CASE SetAutostart
  BY <1>0, <1>11, SetAutostartSteps, DoesInv DEF SetAutostart
<1> QED BY <1>2, <1>3, <1>5, <1>6, <1>7, <1>8, <1>9, <1>10, <1>11

LEMMA EventInv ==
  ASSUME ConfigInv, Event
  PROVE  ConfigInv'
<1>1. PICK s \in Old!EventHandler(vm) : Does([ok |-> TRUE, s |-> s], Old!VmReap(vm))
  BY DEF Event
<1>2. vm.listed /\ Old!Exists(vm, vm.id) /\ Fine(vm)
  BY HeldVm DEF Event
<1>3. Steps(vm, s)
  BY <1>2, EventHandlerSteps
<1> DEFINE r == [ok |-> TRUE, s |-> s]
<1>4. Steps(vm, r.s) /\ Does(r, Old!VmReap(vm))
  BY <1>1, <1>3
<1> HIDE DEF r
<1> QED BY <1>2, <1>4, HeldVm, DoesInv

\* A step that leaves the threads alone, and the object in the list.
LEMMA QuietInv ==
  ASSUME ConfigInv, Steps(vm, vm'), vm.listed => vm'.listed,
         UNCHANGED <<pc, op, on, removed, busy, from, saved>>, unlinked' = unlinked \cup Robbed(vm')
  PROVE  ConfigInv'
<1> DEFINE r == [ok |-> TRUE, s |-> vm']
<1>1. Does(r, vm) /\ r.s = vm'
  BY DEF Does
<1>2. vm.listed => HeldTyped(vm)
  BY HeldVm
<1> HIDE DEF r
<1> QED BY <1>1, <1>2, DoesInv

LEMMA GuestStopsInv ==
  ASSUME ConfigInv, GuestStops
  PROVE  ConfigInv'
<1>1. PICK i \in DomIds, why \in {"poweroff", "crash", "reboot"} :
        vm.xen[i].state = "running" /\ vm' = [vm EXCEPT !.xen[i].state = why]
  BY DEF GuestStops, Old!GuestStops, DomIds
<1>2. Fine(vm) /\ Old!Exists(vm, i) /\ why \in Old!Existing
  BY <1>1, NoGuestZero DEF ConfigInv, Old!Exists, Old!Existing, Old!Stopped
<1>3. Steps(vm, vm') /\ vm'.listed = vm.listed /\ vm'.saves = vm.saves
  BY <1>1, <1>2, XenStateSteps
<1>4. UNCHANGED <<pc, op, on, removed, busy, from, saved, unlinked>>
  BY DEF GuestStops, threadVars
<1>5. unlinked' = unlinked \cup Robbed(vm')
  BY <1>3, <1>4 DEF Robbed
<1> QED BY <1>3, <1>4, <1>5, QuietInv

LEMMA ReloadInv ==
  ASSUME ConfigInv, Reload
  PROVE  ConfigInv'
<1>1. vm' \in Old!Autostart(vm) /\ unlinked' = unlinked \cup Robbed(vm') /\ UNCHANGED <<pc, op, on, removed, busy, from, saved>>
  BY DEF Reload
<1>2. Steps(vm, vm')
  BY <1>1, AutostartSteps DEF ConfigInv
<1>3. vm.listed => vm'.listed
  <2>1. CASE vm' = vm
    BY <2>1
  <2>2. CASE vm.listed /\ vm.autostart /\ ~Old!Active(vm)
    <3>1. PICK r \in Old!VmStart(vm, FALSE) : vm' = r.s
      BY <1>1, <2>2 DEF Old!Autostart
    <3> QED BY <2>2, <3>1, VmStartSteps DEF ConfigInv
  <2> QED BY <1>1, <2>1, <2>2 DEF Old!Autostart
<1> QED BY <1>1, <1>2, <1>3, QuietInv

LEMMA RestartInv ==
  ASSUME ConfigInv, Restart
  PROVE  ConfigInv'
<1>1. Fine(vm')
  BY RestartFine DEF Restart, ConfigInv
<1>2. /\ pc' = [t \in Threads |-> "idle"] /\ op' = [t \in Threads |-> "none"]
      /\ on' = [t \in Threads |-> "listed"] /\ busy' = [o \in Here |-> {}]
      /\ from' = [t \in Threads |-> 0] /\ saved' = [t \in Threads |-> 0] /\ unlinked' = {}
  BY DEF Restart
<1>3. ThreadsTyped' /\ HeldOk'
  BY <1>2 DEF ThreadsTyped, HeldOk, Where, Here
<1>4. JobsOk' /\ FilesOk'
  BY <1>2 DEF JobsOk, ThreadOk, FilesOk, FileOk, Works, Writes
<1> QED BY <1>1, <1>3, <1>4 DEF ConfigInv

LEMMA StepInv ==
  ASSUME ConfigInv, [Next]_vars
  PROVE  ConfigInv'
<1>1. CASE \E t \in Threads :
             \/ \E o \in Ops : Call(t, o)
             \/ CallWithDef(t)
             \/ GiveUp(t) \/ Grant(t)
             \/ SetAmounts(t) \/ ModifyDevice(t)
             \/ CreateXML(t) \/ RestoreFlags(t)
             \/ SaveBegin(t) \/ SaveGuest(t) \/ SaveEnd(t)
  BY <1>1, CallInv, CallWithDefInv, GiveUpInv, GrantInv, SetAmountsInv, ModifyDeviceInv, StartedInv,
     SaveBeginInv, SaveGuestInv, SaveEndInv
<1>2. CASE \/ CreateWithFlags \/ DestroyFlags
           \/ CoreDump \/ DomainResume
           \/ DefineXML \/ UndefineFlags \/ ManagedSaveRemove \/ PinVcpu \/ SetAutostart
  BY <1>2, CallsInv
<1>3. CASE Event \/ GuestStops \/ Reload \/ Restart
  BY <1>3, EventInv, GuestStopsInv, ReloadInv, RestartInv
<1>4. CASE UNCHANGED vars
  <2> USE <1>4 DEF vars
  <2>1. ThreadsTyped' /\ Fine(vm') /\ HeldOk'
    BY DEF ConfigInv, ThreadsTyped, HeldOk
  <2>2. JobsOk'
    BY DEF ConfigInv, JobsOk, ThreadOk, Works, Writes
  <2>3. FilesOk'
    BY DEF ConfigInv, FilesOk, FileOk, Agreed, Writes
  <2> QED BY <2>1, <2>2, <2>3 DEF ConfigInv
<1> QED BY <1>1, <1>2, <1>3, <1>4 DEF Next

\* Whatever calls, saves, events and restarts overlap, each object that is held has one
\* job at a time, the definition and the status file are those of the guest, and a save
\* file is its guest's (libxlDomainObjBeginJobInternal, libxlDoDomainSave).
THEOREM ConfigInvariant == Spec => []ConfigInv
<1>1. Init => ConfigInv
  BY InitInv
<1>2. ConfigInv /\ [Next]_vars => ConfigInv'
  BY StepInv
<1> QED BY <1>1, <1>2, PTL DEF Spec

\* The live definition has the disks of the guest: libxlDomainModifyDeviceFlags changes
\* both or none, and no call that takes no job changes the disks of either.
THEOREM LiveDefFollowsGuest == Spec => []LiveDefIsGuest
<1>1. ConfigInv => LiveDefIsGuest
  BY DEF ConfigInv, Fine, Good, Theirs, LiveDefIsGuest, Old!LiveDefIsGuest
<1> QED BY <1>1, ConfigInvariant, PTL

\* The definition libxlDoDomainSave wrote before it gave the locks up still has the disks
\* of the guest when libxl_domain_suspend has written that guest.
THEOREM ImagesMatchGuests == Spec => []ImageIsGuest
<1>1. ConfigInv => ImageIsGuest
  BY DEF ConfigInv, FilesOk, FileOk, Agreed, Writes, ImageIsGuest
<1> QED BY <1>1, ConfigInvariant, PTL

(***************************************************************************)
(* No call that runs beside a save pauses its guest.                       *)
(***************************************************************************)
\* A guest that is being saved was not paused when its save began, and none of the
\* calls that run beside a save pauses it.
SavesRunning == \A t \in Threads : pc[t] = "saving" /\ on[t] = "listed" => vm.state # "paused"

\* A call that makes u of s does not pause the domain.
NoPause(s, u) == u.state = "paused" => s.state = "paused"

LEMMA ReapNoPause ==
  ASSUME NEW s, Typed(s)
  PROVE  NoPause(s, Old!VmReap(s)) /\ NoPause(s, Old!RemoveTransient(Old!VmReap(s)))
<1> DEFINE g == [s EXCEPT !.xen[s.id].state = "gone"]
           u == Old!VmCleanup(g)
<1>1. DOMAIN g = Fields /\ g.state = s.state
  BY DEF Typed, Fields
<1> HIDE DEF g
<1>2. NoPause(g, u) /\ DOMAIN u = Fields
  BY <1>1 DEF Old!VmCleanup, NoPause, Fields
<1> HIDE DEF u
<1>3. NoPause(u, Old!RemoveTransient(u))
  BY <1>2 DEF Old!RemoveTransient, Old!RemoveInactive, NoPause, Fields
<1>4. u = Old!VmReap(s)
  BY DEF u, g, Old!VmReap
<1> QED BY <1>1, <1>2, <1>3, <1>4 DEF NoPause

LEMMA StartNoPause ==
  ASSUME NEW s, Fine(s), s.listed, ~Theirs(s, s.id), NEW whole,
         NEW r \in Old!StartDomain(s, FALSE, whole)
  PROVE  NoPause(s, r.s)
<1> DEFINE made(n) == Old!Made(s, n)
           on0(n) == [made(n) EXCEPT !.state = "running", !.xen[n].state = "running", !.lost = FALSE]
           runs(n) == [on0(n) EXCEPT !.status = [id |-> n, def |-> on0(n).def]]
<1>1. \/ r = Old!Fail(s)
      \/ \E n \in Old!NextUnused(s) : r = Old!Fail(Old!StartError(made(n), n)) \/ r = Old!Ok(runs(n))
  BY DEF Old!StartDomain
<1>2. ASSUME NEW n \in Old!NextUnused(s)
      PROVE  Old!StartError(made(n), n).state = "shutoff" /\ runs(n).state = "running"
  <2>1. DOMAIN made(n) = Fields
    BY MadeSteps DEF Steps, Fine, Typed
  <2> HIDE DEF made
  <2> QED BY <2>1 DEF Old!StartError, Fields
<1> HIDE DEF runs, made
<1> QED BY <1>1, <1>2 DEF NoPause, Old!Fail, Old!Ok

LEMMA VmStartNoPause ==
  ASSUME NEW s, Fine(s), s.listed, ~Theirs(s, s.id), NEW r \in Old!VmStart(s, FALSE)
  PROVE  NoPause(s, r.s)
<1> DEFINE file == s.saves["managed"]
           d == file.def
           u == Old!AssignDef(s, d, TRUE)
           w == Old!TakeManagedSave(s)
<1>0. "managed" \in Old!Paths
  BY DEF Old!Paths
<1>1. CASE file = NoDef
  BY <1>1, StartNoPause DEF Old!VmStart
<1>2. CASE file # NoDef /\ ~Old!Opens(file)
  <2>1. r = Old!Fail(s)
    BY <1>2 DEF Old!VmStart
  <2> QED BY <2>1 DEF Old!Fail, NoPause
<1>3. CASE file # NoDef /\ Old!Opens(file)
  <2>1. d \in Old!Defs
    BY <1>0, <1>3, FileDef DEF Fine
  <2>2. Steps(s, u) /\ u.listed /\ u.id = s.id /\ u.orphans = s.orphans /\ u.xen = s.xen /\ u.half = s.half
    BY <2>1, AssignSteps
  <2>8. u.state = s.state
    BY DEF Fine, Typed, Fields, Old!AssignDef
  <2>3. w = [u EXCEPT !.saves["managed"] = NoDef]
    BY DEF Old!TakeManagedSave
  <2>4. r \in Old!StartDomain(w, FALSE, file.whole)
    BY <1>3 DEF Old!VmStart
  <2> HIDE DEF u, w
  <2>5. Steps(u, w) /\ w.listed /\ w.id = s.id /\ w.orphans = s.orphans /\ w.xen = s.xen /\ w.half = s.half
    BY <1>0, <2>2, <2>3, DropFileSteps DEF Steps
  <2>6. ~Theirs(w, w.id) /\ w.state = s.state
    BY <2>2, <2>3, <2>5, <2>8 DEF Theirs, Old!Exists, Steps, Fine, Typed, Fields
  <2>7. NoPause(w, r.s)
    BY <2>4, <2>5, <2>6, StartNoPause DEF Steps
  <2> QED BY <2>6, <2>7 DEF NoPause
<1> QED BY <1>1, <1>2, <1>3

LEMMA AutostartNoPause ==
  ASSUME NEW s, Fine(s), NEW u \in Old!Autostart(s)
  PROVE  NoPause(s, u)
<1>1. CASE s.listed /\ s.autostart /\ ~Old!Active(s)
  <2>1. PICK r \in Old!VmStart(s, FALSE) : u = r.s
    BY <1>1 DEF Old!Autostart
  <2> QED BY <1>1, <2>1, Inactive, VmStartNoPause
<1>2. CASE ~(s.listed /\ s.autostart /\ ~Old!Active(s))
  BY <1>2 DEF Old!Autostart, NoPause
<1> QED BY <1>1, <1>2

LEMMA EventNoPause ==
  ASSUME NEW s, Fine(s), s.listed, Old!Exists(s, s.id), NEW u \in Old!EventHandler(s)
  PROVE  NoPause(s, u)
<1> DEFINE x == Old!VmReap(s)
<1>1. u = Old!RemoveTransient(x) \/ \E r \in Old!VmStart(x, FALSE) : u = r.s
  BY DEF Old!EventHandler
<1>2. NoPause(s, x) /\ NoPause(s, Old!RemoveTransient(x))
  BY ReapNoPause DEF Fine
<1>3. ASSUME NEW r \in Old!VmStart(x, FALSE), u = r.s
      PROVE  NoPause(s, u)
  <2>1. Steps(s, x) /\ x.listed /\ ~Theirs(x, x.id)
    BY ReapSteps
  <2> HIDE DEF x
  <2>2. NoPause(x, r.s)
    BY <2>1, VmStartNoPause DEF Steps
  <2> QED BY <1>2, <1>3, <2>2 DEF NoPause
<1> QED BY <1>1, <1>2, <1>3

\* The calls that take no job, or whose job runs beside a save.
LEMMA JoblessNoPause ==
  ASSUME Fine(vm), vm.listed, NEW r,
         \/ r \in Old!DestroyFlags(vm)
         \/ \E d \in Old!XmlDefs : r \in Old!DefineXML(vm, d)
         \/ \E m \in BOOLEAN : r \in Old!UndefineFlags(vm, m)
         \/ r \in Old!ManagedSaveRemove(vm) \/ r \in Old!PinVcpu(vm)
         \/ \E a \in BOOLEAN : r \in Old!SetAutostart(vm, a)
  PROVE  NoPause(vm, r.s)
<1>0. DOMAIN vm = Fields
  BY DEF Fine, Typed
<1>1. CASE r \in Old!DestroyFlags(vm)
  BY <1>1, ReapNoPause DEF Old!DestroyFlags, Old!Ok, Old!Fail, NoPause, Fine
<1>2. ASSUME NEW d \in Old!XmlDefs, r \in Old!DefineXML(vm, d)
      PROVE  NoPause(vm, r.s)
  <2> DEFINE a == Old!AssignDef(vm, d, FALSE)
             u == [a EXCEPT !.persistent = TRUE]
             pd == Old!PersistentDef(u)
             w == [u EXCEPT !.config = pd]
             y == Old!Leaves(vm)
  <2>1. r = Old!Ok(w) \/ r = Old!Fail(y)
    <3>1. r \in {IF q.ok THEN q ELSE Old!Fail(y) : q \in {Old!Ok(w), Old!Fail(u)}}
      BY <1>2 DEF Old!DefineXML, Old!SaveConfig
    <3> HIDE DEF w, y, u
    <3> QED BY <3>1 DEF Old!Ok, Old!Fail
  <2>2. DOMAIN a = Fields /\ a.state = vm.state
    BY <1>0 DEF Old!AssignDef, Fields
  <2>3. y.state = "shutoff"
    BY <1>0 DEF Old!Leaves, Old!Orphaned, Old!RemoveInactive, Fields
  <2> HIDE DEF a
  <2>4. DOMAIN u = Fields /\ u.state = vm.state
    BY <2>2 DEF Fields
  <2> HIDE DEF u, pd, y
  <2>5. w.state = vm.state
    BY <2>4 DEF Fields
  <2> HIDE DEF w
  <2> QED BY <2>1, <2>3, <2>4, <2>5 DEF NoPause, Old!Ok, Old!Fail
<1>3. ASSUME NEW m \in BOOLEAN, r \in Old!UndefineFlags(vm, m)
      PROVE  NoPause(vm, r.s)
  <2> DEFINE off == [vm EXCEPT !.config = NoDef, !.link = FALSE, !.saves["managed"] = NoDef]
             u == [off EXCEPT !.persistent = FALSE]
             x == Old!RemoveInactive(off)
  <2>1. r = Old!Fail(vm) \/ r = Old!Ok(u) \/ r = Old!Ok(x)
    BY <1>3 DEF Old!UndefineFlags
  <2>2. DOMAIN off = Fields /\ off.state = vm.state
    BY <1>0 DEF Fields
  <2> HIDE DEF off
  <2>3. u.state = vm.state /\ x.state = "shutoff"
    BY <2>2 DEF Old!RemoveInactive, Fields
  <2> HIDE DEF u, x
  <2> QED BY <2>1, <2>3 DEF NoPause, Old!Ok, Old!Fail
<1>4. CASE r \in Old!ManagedSaveRemove(vm)
  BY <1>0, <1>4 DEF Old!ManagedSaveRemove, NoPause, Old!Ok, Old!Fail, Fields
<1>5. CASE r \in Old!PinVcpu(vm)
  <2> DEFINE u == [vm EXCEPT !.def.pinned = TRUE]
  <2>1. r \in {Old!Fail(vm), Old!Fail(u), Old!Ok([u EXCEPT !.status = [id |-> u.id, def |-> u.def]])}
    BY <1>5 DEF Old!PinVcpu, Old!SaveStatus
  <2>2. DOMAIN u = Fields /\ u.state = vm.state
    BY <1>0 DEF Fields
  <2> HIDE DEF u
  <2> QED BY <2>1, <2>2 DEF NoPause, Old!Ok, Old!Fail, Fields
<1>6. ASSUME NEW a \in BOOLEAN, r \in Old!SetAutostart(vm, a)
      PROVE  NoPause(vm, r.s)
  <2> DEFINE u == [vm EXCEPT !.autostart = a, !.link = IF a = vm.autostart THEN @ ELSE a]
  <2>1. r = Old!Fail(vm) \/ r = Old!Ok(u)
    BY <1>6 DEF Old!SetAutostart
  <2>2. u.state = vm.state
    BY <1>0 DEF Fields
  <2> HIDE DEF u
  <2> QED BY <2>1, <2>2 DEF NoPause, Old!Ok, Old!Fail
<1> QED BY <1>1, <1>2, <1>3, <1>4, <1>5, <1>6

\* Where a modifying job is granted, and where one runs, no other thread saves.
LEMMA NoSaver ==
  ASSUME ConfigInv, MayModify("listed"), NEW v \in Threads, pc[v] = "saving"
  PROVE  on[v] # "listed"
  BY DEF ConfigInv, JobsOk, ThreadOk, Works, MayModify

LEMMA OneWorker ==
  ASSUME ConfigInv, NEW t \in Threads, NEW v \in Threads, Works(t), Works(v), on[t] = on[v]
  PROVE  t = v
<1>1. on[t] \in Here /\ ThreadOk(t) /\ ThreadOk(v)
  BY DEF ConfigInv, JobsOk, ThreadsTyped
<1>2. PICK j \in busy[on[t]], k \in busy[on[t]] : j[1] = t /\ k[1] = v
  BY <1>1 DEF ThreadOk
<1> QED BY <1>1, <1>2 DEF ConfigInv, JobsOk

LEMMA BecomesState ==
  ASSUME NEW t \in Threads, NEW u, Typed(u), NEW stays, Becomes(t, u, stays), on[t] # "listed"
  PROVE  vm'.state = vm.state
  BY DEF Becomes, Typed, Fields

\* The step of one thread.
LEMMA ThreadRunning ==
  ASSUME SavesRunning, NEW t \in Threads,
         \A v \in Threads \ {t} :
           pc'[v] = "saving" /\ on'[v] = "listed" => pc[v] = "saving" /\ on[v] = "listed",
         \/ vm'.state = vm.state
         \/ \A v \in Threads \ {t} : pc[v] = "saving" => on[v] # "listed",
         pc'[t] = "saving" /\ on'[t] = "listed" => vm'.state # "paused"
  PROVE  SavesRunning'
  BY DEF SavesRunning

LEMMA NoOtherSaver ==
  ASSUME ConfigInv, NEW t \in Threads, Works(t), on[t] = "listed"
  PROVE  \A v \in Threads \ {t} : pc[v] = "saving" => on[v] # "listed"
  BY OneWorker DEF Works

\* The step of a thread that returns.
LEMMA ReturnRunning ==
  ASSUME ConfigInv, SavesRunning, NEW t \in Threads, NEW written, Idles(t, written), OnListed(t),
         \/ vm'.state = vm.state
         \/ \A v \in Threads \ {t} : pc[v] = "saving" => on[v] # "listed"
  PROVE  SavesRunning'
<1>1. pc'[t] = "idle" /\ \A v \in Threads \ {t} : pc'[v] = pc[v] /\ on'[v] = on[v]
  BY DEF Idles, OnListed, ConfigInv, ThreadsTyped
<1> QED BY <1>1, ThreadRunning

LEMMA CallRunning ==
  ASSUME ConfigInv, SavesRunning, NEW t \in Threads, (\E o \in Ops : Call(t, o)) \/ Grant(t)
  PROVE  SavesRunning'
<1>1. vm' = vm /\ on' = on /\ pc'[t] \in {"waits", "works"}
      /\ \A v \in Threads \ {t} : pc'[v] = pc[v]
  BY DEF Call, Grant, Granted, ConfigInv, ThreadsTyped
<1> QED BY <1>1, ThreadRunning

LEMMA CallWithDefRunning ==
  ASSUME ConfigInv, SavesRunning, NEW t \in Threads, CallWithDef(t)
  PROVE  SavesRunning'
<1>1. vm'.state = vm.state /\ on' = on /\ pc' = [pc EXCEPT ![t] = "waits"]
  BY AssignedSteps DEF ConfigInv
<1>2. pc'[t] = "waits" /\ \A v \in Threads \ {t} : pc'[v] = pc[v]
  BY <1>1 DEF ConfigInv, ThreadsTyped
<1> QED BY <1>1, <1>2, ThreadRunning

LEMMA GiveUpRunning ==
  ASSUME ConfigInv, SavesRunning, NEW t \in Threads, GiveUp(t)
  PROVE  SavesRunning'
<1>1. Becomes(t, Object(t), FALSE) /\ Idles(t, from) /\ OnListed(t) /\ pc[t] # "idle"
  BY DEF GiveUp, Returns, Idle
<1>2. ObjFacts(t)
  BY <1>1, ObjectFacts
<1>3. vm'.state = vm.state
  BY <1>1, <1>2, BecomesState DEF ObjFacts, Becomes
<1> QED BY <1>1, <1>3, ReturnRunning

LEMMA SetAmountsRunning ==
  ASSUME ConfigInv, SavesRunning, NEW t \in Threads, SetAmounts(t)
  PROVE  SavesRunning'
<1>1. PICK r \in SetMemory(Object(t)) \cup SetVcpus(Object(t)) : Becomes(t, r.s, FALSE)
  BY DEF SetAmounts
<1>2. pc[t] = "waits" /\ Idles(t, from) /\ OnListed(t) /\ MayModify(on[t])
  BY DEF SetAmounts, Returns, Idle
<1>3. ObjFacts(t)
  BY <1>2, ObjectFacts
<1>4. Resembles(Object(t), r.s)
  BY <1>3, SetMemoryResembles, SetVcpusResembles DEF ObjFacts
<1>5. Typed(r.s)
  BY <1>3, <1>4, ResembleTyped DEF ObjFacts
<1>6. CASE on[t] = "listed"
  BY <1>2, <1>6, NoSaver, ReturnRunning
<1>7. CASE on[t] # "listed"
  BY <1>1, <1>2, <1>5, <1>7, BecomesState, ReturnRunning
<1> QED BY <1>6, <1>7

LEMMA ModifyDeviceRunning ==
  ASSUME ConfigInv, SavesRunning, NEW t \in Threads, ModifyDevice(t)
  PROVE  SavesRunning'
<1>1. PICK r \in DeviceCalls(Object(t)) : Becomes(t, r.s, FALSE)
  BY DEF ModifyDevice
<1>2. pc[t] = "works" /\ Idles(t, from) /\ OnListed(t)
  BY DEF ModifyDevice, Returns, Idle
<1>3. ObjFacts(t)
  BY <1>2, ObjectFacts
<1>4. Acts(Object(t), r.s)
  BY <1>3, DeviceCallsActs DEF ObjFacts
<1>5. Typed(r.s)
  BY <1>4 DEF Acts, Touches
<1>6. CASE on[t] = "listed"
  BY <1>2, <1>6, NoOtherSaver, ReturnRunning DEF Works
<1>7. CASE on[t] # "listed"
  BY <1>1, <1>2, <1>5, <1>7, BecomesState, ReturnRunning
<1> QED BY <1>6, <1>7

LEMMA StartedRunning ==
  ASSUME ConfigInv, SavesRunning, NEW t \in Threads, CreateXML(t) \/ RestoreFlags(t)
  PROVE  SavesRunning'
<1>1. PICK paused, whole, r, removes :
        /\ r \in Old!VmStart(Object(t), paused) \/ r \in Old!StartDomain(Object(t), paused, whole)
        /\ Started(t, r, removes)
  BY Starting
<1>2. pc[t] = "works" /\ on[t] \in Here
  BY DEF CreateXML, RestoreFlags, ConfigInv, ThreadsTyped
<1>3. CASE on[t] = "listed"
  <2>1. \A v \in Threads \ {t} : pc[v] = "saving" => on[v] # "listed"
    BY <1>2, <1>3, NoOtherSaver DEF Works
  <2>2. Idle(t) /\ (OnListed(t) \/ Forgets(Old!Orphaned(r.s), {t}))
    BY <1>1, <1>3 DEF Started, Returns
  <2>3. pc'[t] = "idle" /\ \A v \in Threads \ {t} : pc'[v] = pc[v]
    BY <2>2 DEF Idle, Idles, ConfigInv, ThreadsTyped
  <2>4. \A v \in Threads \ {t} : on'[v] = "listed" => on[v] = "listed"
    <3>1. CASE OnListed(t)
      BY <3>1 DEF OnListed, ConfigInv, ThreadsTyped
    <3>2. CASE Forgets(Old!Orphaned(r.s), {t})
      BY <3>2 DEF Forgets
    <3> QED BY <2>2, <3>1, <3>2
  <2> QED BY <2>1, <2>3, <2>4, ThreadRunning
<1>4. CASE on[t] = "removed"
  <2> DEFINE u == Old!Orphaned(r.s)
  <2>1. Becomes(t, u, FALSE) /\ Idles(t, from) /\ OnListed(t)
    BY <1>1, <1>4 DEF Started, Returns, Idle
  <2>2. Typed(r.s)
    BY <1>1, <1>2, <1>4, RemovedStarts
  <2>3. Typed(u)
    BY <2>2 DEF Typed, Known, Fields, Old!Orphaned
  <2> HIDE DEF u
  <2>4. vm'.state = vm.state
    BY <1>4, <2>1, <2>3, BecomesState
  <2> QED BY <2>1, <2>4, ReturnRunning
<1> QED BY <1>2, <1>3, <1>4 DEF Here

LEMMA SaveBeginRunning ==
  ASSUME ConfigInv, SavesRunning, NEW t \in Threads, SaveBegin(t)
  PROVE  SavesRunning'
<1> DEFINE s == Object(t)
           file(d) == [s EXCEPT !.saves[op[t]] = [def |-> d, whole |-> FALSE]]
<1>1. /\ pc[t] = "works" /\ op[t] \in Saves
      /\ \/ /\ s.state # "paused" /\ s.def # NoDef
            /\ Becomes(t, file(s.def), TRUE)
            /\ pc' = [pc EXCEPT ![t] = "saving"] /\ on' = on
         \/ Becomes(t, s, FALSE) /\ Idles(t, from) /\ OnListed(t)
         \/ Becomes(t, file(NoDef), FALSE) /\ Idles(t, Overwrites(t)) /\ OnListed(t)
  BY DEF SaveBegin, Idle
<1>2. ObjFacts(t)
  BY <1>1, ObjectFacts
<1>3. ASSUME NEW d \in Old!Defs \cup {NoDef}
      PROVE  Typed(file(d)) /\ file(d).state = s.state
  <2> DEFINE f == [def |-> d, whole |-> FALSE]
             u == [s EXCEPT !.saves[op[t]] = f]
  <2>1. f \in Old!SaveFiles /\ op[t] \in Old!Paths
    BY <1>1, SavesArePaths DEF Old!SaveFiles
  <2> HIDE DEF f
  <2>2. Typed(u)
    BY <1>2, <2>1, WroteTouches DEF ObjFacts, Touches
  <2>3. u.state = s.state
    BY <1>2 DEF ObjFacts, Typed, Fields
  <2> QED BY <2>2, <2>3 DEF f
<1>4. s.def \in Old!Defs
  BY <1>2 DEF ObjFacts, Typed
<1>5. on[t] = "listed" => s = vm /\ \A v \in Threads \ {t} : pc[v] = "saving" => on[v] # "listed"
  BY <1>1, <1>2, NoOtherSaver DEF ObjFacts, Works
<1> HIDE DEF file
<1>6. CASE /\ s.state # "paused" /\ s.def # NoDef
           /\ Becomes(t, file(s.def), TRUE)
           /\ pc' = [pc EXCEPT ![t] = "saving"] /\ on' = on
  <2>1. pc'[t] = "saving" /\ \A v \in Threads \ {t} : pc'[v] = pc[v]
    BY <1>6 DEF ConfigInv, ThreadsTyped
  <2>2. CASE on[t] = "listed"
    <3>1. vm'.state # "paused"
      BY <1>3, <1>4, <1>6, <2>2 DEF Becomes
    <3> QED BY <1>5, <1>6, <2>1, <2>2, <3>1, ThreadRunning
  <2>3. CASE on[t] # "listed"
    <3>1. vm'.state = vm.state
      BY <1>3, <1>4, <1>6, <2>3, BecomesState
    <3> QED BY <1>6, <2>1, <2>3, <3>1, ThreadRunning
  <2> QED BY <2>2, <2>3
<1>7. CASE Becomes(t, s, FALSE) /\ Idles(t, from) /\ OnListed(t)
  <2>1. on[t] # "listed" => vm'.state = vm.state
    BY <1>2, <1>7, BecomesState DEF ObjFacts
  <2> QED BY <1>5, <1>7, <2>1, ReturnRunning
<1>8. CASE Becomes(t, file(NoDef), FALSE) /\ Idles(t, Overwrites(t)) /\ OnListed(t)
  <2>1. on[t] # "listed" => vm'.state = vm.state
    BY <1>3, <1>8, BecomesState
  <2> QED BY <1>5, <1>8, <2>1, ReturnRunning
<1> QED BY <1>1, <1>6, <1>7, <1>8

LEMMA SaveGuestRunning ==
  ASSUME ConfigInv, SavesRunning, NEW t \in Threads, SaveGuest(t)
  PROVE  SavesRunning'
<1> DEFINE i == Object(t).id
           suspended == [vm EXCEPT !.xen[i].state = "suspended"]
           whole == [suspended EXCEPT !.saves[op[t]].whole = TRUE]
<1>1. vm' \in {vm, suspended, whole} /\ pc' = [pc EXCEPT ![t] = "saved"] /\ on' = on
  BY DEF SaveGuest
<1>2. DOMAIN suspended = Fields /\ suspended.state = vm.state
  BY DEF ConfigInv, Fine, Typed, Fields
<1> HIDE DEF suspended
<1>3. whole.state = vm.state
  BY <1>2 DEF Fields
<1>4. vm'.state = vm.state
  BY <1>1, <1>2, <1>3
<1>5. pc'[t] = "saved" /\ \A v \in Threads \ {t} : pc'[v] = pc[v]
  BY <1>1 DEF ConfigInv, ThreadsTyped
<1> QED BY <1>1, <1>4, <1>5, ThreadRunning

LEMMA SaveEndRunning ==
  ASSUME ConfigInv, SavesRunning, NEW t \in Threads, SaveEnd(t)
  PROVE  SavesRunning'
<1> DEFINE s == Object(t)
           reaped == Old!VmReap(s)
           done == saved[t] # 0 /\ Old!Exists(s, s.id)
           u == IF done THEN reaped ELSE s
<1>1. /\ pc[t] = "saved"
      /\ \/ Becomes(t, u, FALSE) /\ Idles(t, from) /\ OnListed(t)
         \/ on[t] = "listed" /\ Forgets(reaped, {t}) /\ Idle(t)
  BY DEF SaveEnd, Returns, Idle
<1>2. ObjFacts(t)
  BY <1>1, ObjectFacts
<1>3. on[t] = "listed" => \A v \in Threads \ {t} : pc[v] = "saving" => on[v] # "listed"
  BY <1>1, NoOtherSaver DEF Works
<1>4. CASE Becomes(t, u, FALSE) /\ Idles(t, from) /\ OnListed(t)
  <2>1. Acts(s, u)
    BY <1>2, ReapActs, ActsSame DEF ObjFacts
  <2> HIDE DEF u
  <2>2. on[t] # "listed" => vm'.state = vm.state
    BY <1>4, <2>1, BecomesState DEF Acts, Touches
  <2> QED BY <1>3, <1>4, <2>2, ReturnRunning
<1>5. CASE on[t] = "listed" /\ Forgets(reaped, {t}) /\ Idle(t)
  <2>1. pc'[t] = "idle" /\ \A v \in Threads \ {t} : pc'[v] = pc[v]
    BY <1>5 DEF Idle, Idles, ConfigInv, ThreadsTyped
  <2>2. \A v \in Threads \ {t} : on'[v] = "listed" => on[v] = "listed"
    BY <1>5 DEF Forgets
  <2> QED BY <1>3, <1>5, <2>1, <2>2, ThreadRunning
<1> QED BY <1>1, <1>4, <1>5

\* The calls that are done within one critical section, and the events.
LEMMA DoesRunning ==
  ASSUME ConfigInv, SavesRunning, NEW r, NEW o, Does(r, o),
         vm.listed => MayModify("listed") \/ NoPause(vm, r.s)
  PROVE  SavesRunning'
<1>1. SUFFICES ASSUME NEW v \in Threads, pc'[v] = "saving", on'[v] = "listed"
               PROVE  vm'.state # "paused"
  BY DEF SavesRunning
<1>2. vm' = r.s /\ pc' = pc
  BY DEF Does
<1>3. on[v] = "listed"
  BY <1>1, <1>2 DEF Does, Forgets
<1>4. vm.listed /\ ~MayModify("listed") /\ vm.state # "paused"
  BY <1>1, <1>2, <1>3, NoSaver DEF SavesRunning, ConfigInv, JobsOk, ThreadOk
<1> QED BY <1>2, <1>4 DEF NoPause

LEMMA CallsRunning ==
  ASSUME ConfigInv, SavesRunning,
         \/ CreateWithFlags \/ DestroyFlags
         \/ CoreDump \/ DomainResume
         \/ DefineXML \/ UndefineFlags \/ ManagedSaveRemove \/ PinVcpu \/ SetAutostart
  PROVE  SavesRunning'
<1>0. Fine(vm)
  BY DEF ConfigInv
<1>1. CASE CreateWithFlags \/ CoreDump \/ DomainResume
  BY <1>1, DoesRunning DEF CreateWithFlags, CoreDump, DomainResume
<1>2. CASE DestroyFlags
  <2>1. PICK r \in Old!DestroyFlags(vm) : vm.listed /\ Does(r, Old!VmReap(vm))
    BY <1>2 DEF DestroyFlags
  <2> QED BY <1>0, <2>1, JoblessNoPause, DoesRunning
<1>3. CASE DefineXML
  <2>1. PICK d \in Old!XmlDefs : \E r \in Old!DefineXML(vm, d) :
          Does(r, [Old!AssignDef(vm, d, FALSE) EXCEPT !.persistent = TRUE])
    BY <1>3 DEF DefineXML
  <2>2. PICK r \in Old!DefineXML(vm, d) :
          Does(r, [Old!AssignDef(vm, d, FALSE) EXCEPT !.persistent = TRUE])
    BY <2>1
  <2>3. vm.listed => NoPause(vm, r.s)
    BY <1>0, JoblessNoPause
  <2> HIDE DEF Does
  <2> QED BY <2>2, <2>3, DoesRunning
<1>4. CASE UndefineFlags
  <2>1. PICK m \in BOOLEAN : vm.listed /\ \E r \in Old!UndefineFlags(vm, m) : Does(r, vm)
    BY <1>4 DEF UndefineFlags
  <2>2. PICK r \in Old!UndefineFlags(vm, m) : Does(r, vm)
    BY <2>1
  <2>3. NoPause(vm, r.s)
    BY <1>0, <2>1, JoblessNoPause
  <2> QED BY <2>2, <2>3, DoesRunning
<1>5. CASE ManagedSaveRemove \/ PinVcpu
  <2>1. PICK r : vm.listed /\ Does(r, vm) /\ (r \in Old!ManagedSaveRemove(vm) \/ r \in Old!PinVcpu(vm))
    BY <1>5 DEF ManagedSaveRemove, PinVcpu
  <2> QED BY <1>0, <2>1, JoblessNoPause, DoesRunning
<1>6. CASE SetAutostart
  <2>1. PICK a \in BOOLEAN : vm.listed /\ \E r \in Old!SetAutostart(vm, a) : Does(r, vm)
    BY <1>6 DEF SetAutostart
  <2>2. PICK r \in Old!SetAutostart(vm, a) : Does(r, vm)
    BY <2>1
  <2>3. NoPause(vm, r.s)
    BY <1>0, <2>1, JoblessNoPause
  <2> QED BY <2>2, <2>3, DoesRunning
<1> QED BY <1>1, <1>2, <1>3, <1>4, <1>5, <1>6

LEMMA EventRunning ==
  ASSUME ConfigInv, SavesRunning, Event
  PROVE  SavesRunning'
<1>1. PICK s \in Old!EventHandler(vm) : Does([ok |-> TRUE, s |-> s], Old!VmReap(vm))
  BY DEF Event
<1>2. vm.listed /\ NoPause(vm, s)
  BY EventNoPause DEF Event, ConfigInv
<1> DEFINE r == [ok |-> TRUE, s |-> s]
<1>3. r.s = s /\ Does(r, Old!VmReap(vm))
  BY <1>1
<1> HIDE DEF r
<1> QED BY <1>2, <1>3, DoesRunning

LEMMA RunningInv ==
  ASSUME ConfigInv, SavesRunning, [Next]_vars
  PROVE  SavesRunning'
<1>1. CASE \E t \in Threads :
             \/ \E o \in Ops : Call(t, o)
             \/ CallWithDef(t)
             \/ GiveUp(t) \/ Grant(t)
             \/ SetAmounts(t) \/ ModifyDevice(t)
             \/ CreateXML(t) \/ RestoreFlags(t)
             \/ SaveBegin(t) \/ SaveGuest(t) \/ SaveEnd(t)
  BY <1>1, CallRunning, CallWithDefRunning, GiveUpRunning, SetAmountsRunning, ModifyDeviceRunning, StartedRunning,
     SaveBeginRunning, SaveGuestRunning, SaveEndRunning
<1>2. CASE \/ CreateWithFlags \/ DestroyFlags
           \/ CoreDump \/ DomainResume
           \/ DefineXML \/ UndefineFlags \/ ManagedSaveRemove \/ PinVcpu \/ SetAutostart
  BY <1>2, CallsRunning
<1>3. CASE GuestStops
  <2>1. vm'.state = vm.state /\ pc' = pc /\ on' = on
    BY <1>3 DEF GuestStops, Old!GuestStops, threadVars, ConfigInv, Fine, Typed, Fields
  <2> QED BY <2>1 DEF SavesRunning
<1>4. CASE Reload
  <2>1. NoPause(vm, vm') /\ pc' = pc /\ on' = on
    BY <1>4, AutostartNoPause DEF Reload, ConfigInv
  <2> QED BY <2>1 DEF SavesRunning, NoPause
<1>5. CASE Restart
  BY <1>5 DEF Restart, SavesRunning
<1>6. CASE UNCHANGED vars
  BY <1>6 DEF vars, SavesRunning
<1> QED BY <1>1, <1>2, <1>3, <1>4, <1>5, <1>6, EventRunning DEF Next

(***************************************************************************)
(* Each step is one of the old driver's, or astray.                        *)
(***************************************************************************)
\* The steps ImplementsOld allows.
Allowed == Astray \/ OldStep

LEMMA ResultOld ==
  ASSUME NEW r, vm' = r.s,
         \/ vm.listed /\ r \in Old!CallOnDomain(vm)
         \/ vm.listed /\ r \in Old!CallOnConfig(vm)
         \/ r \in Old!CallWithDef(vm)
  PROVE  Allowed
<1>1. r \in Old!CallResults(vm)
  BY DEF Old!CallResults
<1> QED BY <1>1 DEF Allowed, OldStep

LEMMA AmountsAreCalls ==
  ASSUME NEW r \in SetMemory(vm) \cup SetVcpus(vm)
  PROVE  r \in Old!CallOnConfig(vm)
<1> DEFINE mem == UNION {Old!SetMemoryFlags(vm, a, m, f) :
                           a \in Old!Amounts, m \in BOOLEAN, f \in Old!FlagSets}
           cpu == UNION {Old!SetVcpusFlags(vm, a, m, f) :
                           a \in Old!Amounts, m \in BOOLEAN, f \in Old!FlagSets}
           dev == UNION {Old!ModifyDeviceFlags(vm, c, d, f) :
                           c \in {"attach", "detach", "update"}, d \in Old!Devices, f \in Old!FlagSets}
<1>1. Old!CallOnConfig(vm) = mem \cup cpu \cup dev
  BY SMT DEF Old!CallOnConfig
<1>2. r \in mem \cup cpu
  BY SMT DEF SetMemory, SetVcpus
<1> HIDE DEF mem, cpu, dev
<1> QED BY <1>1, <1>2

LEMMA DevicesAreCalls ==
  ASSUME NEW r \in DeviceCalls(vm)
  PROVE  r \in Old!CallOnConfig(vm)
<1> DEFINE mem == UNION {Old!SetMemoryFlags(vm, a, m, f) :
                           a \in Old!Amounts, m \in BOOLEAN, f \in Old!FlagSets}
           cpu == UNION {Old!SetVcpusFlags(vm, a, m, f) :
                           a \in Old!Amounts, m \in BOOLEAN, f \in Old!FlagSets}
           dev == UNION {Old!ModifyDeviceFlags(vm, c, d, f) :
                           c \in {"attach", "detach", "update"}, d \in Old!Devices, f \in Old!FlagSets}
<1>1. Old!CallOnConfig(vm) = mem \cup cpu \cup dev
  BY SMT DEF Old!CallOnConfig
<1>2. PICK c \in {"attach", "detach", "update"}, d \in Old!Devices, f \in Old!FlagSets :
        r \in Old!ModifyDeviceFlags(vm, c, d, f)
  BY DEF DeviceCalls, Attaches, Detaches, Updates
<1>3. r \in dev
  BY <1>2
<1> HIDE DEF mem, cpu, dev
<1> QED BY <1>1, <1>3

LEMMA SavesAreCalls ==
  ASSUME NEW p \in Old!Paths, NEW r \in Old!DomainSave(vm, p)
  PROVE  r \in Old!CallOnDomain(vm)
<1>1. r \in UNION {Old!DomainSave(vm, q) : q \in Old!Paths}
  OBVIOUS
<1>2. UNION {Old!DomainSave(vm, q) : q \in Old!Paths} \subseteq Old!CallOnDomain(vm)
  BY SMT DEF Old!CallOnDomain
<1> QED BY <1>1, <1>2

LEMMA MovesAstray ==
  ASSUME NEW t \in Threads, pc'[t] # pc[t],
         \/ on[t] = "removed" \/ t \in unlinked
         \/ pc[t] = "saving" /\ vm.saves[op[t]].def # vm.def
         \/ op[t] \in Saves /\ (~Old!Active(vm) \/ (op[t] = "managed" /\ ~vm.persistent))
         \/ /\ pc[t] = "works" /\ op[t] \in Starts
            /\ \/ Old!Active(vm)
               \/ op[t] = "restore" /\ (vm.saves["user"] = NoDef \/ vm.saves["user"].def # vm.def)
  PROVE  Allowed
  BY DEF Allowed, Astray

\* A thread whose object was removed.
LEMMA RemovedAstray ==
  ASSUME ConfigInv, NEW t \in Threads, on[t] # "listed", pc'[t] # pc[t]
  PROVE  Allowed
<1>1. on[t] = "removed"
  BY DEF ConfigInv, ThreadsTyped, Here
<1> QED BY <1>1, MovesAstray

LEMMA GiveUpOld ==
  ASSUME ConfigInv, NEW t \in Threads, GiveUp(t)
  PROVE  Allowed
<1>1. pc[t] = "waits" /\ pc'[t] = "idle" /\ Becomes(t, Object(t), FALSE)
  BY DEF GiveUp, Returns, Idle, Idles, ConfigInv, ThreadsTyped
<1>2. CASE on[t] = "listed"
  BY <1>1, <1>2 DEF Becomes, Object, Allowed, OldStep
<1> QED BY <1>1, <1>2, RemovedAstray

LEMMA CallWithDefOld ==
  ASSUME NEW t \in Threads, CallWithDef(t)
  PROVE  Allowed
  BY DEF CallWithDef, Assigns, Allowed, OldStep

LEMMA StartedOld ==
  ASSUME ConfigInv, NEW t \in Threads, CreateXML(t) \/ RestoreFlags(t)
  PROVE  Allowed
<1>1. /\ pc[t] = "works" /\ pc'[t] = "idle" /\ op[t] \in Starts
  <2>1. Idle(t)
    BY DEF CreateXML, RestoreFlags, Started, Returns
  <2> QED BY <2>1 DEF CreateXML, RestoreFlags, Idle, Idles, ConfigInv, ThreadsTyped, Starts
<1>2. SUFFICES ASSUME on[t] = "listed", ~Old!Active(vm),
                      op[t] = "restore" => vm.saves["user"] # NoDef /\ vm.saves["user"].def = vm.def
               PROVE  Allowed
  BY <1>1, RemovedAstray, MovesAstray
<1>3. Object(t) = vm /\ vm.listed
  BY <1>1, <1>2 DEF Object, ConfigInv, JobsOk, ThreadOk
<1>4. CASE CreateXML(t)
  <2>1. PICK paused \in BOOLEAN : \E r \in Old!VmStart(vm, paused) : Started(t, r, ~r.ok)
    BY <1>3, <1>4 DEF CreateXML
  <2>2. PICK r \in Old!VmStart(vm, paused) : Started(t, r, ~r.ok)
    BY <2>1
  <2>3. vm' = IF r.ok THEN r.s ELSE Old!Leaves(r.s)
    BY <1>2, <2>2 DEF Started, Old!Leaves
  <2> DEFINE q == IF r.ok THEN r ELSE Old!Fail(Old!Leaves(r.s))
  <2>4. q \in Old!XmlStart(vm, paused)
    BY DEF Old!XmlStart
  <2>5. vm' = q.s
    BY <2>3 DEF Old!Fail
  <2> HIDE DEF q
  <2> QED BY <1>2, <1>3, <2>4, <2>5 DEF StartsAssigned, Allowed, OldStep
<1>5. CASE RestoreFlags(t)
  <2>1. PICK r \in Old!StartDomain(vm, FALSE, vm.saves["user"].whole) :
          Started(t, r, ~r.ok /\ ~vm.persistent)
    BY <1>3, <1>5 DEF RestoreFlags
  <2>2. vm' = IF r.ok \/ vm.persistent THEN r.s ELSE Old!Leaves(r.s)
    BY <1>2, <2>1 DEF Started, Old!Leaves
  <2> DEFINE q == IF r.ok \/ vm.persistent THEN r ELSE Old!Fail(Old!Leaves(r.s))
  <2>3. q \in Old!RestoreStart(vm)
    BY <2>1 DEF Old!RestoreStart
  <2>4. vm' = q.s
    BY <2>2 DEF Old!Fail
  <2>5. vm.saves["user"] # NoDef /\ vm.saves["user"].def = vm.def
    BY <1>2, <1>5 DEF RestoreFlags
  <2> HIDE DEF q
  <2> QED BY <1>2, <1>3, <2>3, <2>4, <2>5 DEF StartsAssigned, Allowed, OldStep
<1> QED BY <1>4, <1>5

LEMMA SetAmountsOld ==
  ASSUME ConfigInv, NEW t \in Threads, SetAmounts(t)
  PROVE  Allowed
<1>1. PICK r \in SetMemory(Object(t)) \cup SetVcpus(Object(t)) : Becomes(t, r.s, FALSE)
  BY DEF SetAmounts
<1>2. pc[t] = "waits" /\ pc'[t] = "idle"
  BY DEF SetAmounts, Returns, Idle, Idles, ConfigInv, ThreadsTyped
<1>3. CASE on[t] = "listed"
  <2>1. vm' = r.s
    BY <1>1, <1>3 DEF Becomes
  <2>2. Object(t) = vm /\ vm.listed
    BY <1>2, <1>3 DEF Object, ConfigInv, JobsOk, ThreadOk
  <2> QED BY <1>1, <2>1, <2>2, AmountsAreCalls, ResultOld
<1> QED BY <1>2, <1>3, RemovedAstray

LEMMA ModifyDeviceOld ==
  ASSUME ConfigInv, NEW t \in Threads, ModifyDevice(t)
  PROVE  Allowed
<1>1. PICK r \in DeviceCalls(Object(t)) : Becomes(t, r.s, FALSE)
  BY DEF ModifyDevice
<1>2. pc[t] = "works" /\ pc'[t] = "idle"
  BY DEF ModifyDevice, Returns, Idle, Idles, ConfigInv, ThreadsTyped
<1>3. CASE on[t] = "listed"
  <2>1. vm' = r.s
    BY <1>1, <1>3 DEF Becomes
  <2>2. Object(t) = vm /\ vm.listed
    BY <1>2, <1>3 DEF Object, ConfigInv, JobsOk, ThreadOk
  <2> QED BY <1>1, <2>1, <2>2, DevicesAreCalls, ResultOld
<1> QED BY <1>2, <1>3, RemovedAstray

\* A save is on the path its domain was checked for, or astray.
Straight(t) ==
  /\ on[t] = "listed" /\ t \notin unlinked
  /\ Old!Active(vm) /\ (op[t] = "managed" => vm.persistent)
  /\ op[t] \in Old!Paths /\ vm.listed /\ Object(t) = vm

LEMMA StraightOrAstray ==
  ASSUME ConfigInv, NEW t \in Threads, pc[t] # "idle", op[t] \in Saves, pc'[t] # pc[t]
  PROVE  Straight(t) \/ Allowed
<1>1. CASE on[t] = "listed" /\ t \notin unlinked /\ Old!Active(vm) /\ (op[t] = "managed" => vm.persistent)
  BY <1>1, SavesArePaths DEF Straight, Object, ConfigInv, JobsOk, ThreadOk
<1> QED BY <1>1, RemovedAstray, MovesAstray

\* What libxlDoDomainSave may leave.
LEMMA SaveResults ==
  ASSUME vm.listed, NEW p \in Old!Paths, Old!Active(vm), p = "managed" => vm.persistent,
         vm.state # "paused",
         LET file(d, whole) == [vm EXCEPT !.saves[p] = [def |-> d, whole |-> whole]]
         IN  \/ vm' = file(NoDef, FALSE) \/ vm' = file(vm.def, FALSE)
             \/ /\ Old!Exists(vm, vm.id) /\ vm.xen[vm.id].state = "running"
                /\ \E w \in BOOLEAN : vm' = [file(vm.def, w) EXCEPT !.xen[vm.id].state = "suspended"]
  PROVE  Allowed
<1> DEFINE file(d, whole) == [vm EXCEPT !.saves[p] = [def |-> d, whole |-> whole]]
           alive == Old!Exists(vm, vm.id) /\ vm.xen[vm.id].state = "running"
           done == Old!Ok(Old!RemoveTransient(Old!VmReap(file(vm.def, TRUE))))
<1>1. Old!DomainSave(vm, p) =
        {Old!Fail(vm), Old!Fail(file(NoDef, FALSE)), Old!Fail(file(vm.def, FALSE))} \cup
        IF ~Old!Exists(vm, vm.id) \/ vm.xen[vm.id].state # "running" THEN {}
        ELSE {Old!Fail([file(vm.def, w) EXCEPT !.xen[vm.id].state = "suspended"]) : w \in BOOLEAN}
             \cup {done}
  BY DEF Old!DomainSave
<1> HIDE DEF done
<1>2. \/ vm' = file(NoDef, FALSE) \/ vm' = file(vm.def, FALSE)
      \/ alive /\ \E w \in BOOLEAN : vm' = [file(vm.def, w) EXCEPT !.xen[vm.id].state = "suspended"]
  OBVIOUS
<1> DEFINE r == Old!Fail(vm')
<1> HIDE DEF file
<1>3. r \in Old!DomainSave(vm, p) /\ r.s = vm'
  BY <1>1, <1>2 DEF Old!Fail
<1> HIDE DEF r
<1>4. r \in Old!CallOnDomain(vm)
  BY <1>3, SavesAreCalls
<1> QED BY <1>3, <1>4, ResultOld

LEMMA SaveBeginOld ==
  ASSUME ConfigInv, NEW t \in Threads, SaveBegin(t)
  PROVE  Allowed
<1> DEFINE s == Object(t)
           file(d) == [s EXCEPT !.saves[op[t]] = [def |-> d, whole |-> FALSE]]
<1>1. /\ pc[t] = "works" /\ op[t] \in Saves
      /\ \/ s.state # "paused" /\ Becomes(t, file(s.def), TRUE) /\ pc' = [pc EXCEPT ![t] = "saving"]
         \/ Becomes(t, s, FALSE) /\ Idles(t, from)
         \/ s.state # "paused" /\ Becomes(t, file(NoDef), FALSE) /\ Idles(t, Overwrites(t))
  BY DEF SaveBegin, Idle
<1>2. pc'[t] # pc[t]
  BY <1>1 DEF Idles, ConfigInv, ThreadsTyped
<1>3. CASE Straight(t)
  <2>1. /\ vm.listed /\ op[t] \in Old!Paths /\ Old!Active(vm) /\ (op[t] = "managed" => vm.persistent)
        /\ s = vm /\ on[t] = "listed"
    BY <1>3 DEF Straight
  <2>2. \/ vm' = vm
        \/ vm.state # "paused" /\ vm' = [vm EXCEPT !.saves[op[t]] = [def |-> vm.def, whole |-> FALSE]]
        \/ vm.state # "paused" /\ vm' = [vm EXCEPT !.saves[op[t]] = [def |-> NoDef, whole |-> FALSE]]
    BY <1>1, <2>1 DEF Becomes
  <2>3. CASE vm' = vm
    BY <2>3 DEF Allowed, OldStep
  <2> QED BY <2>1, <2>2, <2>3, SaveResults
<1> QED BY <1>1, <1>2, <1>3, StraightOrAstray

LEMMA WholeFile ==
  ASSUME NEW f \in Old!SaveFiles
  PROVE  [f EXCEPT !.whole = TRUE] = [def |-> f.def, whole |-> TRUE]
<1> DEFINE g == [f EXCEPT !.whole = TRUE]
<1>1. g \in Old!SaveFiles /\ g.def = f.def /\ g.whole = TRUE
  BY DEF Old!SaveFiles
<1> HIDE DEF g
<1>2. g = [def |-> f.def, whole |-> TRUE]
  BY <1>1 DEF Old!SaveFiles
<1> QED BY <1>2 DEF g

LEMMA SaveGuestOld ==
  ASSUME ConfigInv, SavesRunning, NEW t \in Threads, SaveGuest(t)
  PROVE  Allowed
<1> DEFINE i == Object(t).id
           alive == i # 0 /\ vm.xen[i].state = "running"
           suspended == [vm EXCEPT !.xen[i].state = "suspended"]
           whole == [suspended EXCEPT !.saves[op[t]].whole = TRUE]
<1>1. /\ pc[t] = "saving" /\ pc' = [pc EXCEPT ![t] = "saved"]
      /\ vm' = vm \/ (alive /\ (vm' = suspended \/ vm' = whole))
  BY DEF SaveGuest
<1>2. pc'[t] # pc[t] /\ op[t] \in Saves
  BY <1>1 DEF ConfigInv, ThreadsTyped, JobsOk, ThreadOk, Writes
<1>3. CASE vm' = vm
  BY <1>3 DEF Allowed, OldStep
<1>4. CASE alive /\ (vm' = suspended \/ vm' = whole) /\ Straight(t) /\ vm.saves[op[t]].def = vm.def
  <2>1. /\ vm.listed /\ op[t] \in Old!Paths /\ Old!Active(vm) /\ (op[t] = "managed" => vm.persistent)
        /\ i = vm.id /\ vm.state # "paused"
    BY <1>1, <1>4 DEF Straight, SavesRunning
  <2>2. Old!Exists(vm, vm.id) /\ vm.xen[vm.id].state = "running"
    BY <1>4, <2>1 DEF Old!Exists, Old!Existing
  <2> DEFINE f == vm.saves[op[t]]
             p == op[t]
             file(w) == [vm EXCEPT !.saves[p] = [def |-> vm.def, whole |-> w]]
  <2>3. /\ DOMAIN vm = Fields /\ vm.saves \in [Old!Paths -> Old!SaveFiles \cup {NoDef}]
        /\ p \in Old!Paths
    BY <2>1 DEF ConfigInv, Fine, Typed
  <2>4. f = [def |-> vm.def, whole |-> f.whole] /\ f.whole \in BOOLEAN /\ f \in Old!SaveFiles
    <3>1. f \in Old!SaveFiles
      <4>1. t \notin unlinked /\ f # NoDef
        BY <1>1, <1>4 DEF Straight, ConfigInv, FilesOk, FileOk, Writes
      <4> QED BY <2>3, <4>1 DEF ConfigInv, Fine, Typed
    <3> QED BY <1>4, <3>1 DEF Old!SaveFiles
  <2>5. \E w \in BOOLEAN : vm' = [file(w) EXCEPT !.xen[vm.id].state = "suspended"]
    <3>1. CASE vm' = suspended
      <4>1. [vm.saves EXCEPT ![p] = f] = vm.saves
        BY <2>3
      <4>2. [vm.saves EXCEPT ![p] = [def |-> vm.def, whole |-> f.whole]] = vm.saves
        BY <2>4, <4>1
      <4>3. vm' = [file(f.whole) EXCEPT !.xen[vm.id].state = "suspended"]
        BY <2>1, <2>3, <3>1, <4>2 DEF Fields
      <4> QED BY <2>4, <4>3
    <3>2. CASE vm' = whole
      <4>1. [f EXCEPT !.whole = TRUE] = [def |-> vm.def, whole |-> TRUE]
        BY <1>4, <2>4, WholeFile
      <4>2. vm' = [suspended EXCEPT !.saves[p] = [def |-> vm.def, whole |-> TRUE]]
        BY <2>3, <3>2, <4>1 DEF Fields
      <4>3. vm' = [file(TRUE) EXCEPT !.xen[vm.id].state = "suspended"]
        BY <2>1, <2>3, <4>2 DEF Fields
      <4> QED BY <4>3
    <3> QED BY <1>4, <3>1, <3>2
  <2> QED BY <2>1, <2>2, <2>5, SaveResults
<1> QED BY <1>1, <1>2, <1>3, <1>4, StraightOrAstray, MovesAstray

LEMMA SaveEndOld ==
  ASSUME ConfigInv, NEW t \in Threads, SaveEnd(t)
  PROVE  Allowed
<1> DEFINE s == Object(t)
           reaped == Old!VmReap(s)
           done == saved[t] # 0 /\ Old!Exists(s, s.id)
<1>1. /\ pc[t] = "saved" /\ pc'[t] = "idle"
      /\ \/ ~done /\ Becomes(t, s, FALSE)
         \/ done /\ (on[t] = "removed" \/ s.persistent) /\ Becomes(t, reaped, FALSE)
         \/ done /\ ~s.persistent /\ vm' = Old!RemoveInactive(reaped)
  BY DEF SaveEnd, Returns, Idle, Idles, ConfigInv, ThreadsTyped
<1>2. op[t] \in Saves
  BY <1>1 DEF ConfigInv, JobsOk, ThreadOk, Writes
<1>3. CASE Straight(t)
  <2>1. /\ vm.listed /\ Old!Active(vm) /\ s = vm /\ on[t] = "listed"
    BY <1>3 DEF Straight
  <2>2. CASE ~done
    BY <1>1, <2>1, <2>2 DEF Becomes, Allowed, OldStep
  <2>3. CASE done
    <3>1. Old!VmReap(vm).persistent = vm.persistent
      <4> DEFINE g == [vm EXCEPT !.xen[vm.id].state = "gone"]
      <4>1. DOMAIN g = Fields /\ g.persistent = vm.persistent
        BY DEF ConfigInv, Fine, Typed, Fields
      <4> HIDE DEF g
      <4>2. Old!VmCleanup(g).persistent = g.persistent
        BY <4>1 DEF Old!VmCleanup, Fields
      <4> QED BY <4>1, <4>2 DEF Old!VmReap, g
    <3>2. vm' = Old!RemoveTransient(Old!VmReap(vm))
      BY <1>1, <2>1, <2>3, <3>1 DEF Becomes, Old!RemoveTransient
    <3> DEFINE r == Old!Ok(vm')
    <3>3. r \in Old!DestroyFlags(vm) /\ r.s = vm'
      BY <2>1, <2>3, <3>2 DEF Old!DestroyFlags, Old!Ok
    <3>4. r \in Old!CallOnDomain(vm)
      BY <3>3 DEF Old!CallOnDomain
    <3> HIDE DEF r
    <3> QED BY <2>1, <3>3, <3>4, ResultOld
  <2> QED BY <2>2, <2>3
<1> QED BY <1>1, <1>2, <1>3, StraightOrAstray

\* What the calls that are done within one critical section come to.
LEMMA CallsOld ==
  ASSUME \/ CreateWithFlags \/ DestroyFlags
         \/ CoreDump \/ DomainResume
         \/ DefineXML \/ UndefineFlags \/ ManagedSaveRemove \/ PinVcpu \/ SetAutostart
  PROVE  Allowed
<1>2. CASE CreateWithFlags
  <2>1. PICK p \in BOOLEAN : \E r \in Old!CreateWithFlags(vm, p) : Does(r, vm)
    BY <1>2 DEF CreateWithFlags
  <2>2. PICK r \in Old!CreateWithFlags(vm, p) : vm' = r.s
    BY <2>1 DEF Does
  <2>3. r \in UNION {Old!CreateWithFlags(vm, q) : q \in BOOLEAN}
    BY <2>2
  <2>4. r \in Old!CallOnDomain(vm)
    BY <2>3, SMT DEF Old!CallOnDomain
  <2> QED BY <1>2, <2>2, <2>4, ResultOld DEF CreateWithFlags
<1>3. CASE DestroyFlags
  <2>1. PICK r \in Old!DestroyFlags(vm) : vm.listed /\ vm' = r.s
    BY <1>3 DEF DestroyFlags, Does
  <2>2. r \in Old!CallOnDomain(vm)
    BY <2>1 DEF Old!CallOnDomain
  <2> QED BY <2>1, <2>2, ResultOld
<1>5. CASE CoreDump
  <2>1. PICK l \in BOOLEAN, c \in BOOLEAN :
          vm.listed /\ \E r \in Old!CoreDump(vm, l, c) : Does(r, vm)
    BY <1>5 DEF CoreDump
  <2>2. PICK r \in Old!CoreDump(vm, l, c) : vm' = r.s
    BY <2>1 DEF Does
  <2>3. r \in UNION {Old!CoreDump(vm, x, y) : x \in BOOLEAN, y \in BOOLEAN}
    BY <2>2
  <2>4. r \in Old!CallOnDomain(vm)
    BY <2>3, SMT DEF Old!CallOnDomain
  <2> QED BY <2>1, <2>2, <2>4, ResultOld
<1>6. CASE DomainResume
  <2>1. PICK r \in Old!DomainResume(vm) : vm.listed /\ vm' = r.s
    BY <1>6 DEF DomainResume, Does
  <2>2. r \in Old!CallOnDomain(vm)
    BY <2>1 DEF Old!CallOnDomain
  <2> QED BY <2>1, <2>2, ResultOld
<1>7. CASE DefineXML
  <2>1. PICK d \in Old!XmlDefs : \E r \in Old!DefineXML(vm, d) :
          Does(r, [Old!AssignDef(vm, d, FALSE) EXCEPT !.persistent = TRUE])
    BY <1>7 DEF DefineXML
  <2>2. PICK r \in Old!DefineXML(vm, d) : vm' = r.s
    BY <2>1 DEF Does
  <2>3. r \in Old!CallWithDef(vm)
    BY <2>2 DEF Old!CallWithDef
  <2> QED BY <2>2, <2>3, ResultOld
<1>8. CASE UndefineFlags
  <2>1. PICK m \in BOOLEAN : vm.listed /\ \E r \in Old!UndefineFlags(vm, m) : Does(r, vm)
    BY <1>8 DEF UndefineFlags
  <2>2. PICK r \in Old!UndefineFlags(vm, m) : vm' = r.s
    BY <2>1 DEF Does
  <2>3. r \in UNION {Old!UndefineFlags(vm, n) : n \in BOOLEAN}
    BY <2>2
  <2>4. r \in Old!CallOnDomain(vm)
    BY <2>3, SMT DEF Old!CallOnDomain
  <2> QED BY <2>1, <2>2, <2>4, ResultOld
<1>9. CASE ManagedSaveRemove \/ PinVcpu
  <2>1. PICK r \in Old!ManagedSaveRemove(vm) \cup Old!PinVcpu(vm) : vm.listed /\ vm' = r.s
    BY <1>9 DEF ManagedSaveRemove, PinVcpu, Does
  <2>2. r \in Old!CallOnDomain(vm)
    BY <2>1 DEF Old!CallOnDomain
  <2> QED BY <2>1, <2>2, ResultOld
<1>10. CASE SetAutostart
  <2>1. PICK a \in BOOLEAN : vm.listed /\ \E r \in Old!SetAutostart(vm, a) : Does(r, vm)
    BY <1>10 DEF SetAutostart
  <2>2. PICK r \in Old!SetAutostart(vm, a) : vm' = r.s
    BY <2>1 DEF Does
  <2>3. r \in UNION {Old!SetAutostart(vm, b) : b \in BOOLEAN}
    BY <2>2
  <2>4. r \in Old!CallOnDomain(vm)
    BY <2>3, SMT DEF Old!CallOnDomain
  <2> QED BY <2>1, <2>2, <2>4, ResultOld
<1> QED BY <1>2, <1>3, <1>5, <1>6, <1>7, <1>8, <1>9, <1>10

LEMMA StepOld ==
  ASSUME ConfigInv, SavesRunning, [Next]_vars
  PROVE  Allowed \/ UNCHANGED vm
<1>1. CASE \E t \in Threads : (\E o \in Ops : Call(t, o)) \/ Grant(t)
  BY <1>1 DEF Call, Grant, Granted
<1>2. CASE \E t \in Threads :
             \/ CallWithDef(t) \/ GiveUp(t) \/ SetAmounts(t) \/ ModifyDevice(t)
             \/ CreateXML(t) \/ RestoreFlags(t)
             \/ SaveBegin(t) \/ SaveGuest(t) \/ SaveEnd(t)
  BY <1>2, CallWithDefOld, GiveUpOld, SetAmountsOld, ModifyDeviceOld, StartedOld,
     SaveBeginOld, SaveGuestOld, SaveEndOld
<1>3. CASE \/ CreateWithFlags \/ DestroyFlags
           \/ CoreDump \/ DomainResume
           \/ DefineXML \/ UndefineFlags \/ ManagedSaveRemove \/ PinVcpu \/ SetAutostart
  BY <1>3, CallsOld
<1>4. CASE Event
  <2>1. PICK s \in Old!EventHandler(vm) : Does([ok |-> TRUE, s |-> s], Old!VmReap(vm))
    BY <1>4 DEF Event
  <2>2. vm' = s
    BY <2>1 DEF Does
  <2> QED BY <1>4, <2>2 DEF Event, Allowed, OldStep
<1>5. CASE GuestStops \/ Restart
  BY <1>5 DEF GuestStops, Restart, Allowed, OldStep
<1>6. CASE Reload
  BY <1>6 DEF Reload, Old!Reload, Allowed, OldStep
<1>7. CASE UNCHANGED vars
  BY <1>7 DEF vars
<1> QED BY <1>1, <1>2, <1>3, <1>4, <1>5, <1>6, <1>7 DEF Next

\* The guest of a save that runs is not paused by the driver: libxlDoDomainSave refuses a
\* paused one, and the calls that would pause it wait for the job.
THEOREM SavesKeepRunning == Spec => []SavesRunning
<1>1. Init => SavesRunning
  BY DEF Init, SavesRunning
<1>2. ConfigInv /\ SavesRunning /\ [Next]_vars => SavesRunning'
  BY RunningInv
<1> QED BY <1>1, <1>2, ConfigInvariant, PTL DEF Spec

\* Each step of a thread, of a call in one critical section, of an event and of the daemon
\* leaves what a call, event or restart of the driver with a single lock may leave, but for
\* the threads libxlDomainObjBeginJobInternal let on without a second look (Astray).
THEOREM ConfigImplementsOld == Spec => ImplementsOld
<1>1. ConfigInv /\ SavesRunning /\ [Next]_vars => [Astray \/ OldStep]_vm
  BY StepOld DEF Allowed
<1> QED BY <1>1, ConfigInvariant, SavesKeepRunning, PTL DEF Spec, ImplementsOld
==============================================================================
