----------------------------- MODULE LibxlConfig -----------------------------
(***************************************************************************)
(* The calls that change a domain's definitions, files and disks, in the   *)
(* libxl driver with jobs (libxl_driver.c of the migration series).  What  *)
(* a call does under its job is what the old driver did under the object   *)
(* lock, so its operators are those of module LibxlOldDriver; what is new  *)
(* is that calls wait, that a save gives the locks up while the guest is   *)
(* written, and that some calls take no job at all.                        *)
(***************************************************************************)
EXTENDS Integers, FiniteSets

CONSTANTS
  Threads,  \* the threads that serve the calls that wait
  Sources, NoSource, NoDef, MaxAmount, MaxDomid, MaxCalls  \* LibxlOldDriver's

ASSUME ConfigAssumption ==
  /\ NoSource \notin Sources
  /\ MaxAmount \in Nat \ {0} /\ MaxDomid \in Nat /\ MaxCalls \in Nat

VARIABLES
  vm,       \* the listed object, the files and the Xen domains: LibxlOldDriver's
  calls,    \* calls made so far
  pc,       \* where each thread is
  op,       \* the call it serves
  on,       \* its object: the listed one, or one removed while it waited
  removed,  \* what that one holds in memory
  busy,     \* the jobs on both: <<thread, kind>>
  from,     \* the guest whose definition, up to date, a saving thread's file has, or 0
  saved,    \* the domain a thread's libxl_domain_suspend has written, 0 if it failed
  unlinked  \* the threads whose save file was removed under them

vars == <<vm, calls, pc, op, on, removed, busy, from, saved, unlinked>>
threadVars == <<pc, op, on, removed, busy, from, saved, unlinked>>

Old == INSTANCE LibxlOldDriver

\* A NULL pointer is no save file.
ASSUME NoDefAssumption == NoDef \notin Old!SaveFiles

DomIds == Old!DomIds
Here == {"listed", "removed"}
Saves == {"managed", "user"}
Starts == {"create", "restore"}   \* libxlDomainCreateXML and libxlDomainRestoreFlags
Ops == {"amounts", "devices"} \cup Saves \cup Starts
Memory(s) == [persistent |-> s.persistent, autostart |-> s.autostart, id |-> s.id,
              state |-> s.state, def |-> s.def, newDef |-> s.newDef]

Init ==
  /\ Old!Init
  /\ pc = [t \in Threads |-> "idle"]
  /\ op = [t \in Threads |-> "none"]
  /\ on = [t \in Threads |-> "listed"]
  /\ removed = NoDef
  /\ busy = [o \in Here |-> {}]
  /\ from = [t \in Threads |-> 0]
  /\ saved = [t \in Threads |-> 0]
  /\ unlinked = {}

(***************************************************************************)
(* Jobs, as LibxlJob is shown to implement them.                           *)
(***************************************************************************)
Kinds(o) == {j[2] : j \in busy[o]}
MayModify(o) == busy[o] = {}
MayDestroy(o) == "modify" \notin Kinds(o)   \* the mask lets it run beside an async job

Begins(t, kind) == busy' = [busy EXCEPT ![on[t]] = @ \cup {<<t, kind>>}]
Ends(t) == busy' = [busy EXCEPT ![on[t]] = {j \in @ : j[1] # t}]

(***************************************************************************)
(* Objects.  A call whose object was removed works on what is left of it   *)
(* and on the same files and guests.                                       *)
(***************************************************************************)
Object(t) ==
  IF on[t] = "listed" THEN vm
  ELSE [vm EXCEPT !.listed = TRUE, !.persistent = removed.persistent,
                  !.autostart = removed.autostart, !.id = removed.id, !.state = removed.state,
                  !.def = removed.def, !.newDef = removed.newDef]

\* What a thread made of its object.  One that was removed is gone with its
\* last user.
Becomes(t, s, stays) ==
  IF on[t] = "listed" THEN vm' = s /\ UNCHANGED removed
  ELSE /\ vm' = [s EXCEPT !.listed = vm.listed, !.persistent = vm.persistent,
                          !.autostart = vm.autostart, !.id = vm.id, !.state = vm.state,
                          !.def = vm.def, !.newDef = vm.newDef, !.lost = vm.lost]
       /\ removed' = IF stays \/ \E u \in Threads \ {t} : on[u] = "removed"
                       THEN Memory(s) ELSE NoDef

\* virDomainRemoveInactive of the listed object, that was o, by the threads
\* that return now: those that wait for it go on with what is left.  Bound:
\* one removed object at a time is held.
Forgets(o, by) ==
  LET holders == {u \in Threads \ by : pc[u] # "idle" /\ on[u] = "listed"}
  IN  /\ holders # {} => \A u \in Threads : on[u] = "listed"
      /\ removed' = IF holders = {} THEN removed ELSE Memory(o)
      /\ on' = [u \in Threads |-> IF u \in holders THEN "removed" ELSE IF u \in by THEN "listed" ELSE on[u]]
      /\ busy' = IF holders = {} THEN [busy EXCEPT !["listed"] = {}]
                 ELSE [o2 \in Here |-> IF o2 = "removed" THEN {j \in busy["listed"] : j[1] \in holders} ELSE {}]

(***************************************************************************)
(* Calls that wait.                                                        *)
(***************************************************************************)
Call(t, o) ==
  /\ pc[t] = "idle" /\ calls < MaxCalls
  /\ vm.listed
  /\ o \notin Starts
  /\ o \in Saves => Old!Active(vm)
  /\ o = "managed" => vm.persistent
  /\ calls' = calls + 1
  /\ pc' = [pc EXCEPT ![t] = "waits"]
  /\ op' = [op EXCEPT ![t] = o]
  /\ UNCHANGED <<vm, on, removed, busy, from, saved, unlinked>>

\* libxlDomainCreateXML and libxlDomainRestoreFlags make sure that no domain is on
\* and give the object its definition, and then wait for their job.
CallWithDef(t) ==
  /\ pc[t] = "idle" /\ calls < MaxCalls
  /\ vm.listed => ~Old!Active(vm)
  /\ \/ /\ op' = [op EXCEPT ![t] = "create"]
        /\ \E d \in Old!XmlDefs : vm' = Old!AssignDef(vm, d, FALSE)
     \/ /\ op' = [op EXCEPT ![t] = "restore"]
        /\ Old!Opens(vm.saves["user"])
        /\ vm' = Old!AssignDef(vm, vm.saves["user"].def, TRUE)
  /\ calls' = calls + 1
  /\ pc' = [pc EXCEPT ![t] = "waits"]
  /\ UNCHANGED <<on, removed, busy, from, saved, unlinked>>

\* The threads whose file a step that leaves s removes, or takes for a start.
Robbed(s) ==
  {t \in Threads : /\ pc[t] \in {"saving", "saved"}
                   /\ vm.saves[op[t]] # NoDef /\ s.saves[op[t]] = NoDef}

Idles(t, written) ==
  /\ pc' = [pc EXCEPT ![t] = "idle"]
  /\ op' = [op EXCEPT ![t] = "none"]
  /\ from' = [written EXCEPT ![t] = 0]
  /\ saved' = [saved EXCEPT ![t] = 0]
  /\ unlinked' = (unlinked \cup Robbed(vm')) \ {t}
  /\ UNCHANGED calls
Idle(t) == Idles(t, from)
OnListed(t) == on' = [on EXCEPT ![t] = "listed"]
Returns(t) == Idle(t) /\ OnListed(t)

\* libxlDomainObjBeginJobInternal gives up.
GiveUp(t) ==
  /\ pc[t] = "waits"
  /\ Becomes(t, Object(t), FALSE)
  /\ Returns(t)
  /\ UNCHANGED busy

\* What libxlDomainSetMemoryFlags and libxlDomainSetVcpusFlags may come to.
SetMemory(s) ==
  UNION {Old!SetMemoryFlags(s, a, m, f) : a \in Old!Amounts, m \in BOOLEAN, f \in Old!FlagSets}
SetVcpus(s) ==
  UNION {Old!SetVcpusFlags(s, a, m, f) : a \in Old!Amounts, m \in BOOLEAN, f \in Old!FlagSets}

\* They keep the object lock from the grant of the job to its end.
SetAmounts(t) ==
  /\ pc[t] = "waits" /\ op[t] = "amounts"
  /\ MayModify(on[t])
  /\ \E r \in SetMemory(Object(t)) \cup SetVcpus(Object(t)) : Becomes(t, r.s, FALSE)
  /\ Returns(t)
  /\ UNCHANGED busy

Granted(t) ==
  /\ Begins(t, IF op[t] \in {"devices", "create"} THEN "modify" ELSE "async")
  /\ pc' = [pc EXCEPT ![t] = "works"]
  /\ UNCHANGED <<vm, calls, op, on, removed, from, saved, unlinked>>

\* A bug: a modifying job does not wait for the save that runs.
GrantBesideSave(t) ==
  /\ pc[t] = "waits" /\ op[t] # "amounts"
  /\ IF op[t] \in {"devices", "create"} THEN MayDestroy(on[t]) ELSE MayModify(on[t])
  /\ Granted(t)

\* libxlDomainObjBeginJobWithDriver: the job is granted, and both locks are let
\* go and taken again before the work.
Grant(t) ==
  /\ pc[t] = "waits" /\ op[t] # "amounts"
  /\ MayModify(on[t])
  /\ Granted(t)

Attaches(s) ==
  UNION {Old!ModifyDeviceFlags(s, "attach", dev, f) : dev \in Old!Devices, f \in Old!FlagSets}
Detaches(s) ==
  UNION {Old!ModifyDeviceFlags(s, "detach", dev, f) : dev \in Old!Devices, f \in Old!FlagSets}
Updates(s) ==
  UNION {Old!ModifyDeviceFlags(s, "update", dev, f) : dev \in Old!Devices, f \in Old!FlagSets}

\* What libxlDomainAttachDeviceLive, ...Config and their like may come to.
DeviceCalls(s) == Attaches(s) \cup Detaches(s) \cup Updates(s)

\* libxlDomainModifyDeviceFlags.
ModifyDevice(t) ==
  /\ pc[t] = "works" /\ op[t] = "devices"
  /\ \E r \in DeviceCalls(Object(t)) : Becomes(t, r.s, FALSE)
  /\ Ends(t)
  /\ Returns(t)

\* libxlVmStart came to r, and EndJob.  Whether the domain is on is not looked at
\* again, so the listed object may lose a guest that another thread has started,
\* and a guest may be started for an object that is off the list.
Started(t, r, removes) ==
  LET s == Old!Orphaned(r.s)
  IN  \/ /\ on[t] = "removed"
         /\ Becomes(t, s, FALSE)
         /\ Ends(t)
         /\ Returns(t)
      \/ /\ on[t] = "listed" /\ ~removes
         /\ vm' = r.s
         /\ UNCHANGED removed
         /\ Ends(t)
         /\ Returns(t)
      \/ /\ on[t] = "listed" /\ removes
         /\ vm' = Old!RemoveInactive(s)
         /\ Forgets(s, {t})
         /\ Idle(t)

\* libxlDomainCreateXML and libxlDomainRestoreFlags with the job.
CreateXML(t) ==
  /\ pc[t] = "works" /\ op[t] = "create"
  /\ \E paused \in BOOLEAN : \E r \in Old!VmStart(Object(t), paused) : Started(t, r, ~r.ok)
RestoreFlags(t) ==
  /\ pc[t] = "works" /\ op[t] = "restore"
  /\ \E r \in Old!StartDomain(Object(t), FALSE, vm.saves["user"].whole) :
       Started(t, r, ~r.ok /\ ~vm.persistent)

\* A save file is written over what a thread that serves the removed object, or the
\* listed one, had written to it.
Overwrites(t) == [u \in Threads |-> IF op[u] = op[t] THEN 0 ELSE from[u]]

\* libxlDoDomainSave up to the long call of libxl.
SaveBegin(t) ==
  /\ pc[t] = "works" /\ op[t] \in Saves
  /\ LET s == Object(t)
         file(d) == [s EXCEPT !.saves[op[t]] = [def |-> d, whole |-> FALSE]]
     IN  \/ /\ s.state # "paused" /\ s.def # NoDef
            /\ Becomes(t, file(s.def), TRUE)
            /\ pc' = [pc EXCEPT ![t] = "saving"]
            /\ from' = [Overwrites(t) EXCEPT ![t] = IF s.lost THEN 0 ELSE s.id]
            /\ UNCHANGED <<calls, op, on, busy, saved, unlinked>>
         \/ /\ \/ Becomes(t, s, FALSE) /\ Idle(t)
               \/ s.state # "paused" /\ Becomes(t, file(NoDef), FALSE) /\ Idles(t, Overwrites(t))
            /\ Ends(t)
            /\ OnListed(t)

\* libxl_domain_suspend, with neither lock held.  What is written to a file
\* that was removed is lost.
SaveGuest(t) ==
  /\ pc[t] = "saving"
  /\ LET i == Object(t).id
         alive == i # 0 /\ vm.xen[i].state = "running"
         suspended == [vm EXCEPT !.xen[i].state = "suspended"]
     IN  \/ /\ alive
            /\ vm' = IF t \in unlinked THEN suspended ELSE [suspended EXCEPT !.saves[op[t]].whole = TRUE]
            /\ saved' = [saved EXCEPT ![t] = i]
         \/ /\ vm' \in {vm} \cup IF alive THEN {suspended} ELSE {}
            /\ UNCHANGED saved
  /\ pc' = [pc EXCEPT ![t] = "saved"]
  /\ UNCHANGED <<calls, op, on, removed, busy, from, unlinked>>

\* A bug: the domain is cleaned up, its suspended guest is not destroyed.
SaveEndLeavesGuest(t) ==
  /\ pc[t] = "saved"
  /\ LET s == Object(t)
         done == saved[t] # 0 /\ Old!Exists(s, s.id)
     IN  \/ /\ ~done \/ on[t] = "removed" \/ s.persistent
            /\ Becomes(t, IF done THEN Old!VmCleanup(s) ELSE s, FALSE)
            /\ Ends(t)
            /\ Returns(t)
         \/ /\ done /\ on[t] = "listed" /\ ~s.persistent
            /\ vm' = Old!RemoveInactive(Old!VmCleanup(s))
            /\ Forgets(s, {t})
            /\ Idle(t)

\* The rest of libxlDoDomainSave: the guest is reaped, a transient object
\* removed.
SaveEnd(t) ==
  /\ pc[t] = "saved"
  /\ LET s == Object(t)
         reaped == Old!VmReap(s)
         done == saved[t] # 0 /\ Old!Exists(s, s.id)
     IN  \/ /\ ~done \/ on[t] = "removed" \/ s.persistent
            /\ Becomes(t, IF done THEN reaped ELSE s, FALSE)
            /\ Ends(t)
            /\ Returns(t)
         \/ /\ done /\ on[t] = "listed" /\ ~s.persistent
            /\ vm' = Old!RemoveInactive(reaped)
            /\ Forgets(reaped, {t})
            /\ Idle(t)

(***************************************************************************)
(* Calls that are done within one critical section.                        *)
(***************************************************************************)
\* The listed object becomes r.s; it may be removed, and was o then.
Does(r, o) ==
  /\ vm' = r.s
  /\ unlinked' = unlinked \cup Robbed(r.s)
  /\ IF vm.listed /\ ~r.s.listed THEN Forgets(o, {})
     ELSE UNCHANGED <<on, removed, busy>>
  /\ UNCHANGED <<pc, op, from, saved>>

Short == calls < MaxCalls /\ calls' = calls + 1

\* libxlDomainCreateWithFlags waits for its job and looks then.
CreateWithFlags ==
  /\ Short
  /\ vm.listed /\ MayModify("listed")
  /\ \E p \in BOOLEAN : \E r \in Old!CreateWithFlags(vm, p) : Does(r, vm)

\* libxlDomainDestroyFlags: its job may run beside a save or a restore.
DestroyFlags ==
  /\ Short
  /\ vm.listed /\ MayDestroy("listed")
  /\ \E r \in Old!DestroyFlags(vm) : Does(r, Old!VmReap(vm))

CoreDump ==
  /\ Short
  /\ vm.listed /\ MayModify("listed")
  /\ \E l, c \in BOOLEAN :
       /\ c => vm.persistent
       /\ \E r \in Old!CoreDump(vm, l, c) : Does(r, vm)

DomainResume ==
  /\ Short
  /\ vm.listed /\ MayModify("listed")
  /\ \E r \in Old!DomainResume(vm) : Does(r, vm)

\* The calls that take no job, whatever runs.
DefineXML ==
  /\ Short
  /\ \E d \in Old!XmlDefs :
       \E r \in Old!DefineXML(vm, d) : Does(r, [Old!AssignDef(vm, d, FALSE) EXCEPT !.persistent = TRUE])
UndefineFlags ==
  /\ Short
  /\ vm.listed
  /\ \E m \in BOOLEAN : \E r \in Old!UndefineFlags(vm, m) : Does(r, vm)
ManagedSaveRemove ==
  /\ Short
  /\ vm.listed
  /\ \E r \in Old!ManagedSaveRemove(vm) : Does(r, vm)
PinVcpu ==
  /\ Short
  /\ vm.listed
  /\ \E r \in Old!PinVcpu(vm) : Does(r, vm)
SetAutostart ==
  /\ Short
  /\ vm.listed
  /\ \E a \in BOOLEAN : \E r \in Old!SetAutostart(vm, a) : Does(r, vm)

(***************************************************************************)
(* The guest and the daemon.                                               *)
(***************************************************************************)
\* libxlEventHandler.  It takes no job.
Event ==
  /\ vm.listed /\ Old!Exists(vm, vm.id)
  /\ \E s \in Old!EventHandler(vm) : Does([ok |-> TRUE, s |-> s], Old!VmReap(vm))
  /\ UNCHANGED calls

GuestStops ==
  /\ Old!GuestStops
  /\ UNCHANGED threadVars

\* libxlReload.  It takes no job.
Reload ==
  /\ vm' \in Old!Autostart(vm)
  /\ unlinked' = unlinked \cup Robbed(vm')
  /\ UNCHANGED <<calls, pc, op, on, removed, busy, from, saved>>

\* The daemon dies, with its threads, and starts again.
Restart ==
  /\ Old!Restart \/ Old!DieInStart
  /\ pc' = [t \in Threads |-> "idle"]
  /\ op' = [t \in Threads |-> "none"]
  /\ on' = [t \in Threads |-> "listed"]
  /\ removed' = NoDef
  /\ busy' = [o \in Here |-> {}]
  /\ from' = [t \in Threads |-> 0]
  /\ saved' = [t \in Threads |-> 0]
  /\ unlinked' = {}

Next ==
  \/ \E t \in Threads :
       \/ \E o \in Ops : Call(t, o)
       \/ CallWithDef(t)
       \/ GiveUp(t) \/ Grant(t)
       \/ SetAmounts(t) \/ ModifyDevice(t)
       \/ CreateXML(t) \/ RestoreFlags(t)
       \/ SaveBegin(t) \/ SaveGuest(t) \/ SaveEnd(t)
  \/ CreateWithFlags \/ DestroyFlags \/ CoreDump \/ DomainResume
  \/ DefineXML \/ UndefineFlags \/ ManagedSaveRemove \/ PinVcpu \/ SetAutostart
  \/ Event \/ GuestStops \/ Reload \/ Restart

Spec == Init /\ [][Next]_vars

(***************************************************************************)
(* Properties.                                                             *)
(***************************************************************************)
\* libxlDoDomainSave writes the definition, gives the locks up and suspends the
\* guest: the file has the disks the guest had when it was suspended, whatever
\* was called meanwhile, if it still is the same guest and the same file, and no
\* restart before had lost what the guest's disks are.
ImageIsGuest ==
  \A t \in Threads :
    pc[t] = "saved" /\ saved[t] # 0 /\ saved[t] = from[t] /\ t \notin unlinked /\ from[t] \notin vm.orphans =>
      Old!HasDisksOf(vm, vm.saves[op[t]].def, saved[t])

\* A thread acts on a domain that is not what the thread takes it for: its object left
\* the list, its file is gone or is another's, or the domain, when the thread got the
\* job, was not any more what it was checked to be before the wait (for a save, to be on
\* and, if the file is the managed one, persistent; for a start, to be off and, if it is
\* a restore, to have the definition in the file).
Astray ==
  \E t \in Threads :
    /\ pc'[t] # pc[t]
    /\ \/ on[t] = "removed" \/ t \in unlinked
       \/ pc[t] = "saving" /\ vm.saves[op[t]].def # vm.def
       \/ op[t] \in Saves /\ (~Old!Active(vm) \/ (op[t] = "managed" /\ ~vm.persistent))
       \/ /\ pc[t] = "works" /\ op[t] \in Starts
          /\ \/ Old!Active(vm)
             \/ op[t] = "restore" /\ (vm.saves["user"] = NoDef \/ vm.saves["user"].def # vm.def)

\* What was one step of the old driver is two, the assignment and the start.
Assigns ==
  /\ vm.listed => ~Old!Active(vm)
  /\ \/ \E d \in Old!XmlDefs : vm' = Old!AssignDef(vm, d, FALSE)
     \/ Old!Opens(vm.saves["user"]) /\ vm' = Old!AssignDef(vm, vm.saves["user"].def, TRUE)
StartsAssigned ==
  /\ vm.listed /\ ~Old!Active(vm)
  /\ \/ \E paused \in BOOLEAN : \E r \in Old!XmlStart(vm, paused) : vm' = r.s
     \/ /\ vm.saves["user"] # NoDef /\ vm.saves["user"].def = vm.def
        /\ \E r \in Old!RestoreStart(vm) : vm' = r.s

\* A step of the old driver: an event, the end of a guest, a reload, a restart, a
\* call, or one of the two parts of a call that brings a definition.
OldStep ==
  \/ vm' = vm
  \/ vm.listed /\ Old!Exists(vm, vm.id) /\ vm' \in Old!EventHandler(vm)
  \/ Old!GuestStops \/ Old!Reload \/ Old!Restart \/ Old!DieInStart
  \/ \E r \in Old!CallResults(vm) : vm' = r.s
  \/ Assigns \/ StartsAssigned

\* Calls that wait and saves that let others in do nothing the driver with one
\* lock could not do: each step leaves the domain, its files and its guests as
\* some call of module LibxlOldDriver, its events or its restart would, but for the
\* threads that are astray, which the driver lets on without a second look.
ImplementsOld == [][Astray \/ OldStep]_vm

\* The old driver's promise with calls that wait: whatever threads, saves and
\* restarts overlap, the live definition has the disks of the guest (see
\* LibxlOldDriver).
LiveDefIsGuest == Old!LiveDefIsGuest
=============================================================================
