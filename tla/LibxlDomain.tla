----------------------------- MODULE LibxlDomain -----------------------------
(***************************************************************************)
(* The life of one domain object of the libxl driver (libxl_driver.c) and  *)
(* of the Xen domains started for it: what the API calls, the death-event  *)
(* handler of the event loop and the daemon's restart do to the object,    *)
(* its event handles, its managed save file and the hypervisor.            *)
(*                                                                         *)
(* A step is the code from taking the object lock to giving it back; the   *)
(* calls wait for and hold jobs, which are the slots of module JobSlots    *)
(* that module LibxlJob is shown to implement.                             *)
(***************************************************************************)
EXTENDS Integers, FiniteSets

CONSTANTS
  Threads,        \* the threads that serve API calls
  Ops,            \* the calls they make
  StartFailures,  \* the places where libxlVmStart may fail
  MaxDomid,       \* bound: Xen domains ever created; then creation fails
  MaxCalls,       \* bound: API calls made
  MaxRestarts     \* bound: restarts of the daemon

AllOps == {"create", "resume", "shutdown", "destroy", "save", "managedSave",
           "define", "undefine", "suspend"}

ASSUME DomainAssumption ==
  /\ IsFiniteSet(Threads)
  /\ Ops \subseteq AllOps
  /\ StartFailures \subseteq {"create", "late", "events", "after"}
  /\ MaxDomid \in Nat \ {0} /\ MaxCalls \in Nat /\ MaxRestarts \in Nat

VARIABLES
  vm,      \* the object, its handles, its file and its Xen domains: a record of Domains
  normal,  \* <<thread, kind>> of the normal jobs on the object
  async,   \* <<thread, kind>> of the asynchronous jobs
  mask,    \* the normal jobs the asynchronous one lets start
  pc,      \* where each thread is
  op,      \* the call it serves
  saved,   \* the domid libxl_domain_suspend saved for it, 0 if it failed
  calls, restarts

\* Auxiliary: what virDomainSuspend has taken from others since the daemon started.
VARIABLES
  dropped, \* the references it has dropped that nobody had taken for it
  robbed   \* it has ended the normal job of another call

vars == <<vm, normal, async, mask, pc, op, saved, calls, restarts, dropped, robbed>>
jobs == <<normal, async, mask>>
aux == <<dropped, robbed>>

DomIds == 1 .. MaxDomid
Dead == {"poweroff", "reboot", "suspended"}  \* "poweroff" for a crash too
Existing == {"running", "paused"} \cup Dead

Domains ==
  [listed : BOOLEAN,            \* the driver's domain list holds the object
   refs : Int,                  \* references on it
   persistent : BOOLEAN,        \* vm->persistent
   config : BOOLEAN,            \* its definition is in configDir
   id : 0 .. MaxDomid,          \* vm->def->id, 0 for -1
   state : {"running", "paused", "shutoff"},
   eventHdl : 0 .. MaxDomid,    \* priv->eventHdl, 0 for -1
   waiter : BOOLEAN,            \* priv->dWaiter is allocated
   handles : SUBSET DomIds,     \* handles in the event loop, by the domain they were added for
   removed : Nat,               \* handles removed whose free callback is to run
   watching : BOOLEAN,          \* priv->ctx has its xenstore watch
   readable : BOOLEAN,          \* an event of that watch is unread
   file : {"none", "partial", "image"},  \* the managed save file
   xen : [DomIds -> Existing \cup {"unused", "gone"}],
   \* Auxiliary: which failures have left what the properties except.
   offList : BOOLEAN,           \* a define or undefine took the object off the list
   forgotten : SUBSET DomIds,   \* domains the driver let go of while they existed
   unwatched : SUBSET DomIds]   \* domains it knows and gets no event of

(***************************************************************************)
(* Operators on the record: the functions that run with the object locked. *)
(***************************************************************************)
Active(d) == d.id # 0
Exists(d, i) == i \in DomIds /\ d.xen[i] \in Existing
Unused(d) == {i \in DomIds : d.xen[i] = "unused"}

Ref(d) == [d EXCEPT !.refs = @ + 1]
Unref(d) == [d EXCEPT !.refs = @ - 1]

\* Xen gives no second domain the name of one that exists.
NameTaken(d) == \E i \in DomIds : Exists(d, i)

\* virDomainRemoveInactive: off the list, with the list's reference.
RemoveInactive(d) == IF d.listed THEN [Unref(d) EXCEPT !.listed = FALSE] ELSE d

\* "if (EndJob > 0) virDomainRemoveInactive": the job's reference, then the list's.
EndAndRemove(d) == IF d.refs > 1 THEN RemoveInactive(Unref(d)) ELSE Unref(d)

\* A bug: the handle's free callback, which drops its reference, is lost.
RemoveHandleNoFree(d, h) == [d EXCEPT !.handles = @ \ {h}]

\* virEventRemoveHandle: the free callback runs later, from the event loop.
RemoveHandle(d, h) ==
  IF h \in d.handles THEN [d EXCEPT !.handles = @ \ {h}, !.removed = @ + 1] ELSE d

\* libxlVmCleanup.  A transient object keeps the domid it had.
Cleanup(d) ==
  [RemoveHandle(d, d.eventHdl) EXCEPT
     !.eventHdl = 0,
     !.waiter = FALSE,
     !.watching = IF d.waiter THEN FALSE ELSE @,
     !.id = IF d.persistent THEN 0 ELSE @,
     !.state = IF d.persistent THEN "shutoff" ELSE @]

\* libxlVmReap: libxl_domain_destroy refuses a domain that does not exist, and
\* may fail on one that does, which leaves all as it was.
CanReap(d) == Exists(d, d.id)
Reap(d) == Cleanup([d EXCEPT !.xen[d.id] = "gone"])

Forget(d) == [d EXCEPT !.forgotten = @ \cup {d.id}, !.unwatched = @ \ {d.id}]
Unwatch(d) == [d EXCEPT !.unwatched = @ \cup {d.id}, !.forgotten = @ \ {d.id}]

\* libxlCreateDomEvents for domain n: a reference for the new handle.
CreateDomEvents(d, n) ==
  [Ref(d) EXCEPT !.eventHdl = n, !.handles = @ \cup {n}, !.waiter = TRUE,
                 !.watching = TRUE, !.readable = TRUE,
                 !.unwatched = @ \ {n}, !.forgotten = @ \ {n}]

\* ... fails: the watch, if it was registered, stays.
DomEventsFail(d) ==
  {[d EXCEPT !.eventHdl = 0, !.waiter = FALSE, !.watching = w, !.readable = @ \/ w] :
     w \in {TRUE, d.watching}}

\* The error path of libxlVmStart once domain n was made.
StartError(d, n) == [d EXCEPT !.xen[n] = "gone", !.id = 0, !.state = "shutoff"]

\* What libxlVmStart may leave behind: the new domain n, and d as it was just
\* before it.  A domain restored from a partial image is never made whole, and
\* a second xenstore watch for the same context is refused.
StartResults(d, n) ==
  LET made == [d EXCEPT !.id = n, !.xen[n] = "paused"]
      fails(place) == place \in StartFailures
  IN  (IF d.file = "partial" \/ fails("late") THEN {StartError(d, n)} ELSE {})
      \cup (IF d.file # "partial" /\ (d.watching \/ fails("events"))
              THEN {StartError(e, n) : e \in DomEventsFail(d)} ELSE {})
      \cup (IF d.file # "partial" /\ ~d.watching /\ fails("after")
              THEN {StartError(CreateDomEvents(d, n), n)} ELSE {})
      \cup (IF d.file # "partial" /\ ~d.watching
              THEN {[CreateDomEvents(made, n) EXCEPT !.xen[n] = s, !.state = s] :
                      s \in {"running", "paused"}}
              ELSE {})

\* libxlSaveImageOpen: without its whole header and definition a file is refused.
MayNotOpen(d) == d.file = "partial"

\* libxlVmStart: a managed save file is opened, unlinked and then restored; one
\* whose header was never written cannot be opened.
VmStart(d) ==
  LET open == [d EXCEPT !.file = "none"]
  IN  (IF MayNotOpen(d) THEN {d} ELSE {})
      \cup (IF "create" \in StartFailures \/ d.file = "partial" \/ Unused(d) = {} \/ NameTaken(d)
              THEN {open} ELSE {})
      \cup {[s EXCEPT !.file = "none"] :
              s \in UNION {StartResults(d, n) :
                             n \in {i \in Unused(d) : ~NameTaken(d) /\ \A j \in Unused(d) : i <= j}}}

(***************************************************************************)
(* The jobs, as the slots LibxlJob implements.                             *)
(***************************************************************************)
Kinds == {"destroy", "modify", "abort", "migration op"}
AsyncKinds == {"save"}

\* A bug: an asynchronous job lets MODIFY jobs run beside it.
DefaultMaskModify == {"destroy", "abort", "modify"}

DefaultMask == {"destroy", "abort"}

Slots == INSTANCE JobSlots

\* libxlDomainObjEndJob: whoever has the slot, it is free then.
EndJob ==
  /\ normal' = {}
  /\ UNCHANGED <<async, mask>>

Saves == {"save", "managedSave"}
JobOf(o) == IF o = "destroy" THEN "destroy" ELSE "modify"

Init ==
  /\ \E here \in BOOLEAN :  \* a persistent domain that is off, or one that runs
       vm = [listed |-> TRUE, refs |-> IF here THEN 2 ELSE 1,
             persistent |-> ~here, config |-> ~here,
             id |-> IF here THEN 1 ELSE 0, state |-> IF here THEN "running" ELSE "shutoff",
             eventHdl |-> IF here THEN 1 ELSE 0, waiter |-> here,
             handles |-> IF here THEN {1} ELSE {}, removed |-> 0, watching |-> here,
             readable |-> FALSE, file |-> "none",
             xen |-> [i \in DomIds |-> IF here /\ i = 1 THEN "running" ELSE "unused"],
             offList |-> FALSE, forgotten |-> {}, unwatched |-> {}]
  /\ Slots!Init
  /\ pc = [t \in Threads |-> "idle"]
  /\ op = [t \in Threads |-> "none"]
  /\ saved = [t \in Threads |-> 0]
  /\ calls = 0
  /\ restarts = 0
  /\ dropped = 0
  /\ robbed = FALSE

Return(t) ==
  /\ pc' = [pc EXCEPT ![t] = "idle"]
  /\ op' = [op EXCEPT ![t] = "none"]
  /\ saved' = [saved EXCEPT ![t] = 0]
  /\ UNCHANGED <<calls, restarts, aux>>

(***************************************************************************)
(* API calls.  A call looks the object up, waits for its job, and works.   *)
(***************************************************************************)
\* The lookup, the checks before the job, and the entry of BeginJobInternal.
\* Saving checks that the domain runs before it waits for its job, not after.
Call(t, o) ==
  /\ pc[t] = "idle"
  /\ calls < MaxCalls
  /\ vm.listed
  /\ o \in Saves => Active(vm)
  /\ o = "managedSave" => vm.persistent
  /\ vm' = Ref(vm)
  /\ pc' = [pc EXCEPT ![t] = "wait"]
  /\ op' = [op EXCEPT ![t] = o]
  /\ calls' = calls + 1
  /\ UNCHANGED <<jobs, saved, restarts, aux>>

\* BeginJobInternal gives up: its reference is dropped.
GiveUp(t) ==
  /\ pc[t] = "wait"
  /\ vm' = Unref(vm)
  /\ Return(t)
  /\ UNCHANGED jobs

\* The job is granted; both locks are let go and taken again in order, so
\* others run before the work does.
Grant(t) ==
  /\ pc[t] = "wait"
  /\ op[t] # "resume"
  /\ IF op[t] \in Saves THEN Slots!StartAsync(t, "save")
                        ELSE Slots!StartNormal(t, JobOf(op[t]))
  /\ pc' = [pc EXCEPT ![t] = "granted"]
  /\ UNCHANGED <<vm, op, saved, calls, restarts, aux>>

\* libxlDomainResume holds the object lock from the grant to the end of its
\* job, so the job is never seen.
Resume(t) ==
  /\ pc[t] = "wait"
  /\ op[t] = "resume"
  /\ normal = {}
  /\ async = {} \/ "modify" \in mask
  /\ vm' = Unref(IF Active(vm) /\ vm.state = "paused" /\ Exists(vm, vm.id)
                   THEN [vm EXCEPT !.state = "running",
                                   !.xen[vm.id] = IF @ = "paused" THEN "running" ELSE @]
                   ELSE vm)
  /\ Return(t)
  /\ UNCHANGED jobs

\* A bug: what was true before the wait is taken to be true after it.
CreateUnchecked(t) ==
  /\ pc[t] = "granted"
  /\ op[t] = "create"
  /\ \E d \in VmStart(vm) : vm' = Unref(d)
  /\ EndJob
  /\ Return(t)

\* libxlDomainCreateWithFlags.
Create(t) ==
  /\ pc[t] = "granted"
  /\ op[t] = "create"
  /\ \E d \in IF Active(vm) THEN {vm} ELSE VmStart(vm) : vm' = Unref(d)
  /\ EndJob
  /\ Return(t)

\* libxlDomainShutdownFlags, libxlDomainReboot: the guest is asked to stop.
Shutdown(t) ==
  /\ pc[t] = "granted"
  /\ op[t] = "shutdown"
  /\ vm' = Unref(vm)
  /\ EndJob
  /\ Return(t)

\* libxlDomainDestroyFlags.
Destroy(t) ==
  /\ pc[t] = "granted"
  /\ op[t] = "destroy"
  /\ \/ vm' = Unref(vm)
     \/ /\ Active(vm) /\ CanReap(vm)
        /\ vm' = IF vm.persistent THEN Unref(Reap(vm)) ELSE EndAndRemove(Reap(vm))
  /\ EndJob
  /\ Return(t)

\* libxlDoDomainSave up to its long libxl call: a paused domain is refused, the
\* file is created over what was there, and the header may fail to be written.
SaveBegin(t) ==
  /\ pc[t] = "granted"
  /\ op[t] \in Saves
  /\ vm.state # "paused"
  /\ vm' = IF op[t] = "managedSave" THEN [vm EXCEPT !.file = "partial"] ELSE vm
  /\ pc' = [pc EXCEPT ![t] = "saving"]
  /\ UNCHANGED <<jobs, op, saved, calls, restarts, aux>>

SaveRefused(t) ==
  /\ pc[t] = "granted"
  /\ op[t] \in Saves
  /\ \/ vm' = Unref(vm)
     \/ /\ vm.state # "paused"
        /\ op[t] = "managedSave"
        /\ vm' = Unref([vm EXCEPT !.file = "partial"])
  /\ Slots!EndAsync
  /\ Return(t)

\* libxl_domain_suspend, with neither lock held: the guest is suspended and its
\* image written, or the call fails before or after the guest was suspended.
SaveGuest(t) ==
  /\ pc[t] = "saving"
  /\ LET suspended == [vm EXCEPT !.xen[vm.id] = "suspended", !.readable = @ \/ vm.watching]
         alive == Active(vm) /\ vm.xen[vm.id] = "running"
     IN  \/ /\ alive
            /\ vm' = IF op[t] = "managedSave" THEN [suspended EXCEPT !.file = "image"] ELSE suspended
            /\ saved' = [saved EXCEPT ![t] = vm.id]
         \/ /\ vm' \in {vm} \cup IF alive THEN {suspended} ELSE {}
            /\ UNCHANGED saved
  /\ pc' = [pc EXCEPT ![t] = "saved"]
  /\ UNCHANGED <<jobs, op, calls, restarts, aux>>

\* The rest of libxlDoDomainSave: the saved domain is reaped.
SaveEnd(t) ==
  /\ pc[t] = "saved"
  /\ \/ vm' = Unref(vm)
     \/ /\ saved[t] # 0 /\ CanReap(vm)
        /\ vm' = IF vm.persistent THEN Unref(Reap(vm)) ELSE EndAndRemove(Reap(vm))
  /\ Slots!EndAsync
  /\ Return(t)

\* libxlDomainDefineXML on a domain the list holds: if its file cannot be written
\* the object is taken off the list, whether or not its domain runs.
Define ==
  /\ "define" \in Ops
  /\ calls < MaxCalls
  /\ vm.listed
  /\ \/ vm' = [vm EXCEPT !.persistent = TRUE, !.config = TRUE]
     \/ vm' = [RemoveInactive(vm) EXCEPT !.persistent = TRUE, !.offList = TRUE]
  /\ calls' = calls + 1
  /\ UNCHANGED <<jobs, pc, op, saved, restarts, aux>>

\* libxlDomainUndefineFlags, which takes no job.  It refuses while a managed
\* save file exists, unless its flag says to remove that.
Undefine ==
  /\ "undefine" \in Ops
  /\ calls < MaxCalls
  /\ vm.listed
  /\ vm.persistent
  /\ LET d == [vm EXCEPT !.config = FALSE, !.file = "none"]
     IN  vm' = IF Active(vm) THEN [d EXCEPT !.persistent = FALSE]
                             ELSE [RemoveInactive(d) EXCEPT !.offList = TRUE]
  /\ calls' = calls + 1
  /\ UNCHANGED <<jobs, pc, op, saved, restarts, aux>>

\* libxlDomainSuspend: its libxlDomainObjBeginJob is commented out, its
\* libxlDomainObjEndJob is not: a reference nobody took is dropped, and the normal
\* job, whose ever it is, is ended.
Suspend ==
  /\ "suspend" \in Ops
  /\ calls < MaxCalls
  /\ vm.listed
  /\ Active(vm)
  /\ \/ vm' = Unref(vm)
     \/ /\ vm.state # "paused" /\ Exists(vm, vm.id)
        /\ vm' = Unref([vm EXCEPT !.state = "paused",
                                  !.xen[vm.id] = IF @ = "running" THEN "paused" ELSE @])
  /\ EndJob
  /\ dropped' = dropped + 1
  /\ robbed' = (robbed \/ normal # {})
  /\ calls' = calls + 1
  /\ UNCHANGED <<pc, op, saved, restarts>>

(***************************************************************************)
(* The event loop, the guest, the daemon.                                  *)
(***************************************************************************)
\* The domain is reaped, and a transient object goes off the list; how the
\* reaping went is not asked.
AfterDeath(d) ==
  {IF d.persistent THEN Reap(d) ELSE RemoveInactive(Reap(d)),
   IF d.persistent THEN Unwatch(d) ELSE Forget(RemoveInactive(d))}

\* Nor is it before the domain is started again.
AfterReboot(d) == VmStart(Reap(d)) \cup VmStart(Unwatch(d))

\* A bug: the handle is removed before it is known that the guest died.
OnDeathEventHasty(h) ==
  LET off == [RemoveHandle(vm, h) EXCEPT !.eventHdl = 0, !.readable = FALSE]
      why == IF Active(vm) THEN vm.xen[vm.id] ELSE "none"
  IN  IF why \notin Dead THEN {off}
      ELSE IF why = "poweroff" THEN AfterDeath(off)
      ELSE IF why = "reboot" THEN AfterReboot(off)
      ELSE {off}

\* libxlEventHandler once it has read its event: what the guest's state makes
\* of the object.  Only a dead guest costs the handle its place in the loop.
OnDeathEvent(h) ==
  LET read == [vm EXCEPT !.readable = FALSE]
      off  == [RemoveHandle(read, h) EXCEPT !.eventHdl = 0]
      why  == IF Active(vm) THEN vm.xen[vm.id] ELSE "none"
  IN  IF why \notin Dead THEN {read}
      ELSE IF why = "poweroff" THEN AfterDeath(off)
      ELSE IF why = "reboot" THEN AfterReboot(off)
      ELSE {off}

\* The loop calls the handlers of one descriptor in the order they were added.
EventHandler ==
  \E h \in vm.handles :
    /\ \A g \in vm.handles : h <= g
    /\ vm.readable
    /\ IF vm.eventHdl # h
         THEN vm' = [RemoveHandle(vm, h) EXCEPT !.eventHdl = 0]
         ELSE vm' \in OnDeathEvent(h)
    /\ UNCHANGED <<jobs, pc, op, saved, calls, restarts, aux>>

\* The free callback of a removed handle, libxlDomainObjUnref.
FreeHandle ==
  /\ vm.removed > 0
  /\ vm' = [Unref(vm) EXCEPT !.removed = @ - 1]
  /\ UNCHANGED <<jobs, pc, op, saved, calls, restarts, aux>>

\* A running guest stops, and xenstore tells who watches "@releaseDomain".
GuestStops ==
  /\ \E i \in DomIds, why \in {"poweroff", "reboot"} :
       /\ vm.xen[i] = "running"
       /\ vm' = [vm EXCEPT !.xen[i] = why, !.readable = @ \/ vm.watching]
  /\ UNCHANGED <<jobs, pc, op, saved, calls, restarts, aux>>

\* Some other domain of the host was released.
OtherRelease ==
  /\ vm.watching /\ ~vm.readable
  /\ vm' = [vm EXCEPT !.readable = TRUE]
  /\ UNCHANGED <<jobs, pc, op, saved, calls, restarts, aux>>

\* The object as its files make it, with no domain.
Loaded(d) == [d EXCEPT !.listed = d.config, !.refs = IF d.config THEN 1 ELSE 0,
                       !.id = 0, !.state = "shutoff"]

TakenOver(d) == [d EXCEPT !.listed = TRUE, !.refs = 1, !.state = "running"]

\* A bug: the domain is taken over without its events.
ReconnectNoEvents(d) ==
  IF Exists(d, d.id) THEN {TakenOver(d), Loaded(Forget(d))} ELSE {Loaded(d)}

\* libxlReconnectDomain: the domain of the status file, which libxlVmStart
\* wrote and libxlVmCleanup removed, is taken over if it still exists, and is
\* then "running" whatever it does.  That its events cannot be registered is
\* ignored; if Xen does not answer, or has lost the domain's userdata, it is
\* taken for gone.
Reconnect(d) ==
  IF Exists(d, d.id)
    THEN {CreateDomEvents(TakenOver(d), d.id), Loaded(Forget(d))}
         \cup {Unwatch(e) : e \in DomEventsFail(TakenOver(d))}
    ELSE {Loaded(d)}

\* libxlAutostartDomain, which libxlStartup calls for every domain: one that is
\* marked so and is off is started.
Autostart(d) == {d} \cup IF d.listed /\ ~Active(d) THEN VmStart(d) ELSE {}

\* The daemon dies and starts again: what was in its memory is gone.
Restart ==
  /\ restarts < MaxRestarts
  /\ restarts' = restarts + 1
  /\ LET read == [vm EXCEPT !.persistent = vm.config, !.eventHdl = 0, !.waiter = FALSE,
                            !.handles = {}, !.removed = 0, !.watching = FALSE,
                            !.readable = FALSE, !.offList = FALSE]
     IN  \E d \in Reconnect(read) : vm' \in Autostart(d)
  /\ normal' = {} /\ async' = {} /\ mask' = {}
  /\ pc' = [t \in Threads |-> "idle"]
  /\ op' = [t \in Threads |-> "none"]
  /\ saved' = [t \in Threads |-> 0]
  /\ dropped' = 0
  /\ robbed' = FALSE
  /\ UNCHANGED calls

\* The calls that wait for no job.
Jobless == {"define", "undefine", "suspend"}

Work(t) ==
  \/ Grant(t) \/ Resume(t) \/ Create(t) \/ Shutdown(t) \/ Destroy(t)
  \/ SaveBegin(t) \/ SaveRefused(t) \/ SaveGuest(t) \/ SaveEnd(t)

Next ==
  \/ \E t \in Threads : GiveUp(t) \/ Work(t)
  \/ \E t \in Threads, o \in Ops \ Jobless : Call(t, o)
  \/ Define \/ Undefine \/ Suspend
  \/ EventHandler \/ FreeHandle \/ GuestStops \/ OtherRelease \/ Restart

\* The event loop goes on, and a call that can take its next step takes it.
Fairness ==
  /\ WF_vars(EventHandler)
  /\ WF_vars(FreeHandle)
  /\ \A t \in Threads : WF_vars(Work(t) \/ GiveUp(t))

Spec == Init /\ [][Next]_vars /\ Fairness

(***************************************************************************)
(* Properties.                                                             *)
(***************************************************************************)
\* Every Xen domain is the one its object records, and the object is on the list,
\* whatever starts, reaps, saves and restarts of the daemon overlap.  The driver
\* forgets a domain only if libxlReconnectDomain could not ask Xen about it, or if a
\* transient one that died could not be destroyed; and it takes an object that has a
\* domain off its list only if libxlDomainDefineXML could not write its file, or an
\* undefine came before a start that was under way.
GuestIsRecorded ==
  \A i \in DomIds :
    Exists(vm, i) => \/ i \in vm.forgotten
                     \/ vm.id = i /\ (vm.listed \/ vm.offList)

\* A guest that can still stop has its handle in the event loop and its xenstore
\* watch, so that the event that will say so is not lost, unless
\* libxlReconnectDomain could not register them or the event has already come and
\* the domain could not be destroyed.
RunningIsWatched ==
  Exists(vm, vm.id) /\ vm.xen[vm.id] # "suspended" =>
    \/ vm.watching /\ vm.waiter /\ vm.eventHdl \in vm.handles
    \/ vm.id \in vm.unwatched \cup vm.forgotten

\* The references on the object are the list's, one for each handle in the event loop
\* or on its way out of it, and one for each call after BeginJob, less what
\* libxlDomainSuspend has dropped: no other path loses or leaks one.
RefsExact ==
  vm.refs + dropped =
    (IF vm.listed THEN 1 ELSE 0) + Cardinality(vm.handles) + vm.removed
      + Cardinality({t \in Threads : pc[t] # "idle"})

\* The domain that libxlDoDomainSave destroys when it has both locks again is
\* the one it saved, not one that was started meanwhile, unless libxlDomainSuspend
\* has ended the job of a call that starts one.
SaveDestroysItsGuest ==
  [][\A t \in Threads, i \in DomIds :
       pc[t] = "saved" /\ pc'[t] = "idle" /\ vm.xen[i] \in Existing /\ vm'.xen[i] = "gone"
         => saved[t] = i \/ robbed]_vars

\* A guest that stopped by itself is reaped in the end, even if the daemon dies
\* before it has noticed, unless one of the failures above has left it without a
\* handler or without an object.
StoppedGuestReaped ==
  \A i \in DomIds :
    (vm.xen[i] \in {"poweroff", "reboot"})
      ~> (vm.xen[i] = "gone" \/ i \in vm.unwatched \cup vm.forgotten)

\* libxlVmStart says of the managed save file "The old state is removed once
\* the restoring succeeded".
StateRemovedOnceRestored ==
  [][vm.file = "image" /\ vm'.file = "none" =>
       \/ vm'.config # vm.config
       \/ \E i \in DomIds : Exists(vm', i) /\ ~Exists(vm, i)]_vars

\* libxlDoDomainSave "expects ... the vm must be active": a save that overwrites
\* a complete image has a running domain to save.
SaveSeesActiveVm == [][vm.file = "image" /\ vm'.file = "partial" => Active(vm)]_vars

\* BeginJob "must be called by anything that will change the VM state in any
\* way": nobody takes a domain off the list while a job starts it.
RunningIsListed == \A i \in DomIds : Exists(vm, i) => vm.listed \/ i \in vm.forgotten

\* EndJob is "to be called after completing the work associated with the earlier
\* libxlDomainBeginJob() call": the slot it frees is its caller's own.
GrantedHasJob ==
  \A t \in Threads :
    pc[t] = "granted" /\ op[t] \notin Saves => normal = {<<t, JobOf(op[t])>>}
=============================================================================
