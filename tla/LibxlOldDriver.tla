---------------------------- MODULE LibxlOldDriver ----------------------------
(***************************************************************************)
(* The libxl driver before it had jobs (20120423/libvirt/libxl_driver.c):  *)
(* each call runs with the object locked, so it is one step.  The module   *)
(* follows the definitions of one domain - the live one, the one for the   *)
(* next start, the files in configDir, stateDir and saveDir - through the  *)
(* calls that change them, the guest's life and restarts of the daemon.    *)
(*                                                                         *)
(* A call is an operator that maps the state to the set of its outcomes,   *)
(* each with what the caller is told.  Any call of libxl may fail; so it   *)
(* does when the id in the client's handle is out of date.                 *)
(***************************************************************************)
EXTENDS Integers, FiniteSets

CONSTANTS
  Sources,    \* the files behind disks
  NoSource,   \* no disk at a target
  NoDef,      \* a NULL definition, a file that is not there
  MaxAmount,  \* bound: of memory and of vcpus
  MaxDomid,   \* bound: Xen domains ever created; then creation fails
  MaxCalls    \* bound: calls of clients

VARIABLES
  vm,     \* the object, its files and its Xen domains: a record of Objects
  calls   \* calls made so far

oldVars == <<vm, calls>>

DomIds == 1 .. MaxDomid
Amounts == 1 .. MaxAmount
Cdrom == "hdc"
Targets == {"xvda", Cdrom}
Stopped == {"poweroff", "crash", "reboot", "suspended"}
Existing == {"running", "paused"} \cup Stopped

Defs ==
  [disks : [Targets -> Sources \cup {NoSource}],
   mem : [cur : Amounts, max : Amounts],
   cpu : [cur : Amounts, max : Amounts],
   pinned : BOOLEAN]               \* cputune

\* A save file: its header may be missing, and the memory after the header.
SaveFiles == [def : Defs \cup {NoDef}, whole : BOOLEAN]
Paths == {"managed", "user"}       \* in saveDir; the one virDomainSave names

Objects ==
  [listed : BOOLEAN, persistent : BOOLEAN, autostart : BOOLEAN,
   id : 0 .. MaxDomid,             \* vm->def->id, 0 for -1
   state : {"running", "paused", "shutoff"},
   def : Defs \cup {NoDef},        \* vm->def
   newDef : Defs \cup {NoDef},     \* vm->newDef
   config : Defs \cup {NoDef},     \* the file in configDir
   link : BOOLEAN,                 \* the one in autostartDir
   status : [id : 0 .. MaxDomid, def : Defs] \cup {NoDef},  \* in stateDir
   saves : [Paths -> SaveFiles \cup {NoDef}],
   xen : [DomIds -> [state : Existing \cup {"unused", "gone"},
                     disks : [Targets -> Sources \cup {NoSource}]]],
   lost : BOOLEAN,                 \* a restart lost changes stateDir did not have
   half : SUBSET DomIds,           \* guests whose CD was changed half
   orphans : SUBSET DomIds]        \* guests that no listed object has

Ok(s) == [ok |-> TRUE, s |-> s]
Fail(s) == [ok |-> FALSE, s |-> s]

Active(s) == s.id # 0
Exists(s, i) == i # 0 /\ s.xen[i].state \in Existing
NameTaken(s) == \E i \in DomIds : Exists(s, i)
Unused(s) == {i \in DomIds : s.xen[i].state = "unused"}

\* virDomainObjGetPersistentDef: of a domain that is on, a copy made once.
WithNewDef(s) ==
  IF Active(s) /\ s.persistent /\ s.newDef = NoDef THEN [s EXCEPT !.newDef = s.def] ELSE s
PersistentDef(s) == IF s.newDef # NoDef THEN s.newDef ELSE s.def
SetPersistentDef(s, d) == IF s.newDef # NoDef THEN [s EXCEPT !.newDef = d] ELSE [s EXCEPT !.def = d]

\* virDomainObjAssignDef and virDomainAssignDef.
AssignDef(s, d, live) ==
  IF ~s.listed THEN [s EXCEPT !.listed = TRUE, !.def = d]
  ELSE IF Active(s) THEN [s EXCEPT !.newDef = d]
  ELSE IF live THEN [s EXCEPT !.newDef = PersistentDef(s), !.def = d]
  ELSE [s EXCEPT !.def = d]

\* virDomainRemoveInactive: the object is freed.
RemoveInactive(s) ==
  [s EXCEPT !.listed = FALSE, !.persistent = FALSE, !.autostart = FALSE, !.id = 0,
            !.state = "shutoff", !.def = NoDef, !.newDef = NoDef, !.lost = FALSE]

\* The same of an object whose guest may run: nobody has the guest then.
Orphaned(s) == [s EXCEPT !.orphans = @ \cup {i \in DomIds : i = s.id /\ Exists(s, i)}]
Leaves(s) == RemoveInactive(Orphaned(s))

\* virDomainSaveStatus and virDomainSaveConfig, which may fail.
SaveStatus(s) == {Ok([s EXCEPT !.status = [id |-> s.id, def |-> s.def]]), Fail(s)}
SaveConfig(s, d) == {Ok([s EXCEPT !.config = d]), Fail(s)}

(***************************************************************************)
(* Starting and stopping.                                                  *)
(***************************************************************************)
\* libxlVmCleanup.  A transient object keeps the id it had; a definition for
\* the next start takes the live one's place.
VmCleanup(s) ==
  LET off == [s EXCEPT !.status = NoDef, !.lost = FALSE, !.def.pinned = FALSE,
                       !.id = IF s.persistent THEN 0 ELSE @,
                       !.state = IF s.persistent THEN "shutoff" ELSE @]
  IN  IF s.newDef = NoDef THEN off ELSE [off EXCEPT !.def = s.newDef, !.newDef = NoDef, !.id = 0]

VmReap(s) == VmCleanup([s EXCEPT !.xen[s.id].state = "gone"])
RemoveTransient(s) == IF s.persistent THEN s ELSE RemoveInactive(s)

\* The error path of libxlVmStart once it has created domain n.
StartError(s, n) == [s EXCEPT !.xen[n].state = "gone", !.id = 0, !.state = "shutoff"]

\* Domain n as libxl_domain_create_new and _restore leave it.
Made(s, n) == [s EXCEPT !.id = n, !.xen[n] = [state |-> "paused", disks |-> s.def.disks]]
\* The domain that libxl makes next: none while one of the same name is there.
NextUnused(s) == {i \in Unused(s) : ~NameTaken(s) /\ \A j \in Unused(s) : i <= j}

\* libxlVmStart from the creation on: the events, the console and the pinning
\* may fail, then the guest is let run, and its status is saved.
StartDomain(s, paused, whole) ==
  {Fail(s)} \cup
  UNION {IF ~whole THEN {Fail(StartError(Made(s, n), n))}
         ELSE {Fail(StartError(Made(s, n), n)),
               LET on == [Made(s, n) EXCEPT !.state = IF paused THEN "paused" ELSE "running",
                                            !.xen[n].state = IF paused THEN "paused" ELSE "running",
                                            !.lost = FALSE]
               IN  Ok([on EXCEPT !.status = [id |-> n, def |-> on.def]])}
         : n \in NextUnused(s)}

\* libxlSaveImageOpen.
Opens(f) == f # NoDef /\ f.def # NoDef

\* libxlVmStart's first part: the definition in the managed save file becomes
\* the live one, and the file is gone before the guest is restored from it.
TakeManagedSave(s) ==
  [AssignDef(s, s.saves["managed"].def, TRUE) EXCEPT !.saves["managed"] = NoDef]

\* libxlVmStart without a file of the caller's.
VmStart(s, paused) ==
  LET file == s.saves["managed"]
  IN  IF file = NoDef THEN StartDomain(s, paused, TRUE)
      ELSE IF ~Opens(file) THEN {Fail(s)}
      ELSE StartDomain(TakeManagedSave(s), paused, file.whole)

\* libxlDomainCreateXML.  An object that cannot be started leaves the list, a
\* persistent one too.
XmlStart(s, paused) == {IF r.ok THEN r ELSE Fail(Leaves(r.s)) : r \in VmStart(s, paused)}
CreateXML(s, d, paused) ==
  IF s.listed /\ Active(s) THEN {Fail(s)} ELSE XmlStart(AssignDef(s, d, FALSE), paused)

CreateWithFlags(s, paused) == IF Active(s) THEN {Fail(s)} ELSE VmStart(s, paused)

\* libxlDomainRestoreFlags.
RestoreStart(s) ==
  {IF r.ok \/ s.persistent THEN r ELSE Fail(Leaves(r.s)) :
     r \in StartDomain(s, FALSE, s.saves["user"].whole)}
RestoreFlags(s) ==
  LET file == s.saves["user"]
  IN  IF ~Opens(file) \/ (s.listed /\ Active(s)) THEN {Fail(s)}
      ELSE RestoreStart(AssignDef(s, file.def, TRUE))

\* libxlDomainSuspend, libxlDomainResume.
SetPaused(s, from, to) ==
  IF ~Active(s) THEN {Fail(s)}
  ELSE IF s.state # from THEN SaveStatus(s)
  ELSE {Fail(s)} \cup
       IF ~Exists(s, s.id) THEN {}
       ELSE SaveStatus([s EXCEPT !.state = to,
                                 !.xen[s.id].state = IF @ = from THEN to ELSE @])
DomainSuspend(s) == SetPaused(s, "running", "paused")
DomainResume(s) == SetPaused(s, "paused", "running")

\* libxlDomainDestroyFlags.
DestroyFlags(s) ==
  IF Active(s) /\ Exists(s, s.id) THEN {Ok(RemoveTransient(VmReap(s)))} ELSE {Fail(s)}

\* libxlDoDomainSave, libxlDomainSaveFlags, libxlDomainManagedSave: the file is
\* created over what was there, then header and definition are written, then
\* the guest is suspended and its memory written, then it is reaped.
DomainSave(s, path) ==
  IF ~Active(s) \/ s.state = "paused" \/ (path = "managed" /\ ~s.persistent) THEN {Fail(s)}
  ELSE LET file(d, whole) == [s EXCEPT !.saves[path] = [def |-> d, whole |-> whole]]
       IN  {Fail(s), Fail(file(NoDef, FALSE)), Fail(file(s.def, FALSE))} \cup
           IF ~Exists(s, s.id) \/ s.xen[s.id].state # "running" THEN {}
           ELSE {Fail([file(s.def, whole) EXCEPT !.xen[s.id].state = "suspended"]) : whole \in BOOLEAN}
                \cup {Ok(RemoveTransient(VmReap(file(s.def, TRUE))))}

\* libxlReconnectDomain, of an object loaded from its file in stateDir.
ReconnectDomain(s) ==
  IF Exists(s, s.id) THEN [s EXCEPT !.state = "running"] ELSE RemoveInactive(VmCleanup(s))

\* libxlStartup after the daemon died: running domains first, then the
\* definitions in configDir.
Startup(s) ==
  LET off == RemoveInactive(s)
      on == IF s.status = NoDef THEN off
            ELSE ReconnectDomain([off EXCEPT !.listed = TRUE, !.id = s.status.id,
                                             !.def = s.status.def,
                                             !.lost = s.lost \/ (s.listed /\ s.status.def.disks # s.def.disks)])
  IN  IF s.config = NoDef THEN on
      ELSE [AssignDef(on, s.config, FALSE) EXCEPT !.persistent = TRUE, !.autostart = s.link]

\* libxlAutostartDomain, from libxlStartup and libxlReload.
Autostart(s) ==
  IF s.listed /\ s.autostart /\ ~Active(s) THEN {r.s : r \in VmStart(s, FALSE)} ELSE {s}

\* libxlDomainCoreDump.  After VIR_DUMP_CRASH of a transient domain vm is NULL
\* and its id is read: the daemon dies.
CoreDump(s, live, crash) ==
  LET pauses == ~live /\ s.state = "running"
      paused == IF pauses THEN [s EXCEPT !.state = "paused", !.xen[s.id].state =
                                           IF @ = "running" THEN "paused" ELSE @]
                          ELSE s
      resumed == {paused} \cup IF pauses THEN {s} ELSE {}
  IN  IF ~Active(s) THEN {Fail(s)}
      ELSE IF ~Exists(s, s.id) THEN {Fail(s)}
      ELSE {Fail(s)} \cup {Fail(r) : r \in resumed} \cup
           (IF ~crash THEN {Ok(r) : r \in resumed}
            ELSE IF s.persistent THEN {Ok(VmReap(paused))}
            ELSE {Fail(r) : r \in Autostart(Startup(RemoveInactive(VmReap(paused))))})

\* libxlEventHandler of a guest that stopped: one that rebooted is started
\* again, one that is suspended is left alone.
EventHandler(s) ==
  LET why == s.xen[s.id].state
  IN  IF why \in {"poweroff", "crash"} THEN {RemoveTransient(VmReap(s))}
      ELSE IF why = "reboot" THEN {r.s : r \in VmStart(VmReap(s), FALSE)}
      ELSE {}

(***************************************************************************)
(* Definitions and their files.                                            *)
(***************************************************************************)
\* libxlDomainDefineXML.  If the file cannot be written the object leaves the
\* list, also one whose guest runs.
DefineXML(s, d) ==
  LET def == [AssignDef(s, d, FALSE) EXCEPT !.persistent = TRUE]
  IN  {IF r.ok THEN r ELSE Fail(Leaves(s)) : r \in SaveConfig(def, PersistentDef(def))}

\* libxlDomainUndefineFlags.
UndefineFlags(s, managedSave) ==
  LET off == [s EXCEPT !.config = NoDef, !.link = FALSE, !.saves["managed"] = NoDef]
  IN  IF ~s.persistent \/ (s.saves["managed"] # NoDef /\ ~managedSave) THEN {Fail(s)}
      ELSE {Ok(IF Active(s) THEN [off EXCEPT !.persistent = FALSE] ELSE RemoveInactive(off))}

ManagedSaveRemove(s) ==
  IF s.saves["managed"] = NoDef THEN {Fail(s)} ELSE {Ok([s EXCEPT !.saves["managed"] = NoDef])}

SetAutostart(s, on) ==
  IF ~s.persistent THEN {Fail(s)}
  ELSE {Ok([s EXCEPT !.autostart = on, !.link = IF on = s.autostart THEN @ ELSE on])} \cup
       IF on = s.autostart THEN {} ELSE {Fail(s)}

\* VIR_DOMAIN_MEM_CURRENT and the like: no flag means what runs, or else the
\* configuration.
Resolve(s, flags) == IF flags # {} THEN flags ELSE IF Active(s) THEN {"live"} ELSE {"config"}
Refused(s, flags) == ("live" \in flags /\ ~Active(s)) \/ ("config" \in flags /\ ~s.persistent)

\* Some memory or vcpu count of the persistent definition set, and saved.  A
\* file that cannot be written does not undo the change.
ChangeConfig(s, field, amount, maximum) ==
  LET d == PersistentDef(s)
      new == IF maximum
               THEN [cur |-> IF d[field].cur > amount THEN amount ELSE d[field].cur, max |-> amount]
               ELSE [d[field] EXCEPT !.cur = amount]
      changed == [d EXCEPT ![field] = new]
  IN  SaveConfig(SetPersistentDef(s, changed), changed)

\* libxlDomainSetMemoryFlags.  What is set live shows in no definition; the
\* limit is the live definition's, also for the persistent one.
SetMemoryFlags(s, amount, maximum, given) ==
  LET flags == Resolve(s, given)
      t == IF "config" \in flags THEN WithNewDef(s) ELSE s
  IN  IF Refused(s, flags) THEN {Fail(s)}
      ELSE IF ~maximum /\ amount > s.def.mem.max THEN {Fail(t)}
      ELSE (IF "live" \in flags THEN {Fail(t)} ELSE {}) \cup
           (IF "live" \in flags /\ ~Exists(s, s.id) THEN {}
            ELSE IF "config" \in flags THEN ChangeConfig(t, "mem", amount, maximum)
            ELSE {Ok(t)})

\* libxlDomainSetVcpusFlags: a flag must be given, and the maximum is not set
\* live.
SetVcpusFlags(s, amount, maximum, flags) ==
  LET t == WithNewDef(s)
  IN  IF flags = {} \/ (maximum /\ "live" \in flags) \/ Refused(s, flags) THEN {Fail(s)}
      ELSE IF ~maximum /\ amount > s.def.cpu.max THEN {Fail(s)}
      ELSE (IF "live" \in flags THEN {Fail(t)} ELSE {}) \cup
           (IF "live" \in flags /\ ~Exists(s, s.id) THEN {}
            ELSE IF "config" \in flags THEN ChangeConfig(t, "cpu", amount, maximum)
            ELSE {Ok(t)})

\* libxlDomainPinVcpu: only the live definition knows of it.
PinVcpu(s) ==
  {Fail(s)} \cup
  IF Active(s) /\ Exists(s, s.id) THEN SaveStatus([s EXCEPT !.def.pinned = TRUE]) ELSE {}

(***************************************************************************)
(* Disks.  A device is [target, source].                                   *)
(***************************************************************************)
Devices == [target : Targets, source : Sources]
Has(d, dev) == d.disks[dev.target] # NoSource
Put(d, dev, source) == [d EXCEPT !.disks[dev.target] = source]

\* libxlDomainAttachDeviceConfig, ...DetachDeviceConfig, ...UpdateDeviceConfig.
AttachDeviceConfig(d, dev) == IF Has(d, dev) THEN Fail(d) ELSE Ok(Put(d, dev, dev.source))
DetachDeviceConfig(d, dev) == IF Has(d, dev) THEN Ok(Put(d, dev, NoSource)) ELSE Fail(d)
UpdateDeviceConfig(d, dev) ==
  IF Has(d, dev) /\ dev.target = Cdrom THEN Ok(Put(d, dev, dev.source)) ELSE Fail(d)

\* A bug: the definition is changed before libxl is asked.
LiveChangeEarly(s, dev, source) ==
  LET early == [s EXCEPT !.def = Put(@, dev, source)]
  IN  {Fail(early)} \cup
      IF Exists(s, s.id) THEN {Ok([early EXCEPT !.xen[s.id].disks[dev.target] = source])} ELSE {}

\* A disk of the guest changed by libxl, and then in its definition.
LiveChange(s, dev, source) ==
  {Fail(s)} \cup
  IF Exists(s, s.id)
    THEN {Ok([s EXCEPT !.def = Put(@, dev, source), !.xen[s.id].disks[dev.target] = source])}
    ELSE {}

\* libxlDomainChangeEjectableMedia.  libxl_cdrom_insert fails if the guest has no such
\* drive.  Else it removes the drive and adds it with the new medium, and says that it
\* did whatever came of the two: the guest may have the old drive, or none.
ChangeEjectableMedia(s, dev) ==
  LET there == s.xen[s.id].disks[dev.target]
      changed(x) == [s EXCEPT !.def = Put(@, dev, dev.source), !.xen[s.id].disks[dev.target] = x,
                              !.half = IF x = dev.source THEN @ \ {s.id} ELSE @ \cup {s.id}]
  IN  {Fail(s)} \cup
      IF Has(s.def, dev) /\ dev.target = Cdrom /\ Exists(s, s.id) /\ there # NoSource
        THEN {Ok(changed(x)) : x \in {dev.source, there, NoSource}}
        ELSE {}

\* libxlDomainAttachDeviceLive: attaching a CD changes the medium.
AttachDeviceLive(s, dev) ==
  IF dev.target = Cdrom THEN ChangeEjectableMedia(s, dev)
  ELSE IF Has(s.def, dev) THEN {Fail(s)} ELSE LiveChange(s, dev, dev.source)

\* libxlDomainDetachDeviceLive: a CD drive stays.
DetachDeviceLive(s, dev) ==
  IF dev.target # Cdrom /\ Has(s.def, dev) THEN LiveChange(s, dev, NoSource) ELSE {Fail(s)}

UpdateDeviceLive(s, dev) == ChangeEjectableMedia(s, dev)

ConfigPart(d, action, dev) ==
  CASE action = "attach" -> AttachDeviceConfig(d, dev)
    [] action = "detach" -> DetachDeviceConfig(d, dev)
    [] action = "update" -> UpdateDeviceConfig(d, dev)

LivePart(s, action, dev) ==
  CASE action = "attach" -> AttachDeviceLive(s, dev)
    [] action = "detach" -> DetachDeviceLive(s, dev)
    [] action = "update" -> UpdateDeviceLive(s, dev)

\* The end of libxlDomainModifyDeviceFlags: the changed copy is saved, and
\* then takes the place of the persistent definition.
SaveDevices(s, d) ==
  {IF r.ok THEN Ok(AssignDef(r.s, d, FALSE)) ELSE r : r \in SaveConfig(s, d)}

\* libxlDomainModifyDeviceFlags.  What the live part returns replaces what the
\* part that changes the copy returned.
ModifyDeviceFlags(s, action, dev, given) ==
  LET flags == Resolve(s, given)
      t == IF "config" \in flags THEN WithNewDef(s) ELSE s
      copy == ConfigPart(PersistentDef(t), action, dev)
      live == IF "live" \notin flags
                THEN {IF "config" \in flags /\ ~copy.ok THEN Fail(t) ELSE Ok(t)}
              ELSE UNION {{[r EXCEPT !.ok = @ /\ p.ok, !.s = p.s] : p \in SaveStatus(r.s)} :
                            r \in LivePart(t, action, dev)}
  IN  IF Refused(s, flags) THEN {Fail(s)}
      ELSE UNION {IF r.ok /\ "config" \in flags THEN SaveDevices(r.s, copy.s) ELSE {r} : r \in live}

(***************************************************************************)
(* The system.                                                             *)
(***************************************************************************)
Plain(d) == [disks |-> d, mem |-> [cur |-> 1, max |-> MaxAmount],
             cpu |-> [cur |-> 1, max |-> MaxAmount], pinned |-> FALSE]

\* The definitions clients write.
XmlDefs == {Plain([t \in Targets |-> IF t = Cdrom THEN x ELSE NoSource]) : x \in Sources}

NoGuest == [state |-> "unused", disks |-> [t \in Targets |-> NoSource]]

Nothing ==
  [listed |-> FALSE, persistent |-> FALSE, autostart |-> FALSE, id |-> 0, state |-> "shutoff",
   def |-> NoDef, newDef |-> NoDef, config |-> NoDef, link |-> FALSE, status |-> NoDef,
   saves |-> [p \in Paths |-> NoDef], xen |-> [i \in DomIds |-> NoGuest],
   lost |-> FALSE, half |-> {}, orphans |-> {}]

Init ==
  /\ calls = 0
  /\ \E d \in XmlDefs :
       vm = [Nothing EXCEPT !.listed = TRUE, !.persistent = TRUE, !.def = d, !.config = d]

FlagSets == SUBSET {"live", "config"}

\* What a call on the listed domain may come to.
CallOnDomain(s) ==
  (UNION {CreateWithFlags(s, p) : p \in BOOLEAN})
  \cup DomainSuspend(s) \cup DomainResume(s) \cup DestroyFlags(s)
  \cup (UNION {DomainSave(s, p) : p \in Paths})
  \cup (UNION {CoreDump(s, l, c) : l \in BOOLEAN, c \in BOOLEAN})
  \cup (UNION {UndefineFlags(s, m) : m \in BOOLEAN})
  \cup ManagedSaveRemove(s)
  \cup (UNION {SetAutostart(s, a) : a \in BOOLEAN})
  \cup PinVcpu(s)

\* The calls that change memory, vcpus and disks.
CallOnConfig(s) ==
  (UNION {SetMemoryFlags(s, a, m, f) : a \in Amounts, m \in BOOLEAN, f \in FlagSets})
  \cup (UNION {SetVcpusFlags(s, a, m, f) : a \in Amounts, m \in BOOLEAN, f \in FlagSets})
  \cup (UNION {ModifyDeviceFlags(s, c, dev, f) :
                 c \in {"attach", "detach", "update"}, dev \in Devices, f \in FlagSets})

\* The calls that bring a definition with them.
CallWithDef(s) ==
  (UNION {CreateXML(s, d, p) : d \in XmlDefs, p \in BOOLEAN})
  \cup (UNION {DefineXML(s, d) : d \in XmlDefs})
  \cup RestoreFlags(s)

CallResults(s) ==
  (IF s.listed THEN CallOnDomain(s) \cup CallOnConfig(s) ELSE {}) \cup CallWithDef(s)

Call ==
  /\ calls < MaxCalls
  /\ calls' = calls + 1
  /\ \E r \in CallResults(vm) : vm' = r.s

Event ==
  /\ vm.listed /\ Exists(vm, vm.id)
  /\ vm' \in EventHandler(vm)
  /\ UNCHANGED calls

Reload ==
  /\ vm' \in Autostart(vm)
  /\ UNCHANGED calls

\* The guest stops, by itself or as libxlDomainShutdown and libxlDomainReboot
\* asked it.
GuestStops ==
  /\ \E i \in DomIds, why \in {"poweroff", "crash", "reboot"} :
       vm.xen[i].state = "running" /\ vm' = [vm EXCEPT !.xen[i].state = why]
  /\ UNCHANGED calls

\* The daemon dies between two calls.
Restart ==
  /\ vm' \in Autostart(Startup(vm))
  /\ UNCHANGED calls

\* The daemon dies in libxlVmStart, after the creation and before the status.
DieInStart ==
  /\ calls < MaxCalls
  /\ calls' = calls + 1
  /\ vm.listed /\ ~Active(vm) /\ vm.saves["managed"] = NoDef
  /\ \E n \in NextUnused(vm) :
       vm' = [Startup(Made(vm, n)) EXCEPT !.orphans = @ \cup {n}]

Next == Call \/ Event \/ Reload \/ GuestStops \/ Restart \/ DieInStart

Spec == Init /\ [][Next]_oldVars

(***************************************************************************)
(* Properties.                                                             *)
(***************************************************************************)
\* Definition d has the disks of guest i: all but the CD drive of a guest for which
\* libxl_cdrom_insert did half of what it said.
HasDisksOf(s, d, i) ==
  \A x \in Targets : d.disks[x] = s.xen[i].disks[x] \/ (x = Cdrom /\ i \in s.half)

\* Through attaching, detaching, changing CDs, saving, restoring and restarts of
\* the daemon, the live definition has the disks the guest has
\* (libxlDomainModifyDeviceFlags, libxlVmStart), unless a restart found a file
\* in stateDir that could not be brought up to date; but of the CD drive it may have
\* what libxl_cdrom_insert, which ignores what fails in it, did not bring about.
LiveDefIsGuest ==
  vm.listed /\ Exists(vm, vm.id) /\ ~vm.lost /\ vm.id \notin vm.orphans
    => HasDisksOf(vm, vm.def, vm.id)

=============================================================================
