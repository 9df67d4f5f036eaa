------------------------------ MODULE XlDevices ------------------------------
(***************************************************************************)
(* A domain's devices, in the newer libxl.c and xl (console_get_tty and    *)
(* test_case).  A device is two directories of xenstore: the frontend's,   *)
(* under the domain, and the backend's, under its kind.  Runs of xl attach *)
(* and detach disks and network cards and change the medium of the cd      *)
(* drive, with no lock; the daemon that stays with a domain empties a      *)
(* drive whose guest ejects.                                               *)
(***************************************************************************)
EXTENDS XlProcesses, Sequences, SequencesExt

CONSTANTS
  Daemon,     \* the one that made the domain and waits for its events
  Vdevs,      \* virtual disks; the domain starts with an empty cd drive at each
  Media,      \* what a disk can be made of
  Empty,      \* LIBXL_DISK_FORMAT_EMPTY
  Bad,        \* media that are not there to be opened
  Fixed,      \* media of disks that are not cd drives
  KindOf,     \* [Media -> the kind of backend libxl chooses]
  Nothing,    \* no medium, no kind, no drive
  MaxNic,     \* bound: numbers of network cards
  MaxEjects   \* bound: ejects by the guest

\* The order in which libxl_device_disk_list reads the backends.
Kinds == <<"vbd", "qdisk">>
Actors == Procs \cup {Daemon}

ASSUME XlDevicesAssumption ==
  /\ Daemon \notin Procs /\ Nothing \notin Media \cup Vdevs \cup ToSet(Kinds)
  /\ Empty \in Media /\ Bad \cup Fixed \subseteq Media \ {Empty}
  /\ KindOf \in [Media -> ToSet(Kinds)]
  /\ {MaxNic, MaxEjects, MaxCalls} \subseteq Nat

VARIABLES
  alive,      \* the domain is there
  front,      \* device/vbd/<vdev>: the kind its backend link names
  back,       \* backend/<kind>/<domid>/<vdev>: the medium
  eject,      \* device/vbd/<vdev>/eject: what the guest writes, "" or nothing
  nics,       \* device/vif: numbers in the order of creation; None without the directory
  fired,      \* the daemon's watches that have fired
  queue,      \* events the daemon has not taken yet: a drive, or None for a death
  ejects, events, \* ejects by the guest, and events that told of one
  gone        \* drives that a command took away, or failed to bring back

directories == <<front, back, eject, nics>>
devicesVars == <<alive, directories, proc, fired, queue, ejects, events, gone, calls>>

DevicesIdle == [pc |-> "idle", op |-> "none", vdev |-> Nothing, kind |-> Nothing, medium |-> Nothing, nic |-> 0]

\* libxl_evenable_domain_death, libxl_evenable_disk_eject: a watch fires when it is set.
EventsOn(drives) == fired = drives

DevicesInit ==
  /\ alive = TRUE
  /\ front = [v \in Vdevs |-> KindOf[Empty]]
  /\ back = [k \in ToSet(Kinds) |-> [v \in Vdevs |-> IF k = KindOf[Empty] THEN Empty ELSE Nothing]]
  /\ eject = [v \in Vdevs |-> "none"]
  /\ nics \in {Nothing, <<0>>}
  /\ proc = [a \in Actors |-> DevicesIdle]
  /\ EventsOn(Vdevs)
  /\ queue = <<>> /\ ejects = 0 /\ events = 0 /\ gone = {} /\ calls = 0

Commanded(p) == proc[p].pc = "idle" /\ p # Daemon /\ alive /\ Given

\* Whatever happens to a path, to what is above it too, fires its watch.
Fires(S) == fired' = IF proc[Daemon].pc = "off" THEN fired ELSE fired \cup S

(***************************************************************************)
(* libxl__device_generic_add, libxl__device_destroy: each replaces or      *)
(* removes both directories.                                               *)
(***************************************************************************)
GenericAdd(v, m) ==
  /\ front' = [front EXCEPT ![v] = KindOf[m]]
  /\ back' = [back EXCEPT ![KindOf[m]][v] = m]
  /\ eject' = [eject EXCEPT ![v] = "none"]
  /\ Fires({v})

DeviceDestroy(v, k) ==
  /\ front' = [front EXCEPT ![v] = Nothing]
  /\ back' = [back EXCEPT ![k][v] = Nothing]
  /\ eject' = [eject EXCEPT ![v] = "none"]
  /\ Fires({v})

(***************************************************************************)
(* Disks.                                                                  *)
(***************************************************************************)
\* main_blockattach: any disk, over what there is at that address.
BlockAttach(p) ==
  /\ Commanded(p)
  /\ \E v \in Vdevs, m \in Media :
       Go(p, [DevicesIdle EXCEPT !.pc = "add", !.op = "attach", !.vdev = v, !.medium = m])
  /\ UNCHANGED <<alive, directories, fired, queue, ejects, events, gone>>

\* libxl_vdev_to_device_disk: the frontend's link, then what is there.
BlockDetach(p) ==
  /\ Commanded(p)
  /\ \E v \in Vdevs :
       /\ front[v] # Nothing
       /\ Go(p, [DevicesIdle EXCEPT !.pc = "remove", !.op = "detach", !.vdev = v, !.kind = front[v]])
  /\ UNCHANGED <<alive, directories, fired, queue, ejects, events, gone>>

\* cd_insert, with a medium or without.
CdInsert(p) ==
  /\ Commanded(p)
  /\ \E v \in Vdevs, m \in Media \ Fixed :
       Go(p, [DevicesIdle EXCEPT !.pc = "list", !.op = "insert", !.vdev = v, !.medium = m])
  /\ UNCHANGED <<alive, directories, fired, queue, ejects, events, gone>>

\* libxl_device_disk_list: all backends there are, by kind; the first that is a
\* cd drive at this address.
Listed(v) == SelectSeq(Kinds, LAMBDA k : back[k][v] \notin Fixed \cup {Nothing})

ListDisks(a) ==
  /\ proc[a].pc = "list"
  /\ Go(a, IF Listed(proc[a].vdev) = <<>> THEN DevicesIdle
           ELSE [proc[a] EXCEPT !.pc = "remove", !.kind = Head(Listed(proc[a].vdev))])
  /\ UNCHANGED <<alive, directories, fired, queue, ejects, events, gone, calls>>

\* libxl_cdrom_insert goes on, however the removal went.
Removed(a) == Go(a, IF proc[a].op = "insert" THEN [proc[a] EXCEPT !.pc = "add", !.kind = Nothing] ELSE DevicesIdle)

\* libxl__initiate_device_remove asks the backend to close; without one there is
\* nothing to do.
RemoveBegins(a) ==
  /\ proc[a].pc = "remove" /\ back[proc[a].kind][proc[a].vdev] # Nothing
  /\ Go(a, [proc[a] EXCEPT !.pc = "closing"])
  /\ UNCHANGED <<alive, directories, fired, queue, ejects, events, gone, calls>>

RemoveNothing(a) ==
  /\ proc[a].pc = "remove" /\ back[proc[a].kind][proc[a].vdev] = Nothing
  /\ Removed(a)
  /\ UNCHANGED <<alive, directories, fired, queue, ejects, events, gone, calls>>

\* It closes, and the device goes.
RemoveEnds(a) ==
  /\ proc[a].pc = "closing"
  /\ DeviceDestroy(proc[a].vdev, proc[a].kind)
  /\ gone' = IF proc[a].op = "detach" THEN gone \cup {proc[a].vdev} ELSE gone
  /\ Removed(a)
  /\ UNCHANGED <<alive, nics, queue, ejects, events, calls>>

\* It does not.
RemoveTimesOut(a) ==
  /\ proc[a].pc = "closing"
  /\ Removed(a)
  /\ UNCHANGED <<alive, directories, fired, queue, ejects, events, gone, calls>>

\* libxl_device_disk_add, when libxl__device_disk_set_backend finds no backend
\* for the disk: libxl_cdrom_insert has removed the drive by then.
AddFails(a) ==
  /\ proc[a].pc = "add" /\ proc[a].medium \in Bad
  /\ gone' = IF front[proc[a].vdev] = Nothing THEN gone \cup {proc[a].vdev} ELSE gone
  /\ Go(a, DevicesIdle)
  /\ UNCHANGED <<alive, directories, fired, queue, ejects, events, calls>>

DiskAdded(a) ==
  /\ GenericAdd(proc[a].vdev, proc[a].medium)
  /\ gone' = gone \ {proc[a].vdev}
  /\ Go(a, DevicesIdle)
  /\ UNCHANGED <<alive, nics, queue, ejects, events, calls>>

\* A mutant: there is nothing to add when the drive is emptied.
DiskAddUnlessEmpty(a) ==
  /\ proc[a].pc = "add" /\ proc[a].medium \notin Bad
  /\ IF proc[a].op = "insert" /\ proc[a].medium = Empty
       THEN Go(a, DevicesIdle) /\ UNCHANGED <<alive, directories, fired, queue, ejects, events, gone, calls>>
       ELSE DiskAdded(a)

DiskAdd(a) == proc[a].pc = "add" /\ proc[a].medium \notin Bad /\ DiskAdded(a)

(***************************************************************************)
(* Network cards.                                                          *)
(***************************************************************************)
\* libxl_device_nic_add: the number after the last of the directory.  An empty
\* directory has no last entry: what is read before its first is anything.
NewNic == IF nics = Nothing THEN {0} ELSE IF nics = <<>> THEN 0 .. MaxNic ELSE {Last(nics) + 1}

NicAttach(p) ==
  /\ Commanded(p)
  /\ \E n \in NewNic : n <= MaxNic /\ Go(p, [DevicesIdle EXCEPT !.pc = "nic add", !.nic = n])
  /\ UNCHANGED <<alive, directories, fired, queue, ejects, events, gone>>

NicAdd(p) ==
  /\ proc[p].pc = "nic add"
  /\ nics' = IF nics = Nothing THEN <<proc[p].nic>> ELSE Append(Remove(nics, proc[p].nic), proc[p].nic)
  /\ Go(p, DevicesIdle)
  /\ UNCHANGED <<alive, front, back, eject, fired, queue, ejects, events, gone, calls>>

\* By number, or by address: libxl_mac_to_device_nic finds the number.
NicDetach(p) ==
  /\ Commanded(p)
  /\ nics # Nothing /\ \E n \in ToSet(nics) : Go(p, [DevicesIdle EXCEPT !.pc = "nic remove", !.nic = n])
  /\ UNCHANGED <<alive, directories, fired, queue, ejects, events, gone>>

NicRemove(p) ==
  /\ proc[p].pc = "nic remove"
  /\ nics' \in {nics, IF nics = Nothing THEN Nothing ELSE Remove(nics, proc[p].nic)}
  /\ Go(p, DevicesIdle)
  /\ UNCHANGED <<alive, front, back, eject, fired, queue, ejects, events, gone, calls>>

(***************************************************************************)
(* The guest, and the daemon's events.                                     *)
(***************************************************************************)
GuestEjects ==
  /\ alive /\ ejects < MaxEjects
  /\ \E v \in Vdevs : front[v] # Nothing /\ eject' = [eject EXCEPT ![v] = "eject"] /\ Fires({v})
  /\ ejects' = ejects + 1
  /\ UNCHANGED <<alive, front, back, nics, proc, queue, events, gone, calls>>

\* The thread that waits for events runs callbacks also while it waits in
\* libxl_cdrom_insert.
Waits == proc[Daemon].pc \in {"idle", "closing"}

\* disk_eject_xswatch_callback: without "eject" there, nothing.
WatchIdle(v) ==
  /\ Waits /\ v \in fired /\ eject[v] # "eject"
  /\ fired' = fired \ {v}
  /\ UNCHANGED <<alive, directories, proc, queue, ejects, events, gone, calls>>

EjectTaken(v, answer) ==
  /\ Waits /\ v \in fired /\ eject[v] = "eject"
  /\ eject' = [eject EXCEPT ![v] = answer]
  /\ Fires({v})
  /\ queue' = Append(queue, v) /\ events' = events + 1
  /\ UNCHANGED <<alive, front, back, nics, proc, ejects, gone, calls>>

\* Mutants: the eject is not acknowledged; the watch is good for one event.
EjectUnanswered(v) == events < MaxEjects + 1 /\ EjectTaken(v, "eject")
EjectSeenFirst(v) == events = 0 /\ EjectTaken(v, "")

\* It is acknowledged, which fires the watch again.
EjectSeen(v) == EjectTaken(v, "")

\* The frontend goes after the acknowledgement: no backend is read, and the
\* daemon dies of it.
EjectKills(v) ==
  /\ Waits /\ v \in fired /\ eject[v] = "eject"
  /\ \E p \in Procs : proc[p].pc = "closing" /\ proc[p].vdev = v
  /\ eject' = [eject EXCEPT ![v] = ""]
  /\ Go(Daemon, [DevicesIdle EXCEPT !.pc = "off"])
  /\ fired' = {} /\ queue' = <<>>
  /\ gone' = gone \cup (IF proc[Daemon].pc = "closing" THEN {proc[Daemon].vdev} ELSE {})
  /\ UNCHANGED <<alive, front, back, nics, ejects, events, calls>>

\* LIBXL_EVENT_TYPE_DISK_EJECT: libxl_cdrom_insert of an empty disk.
DaemonEmpties ==
  /\ proc[Daemon].pc = "idle" /\ queue # <<>> /\ Head(queue) # Nothing
  /\ Go(Daemon, [DevicesIdle EXCEPT !.pc = "list", !.op = "insert", !.vdev = Head(queue), !.medium = Empty])
  /\ queue' = Tail(queue)
  /\ UNCHANGED <<alive, directories, fired, ejects, events, gone, calls>>

\* domain_death_xswatch_callback, with the one domain the daemon watches.
DeathSeen ==
  /\ Waits /\ ~alive /\ Nothing \notin ToSet(queue)
  /\ queue' = Append(queue, Nothing)
  /\ UNCHANGED <<alive, directories, proc, fired, ejects, events, gone, calls>>

\* The events are given up, and those that wait discarded.
EventsOff == fired' = {} /\ queue' = <<>>

\* LIBXL_EVENT_TYPE_DOMAIN_DEATH.
DaemonLeaves ==
  /\ proc[Daemon].pc = "idle" /\ queue # <<>> /\ Head(queue) = Nothing
  /\ Go(Daemon, [DevicesIdle EXCEPT !.pc = "off"])
  /\ EventsOff
  /\ UNCHANGED <<alive, directories, ejects, events, gone, calls>>

\* libxl_domain_destroy, by another process: libxl__devices_destroy, and then
\* the domain's directory.
DomainDestroyed ==
  /\ alive /\ Given
  /\ alive' = FALSE
  /\ front' = [v \in Vdevs |-> Nothing]
  /\ back' = [k \in ToSet(Kinds) |-> [v \in Vdevs |-> Nothing]]
  /\ eject' = [v \in Vdevs |-> "none"]
  /\ nics' = Nothing
  /\ Fires(Vdevs)
  /\ UNCHANGED <<proc, queue, ejects, events, gone>>

\* A command is interrupted, or dies of a disk that goes while it is listed.
Interrupted(p) ==
  /\ proc[p].pc # "idle" /\ Given
  /\ gone' = gone \cup ({proc[p].vdev} \ {Nothing})
  /\ Go(p, DevicesIdle)
  /\ UNCHANGED <<alive, directories, fired, queue, ejects, events>>

DevicesGo(a) ==
  \/ ListDisks(a) \/ RemoveBegins(a) \/ RemoveNothing(a) \/ RemoveEnds(a) \/ RemoveTimesOut(a)
  \/ DiskAdd(a) \/ AddFails(a) \/ NicAdd(a) \/ NicRemove(a)

DaemonGoes ==
  \/ DevicesGo(Daemon) \/ DaemonEmpties \/ DeathSeen \/ DaemonLeaves
  \/ \E v \in Vdevs : WatchIdle(v) \/ EjectSeen(v) \/ EjectKills(v)

DevicesNext ==
  \/ \E p \in Procs :
       \/ DevicesGo(p) \/ Interrupted(p) \/ NicAttach(p) \/ NicDetach(p)
       \/ BlockAttach(p) \/ BlockDetach(p) \/ CdInsert(p)
  \/ DaemonGoes \/ GuestEjects \/ DomainDestroyed

DevicesSpec == DevicesInit /\ [][DevicesNext]_devicesVars

\* xl is scheduled; nothing is assumed of the guest and of users.
DevicesFairSpec == DevicesSpec /\ WF_devicesVars(DaemonGoes) /\ \A p \in Procs : WF_devicesVars(DevicesGo(p))

(***************************************************************************)
(* Properties.                                                             *)
(***************************************************************************)
\* The cd drive is removed and added again to change its medium, by several at
\* once, the daemon among them: it is there, or one of them has it to add,
\* unless it was detached, or a command did not get to its end.
DriveStays ==
  \A v \in Vdevs :
    \/ front[v] # Nothing \/ v \in gone \/ ~alive
    \/ \E a \in Actors : proc[a].op = "insert" /\ proc[a].vdev = v /\ proc[a].pc \in {"remove", "closing", "add"}

\* An eject empties the drive once: the daemon's own writes to the path, and
\* those of a change of medium, fire its watch as well.
EjectOnce == events <= ejects

\* An eject is answered, or the drive it was written to is replaced, unless the
\* daemon died.
EjectAnswered ==
  \A v \in Vdevs : eject[v] = "eject" ~> eject[v] # "eject" \/ proc[Daemon].pc = "off"
=============================================================================
