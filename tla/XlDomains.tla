------------------------------ MODULE XlDomains ------------------------------
(***************************************************************************)
(* The xl command (20120423/xen/xl_cmdimpl.c) and the parts of libxl.c it  *)
(* makes a domain's life with.  Each run of xl is a process.  One that     *)
(* creates or restores a domain takes the lock file, makes the domain,     *)
(* gives it its name in a xenstore transaction, and then stays as a daemon *)
(* that waits for the domain's death and reaps, renames or restarts it.    *)
(* Other processes rename, save, pause and destroy domains beside it.      *)
(***************************************************************************)
EXTENDS XlProcesses, FiniteSets

CONSTANTS
  NoProc,     \* nobody holds the lock file
  DomNames,   \* names in configuration files and on command lines
  Stamps,     \* the minutes libxl_domain_preserve appends to a name
  NoName,     \* a domain that has no name yet
  Configs,    \* [poweroff, reboot, crash |-> the action on such a shutdown]
  MaxDomid    \* bound: domains ever made; then making one fails

ASSUME XlAssumption ==
  /\ NoProc \notin Procs /\ NoName \notin DomNames
  /\ MaxDomid \in Nat /\ MaxCalls \in Nat

VARIABLES
  dom,        \* the domains: Xen's and xenstore's view of each
  lock,       \* the one that holds the lock file
  trans,      \* each process's transaction: "none", "open", or "stale"
  watched,    \* the processes with a watch on @releaseDomain
  pending,    \* those with an event to read
  file,       \* the save file
  left        \* the domains nobody is meant to wait for any more

domainsVars == <<dom, proc, lock, trans, watched, pending, file, left, calls>>

DomIds == 1 .. MaxDomid
Reasons == {"poweroff", "reboot", "crash"}
AllNames == DomNames \cup (DomNames \X Stamps) \cup {NoName}
Actions == {"destroy", "restart", "rename-restart", "preserve", "coredump-destroy", "coredump-restart"}

NoFile == [name |-> NoName, config |-> CHOOSE c \in Configs : TRUE]
\* create_domain reads the header and the configuration that main_save wrote.
FileReads == file.name # NoName

DomainsIdle == [pc |-> "idle", what |-> "none", id |-> 0, name |-> NoName, new |-> NoName,
                config |-> NoFile.config, restores |-> FALSE, read |-> FALSE, paused |-> FALSE,
                daemon |-> FALSE]

DomainsInit ==
  /\ dom = [i \in DomIds |-> [state |-> "none", why |-> "none", name |-> NoName]]
  /\ proc = [p \in Procs |-> DomainsIdle]
  /\ lock = NoProc
  /\ trans = [p \in Procs |-> "none"]
  /\ watched = {} /\ pending = {} /\ left = {}
  /\ file = NoFile
  /\ calls = 0

Alive(i) == i \in DomIds /\ dom[i].state \in {"paused", "running", "dead"}
Gone == [state |-> "gone", why |-> "none", name |-> NoName]

\* find_domain, libxl_name_to_domid.
Find(n) == {i \in DomIds : Alive(i) /\ dom[i].name = n}

\* xenstored: a transaction during which another connection wrote does not
\* commit.
StoreWritten(p) ==
  trans' = [q \in Procs |-> IF q = p THEN "none" ELSE IF trans[q] = "open" THEN "stale" ELSE trans[q]]

\* @releaseDomain, when a domain shuts down and when it goes.
Released == pending' = pending \cup watched

\* libxl_domain_destroy: the store's entry goes, and the domain.
DomainDestroy(i, p) ==
  IF Alive(i) THEN dom' = [dom EXCEPT ![i] = Gone] /\ StoreWritten(p) /\ Released
  ELSE trans' = [trans EXCEPT ![p] = "none"] /\ UNCHANGED <<dom, pending>>

Exit(p) == proc' = [proc EXCEPT ![p] = DomainsIdle] /\ watched' = watched \ {p}

(***************************************************************************)
(* create_domain.                                                          *)
(***************************************************************************)
\* main_create, main_restore: the configuration is parsed; a restored domain's
\* comes from the save file.
StartCreate(p) ==
  /\ proc[p].pc = "idle" /\ Given
  /\ \E n \in DomNames, c \in Configs, pause, stay \in BOOLEAN :
       Go(p, [DomainsIdle EXCEPT !.pc = "lock", !.name = n, !.config = c, !.paused = pause, !.daemon = stay])
  /\ UNCHANGED <<dom, lock, trans, watched, pending, file, left>>

StartRestore(p) ==
  /\ proc[p].pc = "idle" /\ Given
  /\ FileReads
  /\ \E pause, stay \in BOOLEAN :
       Go(p, [DomainsIdle EXCEPT !.pc = "lock", !.name = file.name, !.config = file.config,
                                 !.restores = TRUE, !.paused = pause, !.daemon = stay])
  /\ UNCHANGED <<dom, lock, trans, watched, pending, file, left>>

AcquireLock(p) ==
  /\ proc[p].pc = "lock" /\ lock = NoProc
  /\ lock' = p
  /\ Go(p, [proc[p] EXCEPT !.pc = "make", !.id = 0])
  /\ UNCHANGED <<dom, trans, watched, pending, file, left, calls>>

\* error_out: the lock is given up, and what there is of the domain destroyed.
ErrorOut(p) ==
  /\ lock' = NoProc
  /\ DomainDestroy(proc[p].id, p)
  /\ Exit(p)
  /\ UNCHANGED <<file, left, calls>>

\* No memory, or libxl_domain_create_new and _restore fail.  What a save file
\* held has been read once.
MakeFails(p) == proc[p].pc \in {"make", "built"} /\ ErrorOut(p)

MakeDomain(p) ==
  /\ proc[p].pc = "make"
  /\ ~proc[p].read
  /\ \E i \in DomIds :
       /\ dom[i].state = "none" /\ \A j \in DomIds : dom[j].state = "none" => i <= j
       /\ dom' = [dom EXCEPT ![i] = [state |-> "paused", why |-> "none", name |-> NoName]]
       /\ Go(p, [proc[p] EXCEPT !.pc = "check", !.what = "make", !.id = i, !.new = proc[p].name,
                                !.read = proc[p].restores])
  /\ UNCHANGED <<lock, trans, watched, pending, file, left, calls>>

\* libxl_userdata_store, release_lock.
Built(p) ==
  /\ proc[p].pc = "built"
  /\ lock' = NoProc
  /\ Go(p, [proc[p] EXCEPT !.pc = "unpause"])
  /\ UNCHANGED <<dom, trans, watched, pending, file, left, calls>>

\* libxl_domain_unpause; without a daemon this was all.
Unpause(p) ==
  /\ proc[p].pc = "unpause"
  /\ dom' = IF ~proc[p].paused /\ dom[proc[p].id].state = "paused"
              THEN [dom EXCEPT ![proc[p].id].state = "running"] ELSE dom
  /\ IF proc[p].daemon
       THEN Go(p, [proc[p] EXCEPT !.pc = "watch"]) /\ UNCHANGED <<watched, left>>
       ELSE Exit(p) /\ left' = left \cup {proc[p].id}
  /\ UNCHANGED <<lock, trans, pending, file, calls>>

\* A bug: the watch is set without the event that comes with it.
WatchQuietly(p) ==
  /\ proc[p].pc = "watch"
  /\ watched' = watched \cup {p}
  /\ Go(p, [proc[p] EXCEPT !.pc = "wait"])
  /\ UNCHANGED <<dom, lock, trans, pending, file, left, calls>>

\* libxl_wait_for_domain_death: xenstored sends the first event at once.  After
\* a restart the watch is still there, and setting it again fails unnoticed.
Watch(p) ==
  /\ proc[p].pc = "watch"
  /\ watched' = watched \cup {p}
  /\ pending' = pending \cup ({p} \ watched)
  /\ Go(p, [proc[p] EXCEPT !.pc = "wait"])
  /\ UNCHANGED <<dom, lock, trans, file, left, calls>>

\* libxl_get_event, libxl_event_get_domain_death_info: not this domain's death.
OtherEvent(p) ==
  /\ proc[p].pc = "wait" /\ p \in pending
  /\ pending' = pending \ {p}
  /\ IF Alive(proc[p].id) THEN dom[proc[p].id].state # "dead" /\ UNCHANGED <<proc, watched>>
     ELSE Exit(p)
  /\ UNCHANGED <<dom, lock, trans, file, left, calls>>

\* handle_domain_death: what the configuration says of this way to die; one
\* that is suspended is left alone.
DeathAction(p) ==
  LET why == dom[proc[p].id].why
      action == IF why = "suspend" THEN "preserve" ELSE proc[p].config[why]
  IN  CASE action = "coredump-destroy" -> "destroy"
        [] action = "coredump-restart" -> "restart"
        [] OTHER -> action

Dies(p) == proc[p].pc = "wait" /\ p \in pending /\ Alive(proc[p].id) /\ dom[proc[p].id].state = "dead"

\* Suspended, or to be preserved: the daemon ends.
DeathLeaves(p) ==
  /\ Dies(p)
  /\ DeathAction(p) = "preserve"
  /\ left' = left \cup {proc[p].id}
  /\ pending' = pending \ {p}
  /\ Exit(p)
  /\ UNCHANGED <<dom, lock, trans, file, calls>>

\* The domain is destroyed, and made again or not.
DeathDestroys(p) ==
  /\ Dies(p)
  /\ DeathAction(p) \in {"destroy", "restart"}
  /\ dom' = [dom EXCEPT ![proc[p].id] = Gone]
  /\ StoreWritten(p)
  /\ IF DeathAction(p) = "restart"
       THEN /\ Go(p, [proc[p] EXCEPT !.pc = "lock", !.paused = FALSE])
            /\ pending' = pending \cup watched
            /\ UNCHANGED watched
       ELSE Exit(p) /\ pending' = (pending \cup watched) \ {p}
  /\ UNCHANGED <<lock, file, left, calls>>

\* preserve_domain, in a transaction of its own.
DeathRenames(p) ==
  /\ Dies(p)
  /\ DeathAction(p) = "rename-restart"
  /\ pending' = pending \ {p}
  /\ \E k \in Stamps : Go(p, [proc[p] EXCEPT !.pc = "check", !.what = "preserve", !.new = <<proc[p].name, k>>])
  /\ UNCHANGED <<dom, lock, trans, watched, file, left, calls>>

(***************************************************************************)
(* libxl_domain_rename, in making a domain, in preserving one, and alone.  *)
(***************************************************************************)
\* The name the caller says the domain has.
OldName(p) == IF proc[p].what = "make" THEN NoName ELSE proc[p].name

\* The transaction is open; the names are read outside of it.
RenameChecks(p) ==
  /\ proc[p].pc = "check"
  /\ Alive(proc[p].id) /\ Find(proc[p].new) \subseteq {proc[p].id}
  /\ dom[proc[p].id].name = OldName(p)
  /\ trans' = [trans EXCEPT ![p] = "open"]
  /\ Go(p, [proc[p] EXCEPT !.pc = "commit"])
  /\ UNCHANGED <<dom, lock, watched, pending, file, left, calls>>

\* The name is taken, or the domain has another or is gone.  When preserving
\* fails the old domain is left in place.
RenameRefused(p) ==
  /\ proc[p].pc = "check"
  /\ ~Alive(proc[p].id) \/ ~(Find(proc[p].new) \subseteq {proc[p].id}) \/ dom[proc[p].id].name # OldName(p)
  /\ IF proc[p].what = "make" THEN ErrorOut(p)
     ELSE /\ Exit(p)
          /\ left' = IF proc[p].what = "preserve" THEN left \cup {proc[p].id} ELSE left
          /\ trans' = [trans EXCEPT ![p] = "none"]
          /\ pending' = pending \ {p}
          /\ UNCHANGED <<dom, lock, file, calls>>

Committed(p) ==
  /\ StoreWritten(p)
  /\ dom' = IF Alive(proc[p].id) THEN [dom EXCEPT ![proc[p].id].name = proc[p].new] ELSE dom
  /\ CASE proc[p].what = "make" -> Go(p, [proc[p] EXCEPT !.pc = "built"]) /\ UNCHANGED <<watched, left>>
       [] proc[p].what = "preserve" ->
            /\ Go(p, [proc[p] EXCEPT !.pc = "lock", !.paused = FALSE])
            /\ left' = left \cup {proc[p].id}
            /\ UNCHANGED watched
       [] proc[p].what = "rename" -> Exit(p) /\ UNCHANGED left
  /\ UNCHANGED <<lock, pending, file, calls>>

\* A bug: the new name is written whatever else was written meanwhile.
RenameCommitsStale(p) == proc[p].pc = "commit" /\ Committed(p)

RenameCommits(p) == proc[p].pc = "commit" /\ trans[p] = "open" /\ Committed(p)

\* EAGAIN: "need to retry rename transaction", from the check on.
RenameRetries(p) ==
  /\ proc[p].pc = "commit" /\ trans[p] = "stale"
  /\ trans' = [trans EXCEPT ![p] = "none"]
  /\ Go(p, [proc[p] EXCEPT !.pc = "check"])
  /\ UNCHANGED <<dom, lock, watched, pending, file, left, calls>>

\* main_rename.
StartRename(p) ==
  /\ proc[p].pc = "idle" /\ Given
  /\ \E i \in DomIds, n \in DomNames :
       /\ Alive(i) /\ dom[i].name # NoName
       /\ Go(p, [DomainsIdle EXCEPT !.pc = "check", !.what = "rename", !.id = i, !.name = dom[i].name, !.new = n])
  /\ UNCHANGED <<dom, lock, trans, watched, pending, file, left>>

(***************************************************************************)
(* save_domain.                                                            *)
(***************************************************************************)
\* The configuration is the one in the store, or another file.
StartSave(p) ==
  /\ proc[p].pc = "idle" /\ Given
  /\ \E i \in DomIds, c \in Configs, checkpoint \in BOOLEAN :
       /\ Alive(i) /\ dom[i].name \in DomNames
       /\ Go(p, [DomainsIdle EXCEPT !.pc = "suspend", !.id = i, !.name = dom[i].name, !.config = c,
                                    !.what = IF checkpoint THEN "checkpoint" ELSE "save"])
  /\ UNCHANGED <<dom, lock, trans, watched, pending, file, left>>

\* libxl_domain_suspend.
SaveSuspends(p) ==
  /\ proc[p].pc = "suspend"
  /\ dom[proc[p].id].state = "running"
  /\ dom' = [dom EXCEPT ![proc[p].id].state = "dead", ![proc[p].id].why = "suspend"]
  /\ file' = [name |-> proc[p].name, config |-> proc[p].config]
  /\ Released
  /\ Go(p, [proc[p] EXCEPT !.pc = "suspended"])
  /\ UNCHANGED <<lock, trans, watched, left, calls>>

SaveFails(p) ==
  /\ proc[p].pc = "suspend"
  /\ file' = NoFile
  /\ Exit(p)
  /\ UNCHANGED <<dom, lock, trans, pending, left, calls>>

\* A checkpointed domain is unpaused, which it never was paused for.
SaveEnds(p) ==
  /\ proc[p].pc = "suspended"
  /\ IF proc[p].what = "checkpoint" THEN left' = left \cup {proc[p].id} /\ UNCHANGED <<dom, trans, pending>>
     ELSE DomainDestroy(proc[p].id, p) /\ UNCHANGED left
  /\ Exit(p)
  /\ UNCHANGED <<lock, file, calls>>

(***************************************************************************)
(* Short commands, guests, and xl killed.                                  *)
(***************************************************************************)
PauseDomain ==
  /\ Given
  /\ \E i \in DomIds : dom[i].state = "running" /\ dom' = [dom EXCEPT ![i].state = "paused"]
  /\ UNCHANGED <<proc, lock, trans, watched, pending, file, left>>
UnpauseDomain ==
  /\ Given
  /\ \E i \in DomIds : dom[i].state = "paused" /\ dom' = [dom EXCEPT ![i].state = "running"]
  /\ UNCHANGED <<proc, lock, trans, watched, pending, file, left>>

DestroyDomain ==
  /\ Given
  /\ \E i \in DomIds : Alive(i) /\ dom[i].name # NoName /\ dom' = [dom EXCEPT ![i] = Gone]
  /\ StoreWritten(NoProc) /\ Released
  /\ UNCHANGED <<proc, lock, watched, file, left>>

\* The guest stops: by itself, or asked to by xl shutdown and xl reboot.
GuestStops ==
  /\ \E i \in DomIds, why \in Reasons :
       dom[i].state = "running" /\ dom' = [dom EXCEPT ![i].state = "dead", ![i].why = why]
  /\ Released
  /\ UNCHANGED <<proc, lock, trans, watched, file, left, calls>>

\* The kernel drops the lock, xenstored the transaction and the watch.
Killed(p) ==
  /\ proc[p].pc # "idle" /\ Given
  /\ lock' = IF lock = p THEN NoProc ELSE lock
  /\ trans' = [trans EXCEPT ![p] = "none"]
  /\ pending' = pending \ {p}
  /\ left' = left \cup ({proc[p].id} \cap DomIds)
  /\ Exit(p)
  /\ UNCHANGED <<dom, file>>

DomainsGo(p) ==
  \/ AcquireLock(p) \/ MakeDomain(p) \/ MakeFails(p) \/ Built(p) \/ Unpause(p) \/ Watch(p)
  \/ OtherEvent(p) \/ DeathLeaves(p) \/ DeathDestroys(p) \/ DeathRenames(p)
  \/ RenameChecks(p) \/ RenameRefused(p) \/ RenameCommits(p) \/ RenameRetries(p)
  \/ SaveSuspends(p) \/ SaveFails(p) \/ SaveEnds(p)

DomainsNext ==
  \/ \E p \in Procs :
       \/ DomainsGo(p) \/ Killed(p)
       \/ StartCreate(p) \/ StartRestore(p) \/ StartRename(p) \/ StartSave(p)
  \/ PauseDomain \/ UnpauseDomain \/ DestroyDomain \/ GuestStops

DomainsSpec == DomainsInit /\ [][DomainsNext]_domainsVars

\* xl is scheduled; nothing is assumed of guests and users.
DomainsFairSpec == DomainsSpec /\ \A p \in Procs : WF_domainsVars(DomainsGo(p))

(***************************************************************************)
(* Properties.                                                             *)
(***************************************************************************)
\* "nonempty names must be unique" (libxl_domain_rename), although the lock
\* file is not taken to rename and to preserve, and names are read outside the
\* transaction.
NamesDistinct ==
  \A i, j \in DomIds :
    i # j /\ Alive(i) /\ Alive(j) /\ dom[i].name # NoName => dom[i].name # dom[j].name

\* A dead domain does not stay, however its death, its name's change and its
\* daemon's watch overlap: it is destroyed, or left alone by handle_domain_death
\* or by a daemon that was killed.
DeadIsReaped == \A i \in DomIds : dom[i].state = "dead" ~> dom[i].state # "dead" \/ i \in left

\* "Leave domain running after creating the snapshot."
CheckpointRuns ==
  [][\A p \in Procs :
       SaveEnds(p) /\ proc[p].what = "checkpoint" /\ Alive(proc[p].id)
         => dom'[proc[p].id].state = "running"]_domainsVars
=============================================================================
