--------------------------- MODULE LibxlMigration ---------------------------
(***************************************************************************)
(* Migration in the libxl driver (libxl_driver.c, libxlDomainMigrate*3):   *)
(* clients call Begin3 and Perform3 on the source, Prepare3 and Finish3 on *)
(* the target and Confirm3 on the source; on the target a thread of its    *)
(* own accepts the connection and starts the guest from what it receives.  *)
(*                                                                         *)
(* A step is the code from taking the driver lock of a host to giving it   *)
(* back.  Job slots are those of module JobSlots: here only the one        *)
(* asynchronous job matters, which every migration of the guest needs.     *)
(***************************************************************************)
EXTENDS Integers

CONSTANTS
  Clients,      \* clients that migrate the guest, each once
  PausedFlags,  \* values of VIR_MIGRATE_PAUSED they pass
  MaxKills      \* bound: guests that die or are destroyed

ASSUME MigrationAssumption ==
  /\ "no job" \notin Clients
  /\ PausedFlags \subseteq BOOLEAN
  /\ MaxKills \in Nat

VARIABLES
  obj,      \* obj[h]: the domain object on host h, a record of Objects
  guest,    \* guest[h]: the Xen domain on host h
  up,       \* up[h]: the daemon of host h runs
  locked,   \* the target's driver lock was never given back
  call,     \* call[c]: the call client c makes next
  paused,   \* paused[c]: it passed VIR_MIGRATE_PAUSED
  cancelled,\* cancelled[c]: what it tells Finish3 and Confirm3
  recv,     \* recv[c]: the thread Prepare3 started for it
  stream,   \* stream[c]: the connection between Perform3 and that thread
  maker,    \* the client whose thread made the Xen domain on the target
  dangling, \* clients whose Prepare3 or thread has an object that left the list
  orphans,  \* for each object that left it with no job: the clients that wait for one
  kills     \* guests that died or were destroyed

\* Auxiliary: what the properties except has happened.
VARIABLES
  overtook, \* a Finish3 was ahead of the thread, which had all it needs
  orphaned, \* a Prepare3 was given the job of an object that had left the list
  unreaped, \* a Finish3 could not destroy the guest
  refused   \* libxl_domain_resume failed on the source

vars == <<obj, guest, up, locked, call, paused, cancelled, recv, stream,
          maker, dangling, orphans, kills, overtook, orphaned, unreaped, refused>>
hosts == <<obj, guest, up, locked>>
client == <<call, paused, cancelled>>
objects == <<dangling, orphans>>
threads == <<recv, maker, objects>>
history == <<kills, overtook, orphaned, unreaped, refused>>

Hosts == {"source", "target"}
NoJob == "no job"

Objects ==
  [listed : BOOLEAN,              \* the host's domain list holds it
   persistent : BOOLEAN,          \* vm->persistent
   active : BOOLEAN,              \* vm->def->id is not -1
   job : Clients \cup {NoJob}]    \* whose asynchronous job runs on it

Guests == {"none", "receiving", "running", "suspended", "paused", "dead"}
Calls == {"begin", "prepare", "assigned", "granted", "perform", "sending", "finish", "confirm", "done"}

\* The domain vm->def->id exists: an object that was reaped may keep the number.
Exists(h) == obj[h].active /\ guest[h] \notin {"none", "receiving"}

\* What libxlVmReap leaves of object o: a transient one keeps its number.
Cleanup(o) == [o EXCEPT !.active = @ /\ ~o.persistent]

EndJob(o) == [o EXCEPT !.job = NoJob]
Unlist(o) == [o EXCEPT !.listed = FALSE, !.active = FALSE]
Transient == [listed |-> TRUE, persistent |-> FALSE, active |-> FALSE, job |-> NoJob]

\* Prepare3 of client c waits for the job of its object, or has it.
Preparing(c) == call[c] \in {"assigned", "granted"}

\* Whose object it is that host h takes off its list.  A reference keeps it only from
\* those that wait for its job; the others' pointers dangle.
Freed(h, o) ==
  IF h = "target" /\ ~o.listed
    THEN {c \in Clients :
            Preparing(c) \/ recv[c] \in {"accept", "restore", "made", "saving"}} \ dangling
    ELSE {}

\* Host h goes on with object o; if that left the list, one of those that wait for its
\* job may still be given it.
SetObj(h, o) ==
  /\ obj' = [obj EXCEPT ![h] = o]
  /\ dangling' = dangling \cup Freed(h, o)
  /\ orphans' =
       LET waiting == {c \in Freed(h, o) : call[c] = "assigned"}
       IN  IF waiting # {} /\ o.job = NoJob THEN orphans \cup {waiting} ELSE orphans

Init ==
  /\ \E here \in BOOLEAN, there \in BOOLEAN :
       obj = [h \in Hosts |->
                [listed |-> h = "source" \/ there,
                 persistent |-> IF h = "source" THEN here ELSE there,
                 active |-> h = "source", job |-> NoJob]]
  /\ guest = [h \in Hosts |-> IF h = "source" THEN "running" ELSE "none"]
  /\ up = [h \in Hosts |-> TRUE]
  /\ locked = FALSE
  /\ call = [c \in Clients |-> "begin"]
  /\ paused \in [Clients -> PausedFlags]
  /\ cancelled = [c \in Clients |-> FALSE]
  /\ recv = [c \in Clients |-> "none"]
  /\ stream = [c \in Clients |-> "none"]
  /\ maker = NoJob
  /\ dangling = {}
  /\ orphans = {}
  /\ kills = 0
  /\ overtook = FALSE
  /\ orphaned = FALSE
  /\ unreaped = FALSE
  /\ refused = FALSE

\* What client c does after this call, and what it tells the next one.
Then(c, next, cancel) ==
  /\ call' = [call EXCEPT ![c] = next]
  /\ cancelled' = [cancelled EXCEPT ![c] = cancel]
  /\ UNCHANGED paused

\* The client goes on to Confirm3, but not after an error of Perform3.
AfterFinish(c, failed) ==
  Then(c, IF cancelled[c] THEN "done" ELSE "confirm", cancelled[c] \/ failed)

\* The daemon of host h runs, and can take its driver lock.
Usable(h) == up[h] /\ (h = "target" => ~locked)

HostOf(what) == IF what \in {"prepare", "assigned", "granted", "finish"} THEN "target" ELSE "source"

\* Client c calls a daemon that is down: an error for it.
CallFails(c) ==
  /\ call[c] # "done" /\ ~up[HostOf(call[c])]
  /\ CASE call[c] \in {"perform", "sending"} -> Then(c, "finish", TRUE)
       [] call[c] = "finish" -> AfterFinish(c, TRUE)
       [] OTHER -> Then(c, "done", cancelled[c])
  /\ stream' = [stream EXCEPT ![c] = IF call[c] = "sending" THEN "broken" ELSE @]
  /\ UNCHANGED <<hosts, threads, history>>

(***************************************************************************)
(* Source: Begin3, Perform3, Confirm3.                                     *)
(***************************************************************************)
\* A bug: a client migrates although it never got the job.
MigrateBegin3NoJob(c) ==
  /\ call[c] = "begin" /\ Usable("source")
  /\ \/ /\ obj["source"].listed /\ obj["source"].active
        /\ obj' = [obj EXCEPT !["source"].job = c]
        /\ Then(c, "prepare", FALSE)
     \/ /\ Then(c, "done", FALSE)
        /\ UNCHANGED obj
  /\ UNCHANGED <<guest, up, locked, stream, threads, history>>

\* Begin3: the job starts, if no other runs; a domain that is off, or whose new
\* definition does not parse, ends it again.
MigrateBegin3(c) ==
  /\ call[c] = "begin" /\ Usable("source")
  /\ \/ /\ obj["source"].listed /\ obj["source"].job = NoJob /\ obj["source"].active
        /\ obj' = [obj EXCEPT !["source"].job = c]
        /\ Then(c, "prepare", FALSE)
     \/ /\ Then(c, "done", FALSE)
        /\ UNCHANGED obj
  /\ UNCHANGED <<guest, up, locked, stream, threads, history>>

\* Perform3's error exit before it has a connection.  Of a domain that is not on
\* the list it ends the job at NULL; and it frees a socket it may never have set.
PerformError(c) ==
  /\ call[c] = "perform" /\ Usable("source")
  /\ \/ /\ obj["source"].listed
        /\ obj' = [obj EXCEPT !["source"] = EndJob(@)]
        /\ UNCHANGED up
     \/ /\ up' = [up EXCEPT !["source"] = FALSE]
        /\ UNCHANGED obj
  /\ Then(c, "finish", TRUE)
  /\ UNCHANGED <<guest, locked, stream, threads, history>>

\* Perform3 connects, and lets both locks go for libxl_domain_suspend.
PerformConnects(c) ==
  /\ call[c] = "perform" /\ Usable("source")
  /\ obj["source"].listed
  /\ stream[c] = "listening"
  /\ stream' = [stream EXCEPT ![c] = "connected"]
  /\ Then(c, "sending", FALSE)
  /\ UNCHANGED <<hosts, threads, history>>

\* doMigrateSend: the guest was saved into the connection and stays suspended.
\* Nothing is read back from the target.
MigrateSent(c) ==
  /\ call[c] = "sending" /\ Usable("source")
  /\ Exists("source") /\ guest["source"] \in {"running", "suspended"}
  /\ stream[c] = "connected"
  /\ guest' = [guest EXCEPT !["source"] = "suspended"]
  /\ stream' = [stream EXCEPT ![c] = "sent"]
  /\ Then(c, "finish", FALSE)
  /\ UNCHANGED <<obj, up, locked, threads, history>>

\* ... failed, before or after it suspended the guest, which is not resumed;
\* Perform3 ends the job.
MigrateSendFails(c) ==
  /\ call[c] = "sending" /\ Usable("source")
  /\ guest' \in {guest} \cup
                (IF Exists("source") /\ guest["source"] = "running"
                   THEN {[guest EXCEPT !["source"] = "suspended"]} ELSE {})
  /\ stream' = [stream EXCEPT ![c] = "broken"]
  /\ obj' = [obj EXCEPT !["source"] = EndJob(@)]
  /\ Then(c, "finish", TRUE)
  /\ UNCHANGED <<up, locked, threads, history>>

\* Confirm3 of a cancelled migration resumes the guest and keeps the job.
ConfirmCancelled(c) ==
  /\ call[c] = "confirm" /\ Usable("source")
  /\ cancelled[c]
  /\ IF Exists("source")
       THEN \/ guest' = [guest EXCEPT !["source"] = IF @ = "suspended" THEN "running" ELSE @]
               /\ UNCHANGED refused
            \/ UNCHANGED guest /\ refused' = TRUE
       ELSE UNCHANGED <<guest, refused>>
  /\ Then(c, "done", TRUE)
  /\ UNCHANGED <<obj, up, locked, stream, threads, kills, overtook, orphaned, unreaped>>

\* Confirm3 of one that went through reaps the source and, if that succeeds, ends the
\* job; if not it leaves all as it was.
ConfirmMoved(c) ==
  /\ call[c] = "confirm" /\ Usable("source")
  /\ ~cancelled[c]
  /\ \/ /\ obj["source"].listed /\ Exists("source")
        /\ guest' = [guest EXCEPT !["source"] = "none"]
        /\ \E undefine \in BOOLEAN :
             obj' = [obj EXCEPT !["source"] =
                       IF ~@.persistent \/ undefine
                         THEN Unlist(EndJob(@)) ELSE EndJob(Cleanup(@))]
     \/ UNCHANGED <<obj, guest>>
  /\ Then(c, "done", FALSE)
  /\ UNCHANGED <<up, locked, stream, threads, history>>

(***************************************************************************)
(* Target: Prepare3, the receiving thread, Finish3.                        *)
(***************************************************************************)
\* Prepare3 as far as its wait for the job, in which the driver lock is given up: the
\* object of that name, unless it runs, or a new one.
MigratePrepare3(c) ==
  /\ call[c] = "prepare" /\ Usable("target")
  /\ ~(obj["target"].listed /\ obj["target"].active)
  /\ obj' = IF obj["target"].listed THEN obj ELSE [obj EXCEPT !["target"] = Transient]
  /\ Then(c, "assigned", FALSE)
  /\ UNCHANGED <<guest, up, locked, stream, threads, history>>

\* The job is granted: of the object that was looked up before the wait, which another
\* client's Finish3 may have taken off the list.  Nothing is looked at again.
PrepareGranted(c) ==
  /\ call[c] = "assigned" /\ Usable("target")
  /\ \/ /\ c \notin dangling /\ obj["target"].job = NoJob
        /\ obj' = [obj EXCEPT !["target"].job = c]
        /\ UNCHANGED <<orphans, orphaned>>
     \/ /\ \E waiting \in orphans : c \in waiting /\ orphans' = orphans \ {waiting}
        /\ orphaned' = TRUE
        /\ UNCHANGED obj
  /\ Then(c, "granted", FALSE)
  /\ UNCHANGED <<guest, up, locked, stream, recv, maker, dangling, kills, overtook, unreaped, refused>>

\* With the driver lock again: a listening socket, and the thread.
PrepareListens(c) ==
  /\ call[c] = "granted" /\ Usable("target")
  /\ recv' = [recv EXCEPT ![c] = "accept"]
  /\ stream' = [stream EXCEPT ![c] = "listening"]
  /\ Then(c, "perform", FALSE)
  /\ UNCHANGED <<hosts, maker, objects, history>>

\* Its error exits give neither lock back: a guest of that name runs, the wait for
\* the job timed out, no port is free, when the job is ended.
MigratePrepare3Fails(c) ==
  /\ call[c] \in {"prepare", "assigned", "granted"} /\ Usable("target")
  /\ locked' = TRUE
  /\ obj' = IF call[c] = "granted" /\ c \notin dangling
              THEN [obj EXCEPT !["target"] = EndJob(@)] ELSE obj
  /\ Then(c, "done", FALSE)
  /\ UNCHANGED <<guest, up, stream, threads, history>>

\* doMigrateReceive: accept returns.  The thread gives back two locks it does not
\* hold: a driver lock that was left behind is free again.
ReceiveAccepts(c) ==
  /\ up["target"]
  /\ recv[c] = "accept"
  /\ stream[c] \in {"connected", "sent", "broken"}
  /\ locked' = FALSE
  /\ \/ /\ guest["target"] = "none"  \* libxl refuses a second domain of that name
        /\ recv' = [recv EXCEPT ![c] = "restore"]
        /\ guest' = [guest EXCEPT !["target"] = "receiving"]
        /\ maker' = c
        /\ UNCHANGED stream
     \/ /\ recv' = [recv EXCEPT ![c] = "failed"]
        /\ stream' = [stream EXCEPT ![c] = "broken"]
        /\ UNCHANGED <<guest, maker>>
  /\ UNCHANGED <<obj, up, client, objects, history>>

\* The thread writes to its object, or to the memory where that was.
Writes(c, active) ==
  obj' = [obj EXCEPT !["target"].active = IF c \in dangling THEN @ ELSE active]

\* libxlVmStart, without locks: the domain is restored and vm->def->id is set.
ReceiveMade(c) ==
  /\ up["target"]
  /\ recv[c] = "restore" /\ stream[c] = "sent" /\ guest["target"] = "receiving"
  /\ recv' = [recv EXCEPT ![c] = "made"]
  /\ guest' = [guest EXCEPT !["target"] = "paused"]
  /\ Writes(c, TRUE)
  /\ UNCHANGED <<up, locked, client, stream, maker, objects, history>>

\* ... its event handle is registered and it is unpaused, whatever the flags say.
ReceiveUnpauses(c) ==
  /\ up["target"]
  /\ recv[c] = "made"
  /\ recv' = [recv EXCEPT ![c] = "saving"]
  /\ guest' = [guest EXCEPT !["target"] = IF @ = "paused" /\ maker = c THEN "running" ELSE @]
  /\ UNCHANGED <<obj, up, locked, client, stream, maker, objects, history>>

\* ... its status is saved.
ReceiveEnds(c) ==
  /\ up["target"]
  /\ recv[c] = "saving"
  /\ recv' = [recv EXCEPT ![c] = "done"]
  /\ UNCHANGED <<hosts, client, stream, maker, objects, history>>

\* ... an error anywhere in it destroys what was made.
ReceiveFails(c) ==
  /\ up["target"]
  /\ recv[c] \in {"restore", "made", "saving"}
  /\ recv' = [recv EXCEPT ![c] = "failed"]
  /\ stream' = [stream EXCEPT ![c] = IF @ = "sent" THEN @ ELSE "broken"]
  /\ guest' = [guest EXCEPT !["target"] = IF maker = c THEN "none" ELSE @]
  /\ IF recv[c] = "restore" THEN UNCHANGED obj ELSE Writes(c, FALSE)
  /\ UNCHANGED <<up, locked, client, maker, objects, history>>

\* Finish3's clean-up: the job ends, and an object that is neither persistent nor
\* active leaves the list.
FinishCleanup(o) == IF o.persistent \/ o.active THEN EndJob(o) ELSE Unlist(EndJob(o))

Overtakes(c) == stream[c] = "sent" /\ recv[c] \in {"accept", "restore", "made", "saving"}

\* A bug: the error exit after a failed virDomainSaveStatus leaves the guest running.
FinishFailedKept(c) ==
  /\ call[c] = "finish" /\ Usable("target")
  /\ obj["target"].listed
  /\ cancelled[c] \/ ~paused[c]
  /\ AfterFinish(c, TRUE)
  /\ overtook' = (overtook \/ Overtakes(c))
  /\ SetObj("target", EndJob(obj["target"]))
  /\ UNCHANGED <<guest, up, locked, stream, recv, maker, kills, orphaned, unreaped, refused>>

\* Finish3 when the client cancelled, or when the guest could not be unpaused, or its
\* status not saved: the guest is reaped, or cannot be and is left as it is.
FinishFailed(c) ==
  /\ call[c] = "finish" /\ Usable("target")
  /\ obj["target"].listed
  /\ cancelled[c] \/ ~paused[c]
  /\ AfterFinish(c, TRUE)
  /\ overtook' = (overtook \/ Overtakes(c))
  /\ \/ /\ Exists("target")
        /\ guest' = [guest EXCEPT !["target"] = "none"]
        /\ SetObj("target", FinishCleanup(Cleanup(obj["target"])))
        /\ UNCHANGED unreaped
     \/ /\ SetObj("target", FinishCleanup(obj["target"]))
        /\ unreaped' = (unreaped \/ Exists("target"))
        /\ UNCHANGED guest
  /\ UNCHANGED <<up, locked, stream, recv, maker, kills, orphaned, refused>>

\* A bug: what libxl_domain_unpause returns is not looked at.
FinishMovedUnchecked(c) ==
  /\ call[c] = "finish" /\ Usable("target")
  /\ obj["target"].listed
  /\ ~cancelled[c]
  /\ AfterFinish(c, FALSE)
  /\ overtook' = (overtook \/ Overtakes(c))
  /\ guest' = [guest EXCEPT !["target"] = IF ~paused[c] /\ @ = "paused" THEN "running" ELSE @]
  /\ SetObj("target", FinishCleanup(obj["target"]))
  /\ UNCHANGED <<up, locked, stream, recv, maker, kills, orphaned, unreaped, refused>>

\* Finish3 of a migration that went through: the guest is unpaused.  With
\* VIR_MIGRATE_PAUSED nothing is asked of the hypervisor.
FinishMoved(c) ==
  /\ call[c] = "finish" /\ Usable("target")
  /\ obj["target"].listed
  /\ ~cancelled[c] /\ (paused[c] \/ Exists("target"))
  /\ AfterFinish(c, FALSE)
  /\ overtook' = (overtook \/ Overtakes(c))
  /\ guest' = [guest EXCEPT !["target"] = IF ~paused[c] /\ @ = "paused" THEN "running" ELSE @]
  /\ SetObj("target", FinishCleanup(obj["target"]))
  /\ UNCHANGED <<up, locked, stream, recv, maker, kills, orphaned, unreaped, refused>>

\* Finish3 finds no object of that name, and ends its job at NULL.
FinishNotFound(c) ==
  /\ call[c] = "finish" /\ Usable("target")
  /\ ~obj["target"].listed
  /\ up' = [up EXCEPT !["target"] = FALSE]
  /\ AfterFinish(c, TRUE)
  /\ UNCHANGED <<obj, guest, locked, stream, threads, history>>

(***************************************************************************)
(* What else happens to the guest.                                         *)
(***************************************************************************)
\* It stops by itself.
Die(h) ==
  /\ kills < MaxKills
  /\ guest[h] = "running"
  /\ guest' = [guest EXCEPT ![h] = "dead"]
  /\ kills' = kills + 1
  /\ UNCHANGED <<obj, up, locked, client, stream, threads, overtook, orphaned, unreaped, refused>>

\* The driver reaps the guest of host h; a transient object leaves the list.
Reaped(h) ==
  /\ Usable(h)
  /\ guest' = [guest EXCEPT ![h] = "none"]
  /\ SetObj(h, IF obj[h].persistent THEN Cleanup(obj[h]) ELSE Unlist(obj[h]))
  /\ UNCHANGED <<up, locked, client, stream, recv, maker, overtook, orphaned, unreaped, refused>>

\* libxlEventHandler reaps a dead one, without a job.
OnDeath(h) ==
  /\ guest[h] = "dead" /\ obj[h].active
  /\ Reaped(h)
  /\ UNCHANGED kills

\* libxlDomainDestroyFlags, which the mask of a migration lets run on both hosts.
Destroy(h) ==
  /\ kills < MaxKills
  /\ obj[h].listed /\ Exists(h)
  /\ Reaped(h)
  /\ kills' = kills + 1

Next ==
  \/ \E c \in Clients :
       \/ CallFails(c)
       \/ MigrateBegin3(c)
       \/ PerformError(c)
       \/ PerformConnects(c)
       \/ MigrateSent(c)
       \/ MigrateSendFails(c)
       \/ ConfirmCancelled(c)
       \/ ConfirmMoved(c)
       \/ MigratePrepare3(c)
       \/ PrepareGranted(c)
       \/ PrepareListens(c)
       \/ MigratePrepare3Fails(c)
       \/ ReceiveAccepts(c)
       \/ ReceiveMade(c)
       \/ ReceiveUnpauses(c)
       \/ ReceiveEnds(c)
       \/ ReceiveFails(c)
       \/ FinishFailed(c)
       \/ FinishMoved(c)
       \/ FinishNotFound(c)
  \/ \E h \in Hosts : Die(h) \/ OnDeath(h) \/ Destroy(h)

Spec == Init /\ [][Next]_vars

(***************************************************************************)
(* Properties.                                                             *)
(***************************************************************************)
\* The guest is always somewhere: it is reaped on the source only when the target
\* has it.  Not so for VIR_MIGRATE_PAUSED, where Finish3 does not look, nor when
\* Finish3 was ahead of the thread, which may fail after the guest was unpaused, nor
\* once a Prepare3 worked on an object that had left the list, whose Finish3 finds
\* the guest of another migration.
GuestSurvives ==
  kills = 0 /\ ~overtook /\ ~orphaned /\ (\A c \in Clients : ~paused[c]) =>
    \/ guest["source"] \in {"running", "suspended"}
    \/ guest["target"] \in {"paused", "running"}

\* The guest runs on one host only, as long as every Finish3 comes after the thread,
\* finds the object Prepare3 was given the job of, and can destroy what it has to:
\* nothing tells the source that the target has received the guest.
RunsOnceInOrder ==
  ~overtook /\ ~orphaned /\ ~unreaped =>
    ~(guest["source"] = "running" /\ guest["target"] = "running")

\* The guest runs on one host only (Confirm3 resumes it on the source when
\* "migration failed").
RunsOnce == ~(guest["source"] = "running" /\ guest["target"] = "running")

Migrating(c) ==
  \/ call[c] \in {"prepare", "assigned", "granted", "perform", "sending", "confirm"}
  \/ call[c] = "finish" /\ ~cancelled[c]

\* From Begin3 to its end a migration holds the job of the guest, across four calls
\* and the errors of other clients' migrations, so no other one can begin.
MigrationHoldsJob ==
  \A c \in Clients : Migrating(c) /\ obj["source"].listed /\ up["source"] =>
    obj["source"].job = c

\* "Src side should be resumed": a guest whose migration is over is not suspended,
\* unless libxl_domain_resume itself failed.
NotLeftSuspended ==
  (\A c \in Clients : call[c] \in {"begin", "done"}) /\ up["source"] /\ ~refused =>
    guest["source"] # "suspended"
=============================================================================
