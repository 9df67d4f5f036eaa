------------------------------ MODULE XlMigrate ------------------------------
(***************************************************************************)
(* xl migrate and xl migrate-receive (console/20120523/test_case/          *)
(* xl_cmdimpl.c), with the daemon that watches a domain.  A sender and a   *)
(* receiver talk through a pair of pipes that ssh joins: banner, the       *)
(* configuration and the image, "ready", "go", a report, and, if the       *)
(* target failed, the permission to have the domain back.  Either process  *)
(* may be killed and the connection may break at any moment.  Several      *)
(* migrations, also of one domain, may go on at a time.                    *)
(***************************************************************************)
EXTENDS Integers, Sequences, FiniteSets, FiniteSetsExt

CONSTANTS
  Hosts,
  MaxCopies,  \* bound: domains made as copies of the guest; then making fails
  MaxRounds,  \* bound: calls of xl migrate
  MaxFaults   \* bound: broken connections, processes killed, calls that fail

ASSUME MigrateAssumption ==
  /\ MaxCopies \in Nat \ {0} /\ MaxRounds \in Nat /\ MaxFaults \in Nat

VARIABLES
  copy,       \* the guest's domains, on whatever host
  watched,    \* those with a daemon
  taken,      \* hosts where some other domain has the guest's name
  lock,       \* per host: the receiver that holds the lock file, or 0
  ses,        \* the migrations: the two processes and what they know
  toR, toS,   \* messages on their way to the receiver and to the sender
  up,         \* the migrations whose connection holds
  faults,     \* faults so far
  spoilt,     \* migrations that met one
  ended,      \* the guest has stopped, or a user destroyed a copy
  ran         \* the copies that have run

domains == <<copy, watched, taken, ended, ran>>
pipes == <<toR, toS, up>>
vars == <<copy, watched, taken, lock, ses, toR, toS, up, faults, spoilt, ended, ran>>

Copies == 1 .. MaxCopies
Rounds == 1 .. MaxRounds
NoCopy == [host |-> CHOOSE h \in Hosts : TRUE, name |-> "guest", state |-> "none", restored |-> FALSE]
NoRound == [snd |-> "off", rcv |-> "off", src |-> 0, dst |-> 0, to |-> NoCopy.host, rc |-> FALSE]

Init ==
  /\ copy = [c \in Copies |-> IF c = 1 THEN [NoCopy EXCEPT !.state = "running"] ELSE NoCopy]
  /\ watched = {1} /\ ran = {1} /\ ended = FALSE
  /\ taken = {}
  /\ lock = [h \in Hosts |-> 0]
  /\ ses = [r \in Rounds |-> NoRound]
  /\ toR = [r \in Rounds |-> <<>>] /\ toS = [r \in Rounds |-> <<>>]
  /\ up = {} /\ spoilt = {}
  /\ faults = 0

Alive(c) == c \in Copies /\ copy[c].state \notin {"none", "gone"}
Fresh == {c \in Copies : copy[c].state = "none" /\ \A d \in Copies : copy[d].state = "none" => c <= d}

\* libxl_name_to_domid finds none.
Free(h, name) ==
  /\ \A c \in Copies : ~(Alive(c) /\ copy[c].host = h /\ copy[c].name = name)
  /\ name = "guest" => h \notin taken

Gone(c) == [copy EXCEPT ![c].state = "gone"]
Snd(r, pc) == ses' = [ses EXCEPT ![r].snd = pc]
Rcv(r, pc) == ses' = [ses EXCEPT ![r].rcv = pc]

(***************************************************************************)
(* The pipes.                                                              *)
(***************************************************************************)
\* A sender that is about to resume the domain has closed its end.
SenderListens(r) == r \in up /\ ses[r].snd # "end"
SenderWrites(r) == r \in up /\ ses[r].snd \notin {"resume", "end"}
ReceiverThere(r) == r \in up /\ ses[r].rcv # "end"

\* libxl_write_exactly: to a peer that is not there any more it fails, or is
\* lost on the way.
WriteR(r, m) == ReceiverThere(r) /\ toR' = [toR EXCEPT ![r] = @ \o m]
LostR(r) == ~ReceiverThere(r) /\ UNCHANGED toR
WriteS(r, m) == SenderListens(r) /\ toS' = [toS EXCEPT ![r] = @ \o m]
LostS(r) == ~SenderListens(r) /\ UNCHANGED toS

\* migrate_read_fixedmessage: the message, or the end of the stream.
ReadS(r, m) ==
  /\ Len(toS[r]) >= Len(m) /\ SubSeq(toS[r], 1, Len(m)) = m
  /\ toS' = [toS EXCEPT ![r] = SubSeq(@, Len(m) + 1, Len(@))]
EofS(r, n) == Len(toS[r]) < n /\ ~ReceiverThere(r) /\ UNCHANGED toS
ReadR(r, m) == toR[r] # <<>> /\ Head(toR[r]) = m /\ toR' = [toR EXCEPT ![r] = Tail(@)]
EofR(r) == toR[r] = <<>> /\ ~SenderWrites(r) /\ UNCHANGED toR

(***************************************************************************)
(* The sender: migrate_domain.                                             *)
(***************************************************************************)
\* create_migration_child.
Forked(c, h) == [NoRound EXCEPT !.snd = "banner", !.rcv = "banner", !.src = c, !.to = h]

\* save_domain_core_begin.
Migrate(r) ==
  /\ ses[r].snd = "off" /\ \A q \in Rounds : q < r => ses[q].snd # "off"
  /\ \E c \in Copies, h \in Hosts :
       /\ Alive(c) /\ copy[c].name = "guest" /\ h # copy[c].host
       /\ ses' = [ses EXCEPT ![r] = Forked(c, h)]
  /\ up' = up \cup {r}
  /\ UNCHANGED <<domains, lock, toR, toS, faults, spoilt>>

WriteConfig(r) == WriteR(r, <<"config">>) \/ LostR(r)

\* migrate_do_preamble.
SendConfig(r) ==
  /\ ses[r].snd = "banner"
  /\ \/ ReadS(r, <<"banner">>) /\ WriteConfig(r) /\ Snd(r, "suspend")
     \/ EofS(r, 1) /\ UNCHANGED toR /\ Snd(r, "end")
  /\ UNCHANGED <<domains, lock, up, faults, spoilt>>

\* libxl_domain_suspend, live: the guest stops as the last of it is sent.  Then the
\* sending, or the saving of the device model, may fail.
SuspendDomain(r) ==
  /\ ses[r].snd = "suspend"
  /\ copy[ses[r].src].state = "running"
  /\ copy' = [copy EXCEPT ![ses[r].src].state = "suspended"]
  /\ \/ WriteR(r, <<"image">>) /\ Snd(r, "ready")
     \/ LostR(r) /\ Snd(r, "ready")
     \/ UNCHANGED toR /\ Snd(r, "resume")
  /\ UNCHANGED <<watched, taken, ended, ran, lock, toS, up, faults, spoilt>>

\* ERROR_GUEST_TIMEDOUT: this guest is not running, or does not answer.
SuspendTimesOut(r) ==
  /\ ses[r].snd = "suspend"
  /\ Snd(r, "end")
  /\ UNCHANGED <<domains, pipes, lock, faults, spoilt>>

\* A bug: when the target never gets ready the domain is not resumed.
AwaitReadyLeaves(r) ==
  /\ ses[r].snd = "ready"
  /\ \/ ReadS(r, <<"ready">>) /\ Snd(r, "rename")
     \/ EofS(r, 1) /\ Snd(r, "end")
  /\ UNCHANGED <<domains, toR, up, lock, faults, spoilt>>

AwaitReady(r) ==
  /\ ses[r].snd = "ready"
  /\ \/ ReadS(r, <<"ready">>) /\ Snd(r, "rename")
     \/ EofS(r, 1) /\ Snd(r, "resume")
  /\ UNCHANGED <<domains, toR, up, lock, faults, spoilt>>

\* The domain is put away under another name.
RenameAway(r) ==
  LET c == ses[r].src
  IN  /\ ses[r].snd = "rename"
      /\ IF Alive(c) /\ copy[c].name = "guest" /\ Free(copy[c].host, "away")
           THEN copy' = [copy EXCEPT ![c].name = "away"] /\ Snd(r, "go")
           ELSE UNCHANGED copy /\ Snd(r, "resume")
      /\ UNCHANGED <<watched, taken, ended, ran, pipes, lock, faults, spoilt>>

\* The point of no return.
SayGo(r) ==
  /\ ses[r].snd = "go"
  /\ \/ WriteR(r, <<"go">>) /\ Snd(r, "report")
     \/ LostR(r) /\ \E pc \in {"report", "end"} : Snd(r, pc)
  /\ UNCHANGED <<domains, toS, up, lock, faults, spoilt>>

\* A bug: without a report the domain is resumed.
AwaitReportResumes(r) ==
  /\ ses[r].snd = "report"
  /\ \/ ReadS(r, <<"report", "started">>) /\ Snd(r, "destroy")
     \/ ReadS(r, <<"report", "failed">>) /\ Snd(r, "permission")
     \/ EofS(r, 2) /\ Snd(r, "resume")
  /\ UNCHANGED <<domains, toR, up, lock, faults, spoilt>>

\* Without a report the domain stays where it is, suspended.
AwaitReport(r) ==
  /\ ses[r].snd = "report"
  /\ \/ ReadS(r, <<"report", "started">>) /\ Snd(r, "destroy")
     \/ ReadS(r, <<"report", "failed">>) /\ Snd(r, "permission")
     \/ EofS(r, 2) /\ Snd(r, "end")
  /\ UNCHANGED <<domains, toR, up, lock, faults, spoilt>>

AwaitPermission(r) ==
  /\ ses[r].snd = "permission"
  /\ \/ ReadS(r, <<"have it back">>) /\ Snd(r, "rename back")
     \/ EofS(r, 1) /\ Snd(r, "end")
  /\ UNCHANGED <<domains, toR, up, lock, faults, spoilt>>

\* Whether that succeeds is not looked at.
RenameBack(r) ==
  LET c == ses[r].src
  IN  /\ ses[r].snd = "rename back"
      /\ copy' = IF Alive(c) /\ copy[c].name = "away" /\ Free(copy[c].host, "guest")
                   THEN [copy EXCEPT ![c].name = "guest"] ELSE copy
      /\ Snd(r, "resume")
      /\ UNCHANGED <<watched, taken, ended, ran, pipes, lock, faults, spoilt>>

Resumed(c) == IF copy[c].state = "suspended" THEN [copy EXCEPT ![c].state = "running"] ELSE copy

\* libxl_domain_resume and libxl_domain_destroy at the sender's end: nobody looks at
\* what they return.
CallsLast(r, result) ==
  /\ \/ copy' = result /\ UNCHANGED <<faults, spoilt>>
     \/ faults < MaxFaults /\ faults' = faults + 1 /\ spoilt' = spoilt \cup {r} /\ UNCHANGED copy
  /\ Snd(r, "end")
  /\ UNCHANGED <<watched, taken, ended, ran, pipes, lock>>

\* After it has waited for the child, two seconds at most.
Resume(r) == ses[r].snd = "resume" /\ CallsLast(r, Resumed(ses[r].src))

DestroySource(r) ==
  /\ ses[r].snd = "destroy"
  /\ CallsLast(r, IF Alive(ses[r].src) THEN Gone(ses[r].src) ELSE copy)

(***************************************************************************)
(* The receiver: migrate_receive, and create_domain on its stream.         *)
(***************************************************************************)
SendBanner(r) ==
  /\ ses[r].rcv = "banner"
  /\ \/ WriteS(r, <<"banner">>) /\ Rcv(r, "config")
     \/ LostS(r) /\ \E pc \in {"config", "end"} : Rcv(r, pc)
  /\ UNCHANGED <<domains, toR, up, lock, faults, spoilt>>

\* The stream's header, and the configuration it holds.
ReceiveConfig(r) ==
  /\ ses[r].rcv = "config"
  /\ \/ ReadR(r, "config") /\ Rcv(r, "lock")
     \/ EofR(r) /\ Rcv(r, "end")
  /\ UNCHANGED <<domains, toS, up, lock, faults, spoilt>>

\* acquire_lock; the domain is made, under its temporary name.
MakeIncoming(r) ==
  LET h == ses[r].to
  IN  /\ ses[r].rcv = "lock" /\ lock[h] = 0
      /\ \/ /\ Free(h, "incoming")
            /\ \E d \in Fresh :
                 /\ copy' = [copy EXCEPT ![d] = [host |-> h, name |-> "incoming", state |-> "part", restored |-> TRUE]]
                 /\ ses' = [ses EXCEPT ![r].rcv = "restore", ![r].dst = d]
            /\ lock' = [lock EXCEPT ![h] = r]
         \/ Rcv(r, "end") /\ UNCHANGED <<copy, lock>>
      /\ UNCHANGED <<watched, taken, ended, ran, pipes, faults, spoilt>>

\* libxl_domain_create_restore; error_out when the stream ends, or it fails.
RestoreImage(r) ==
  LET d == ses[r].dst
  IN  /\ ses[r].rcv = "restore"
      /\ \/ /\ copy[d].state = "part" /\ ReadR(r, "image")
            /\ copy' = [copy EXCEPT ![d].state = "paused"]
            /\ watched' = watched \cup {d}
            /\ Rcv(r, "ready")
         \/ /\ EofR(r) \/ ReadR(r, "image")
            /\ copy' = IF Alive(d) THEN Gone(d) ELSE copy
            /\ Rcv(r, "end") /\ UNCHANGED watched
      /\ lock' = [lock EXCEPT ![ses[r].to] = 0]
      /\ UNCHANGED <<taken, ended, ran, toS, up, faults, spoilt>>

\* What was received stays if this cannot be said.
SayReady(r) ==
  /\ ses[r].rcv = "ready"
  /\ \/ WriteS(r, <<"ready">>) /\ Rcv(r, "go")
     \/ LostS(r) /\ \E pc \in {"go", "end"} : Rcv(r, pc)
  /\ UNCHANGED <<domains, toR, up, lock, faults, spoilt>>

AwaitGo(r) ==
  /\ ses[r].rcv = "go"
  /\ \/ ReadR(r, "go") /\ Rcv(r, "rename")
     \/ EofR(r) /\ ses' = [ses EXCEPT ![r].rcv = "report", ![r].rc = TRUE]
  /\ UNCHANGED <<domains, toS, up, lock, faults, spoilt>>

RenameIncoming(r) ==
  LET d == ses[r].dst
  IN  /\ ses[r].rcv = "rename"
      /\ IF Alive(d) /\ Free(copy[d].host, "guest")
           THEN copy' = [copy EXCEPT ![d].name = "guest"] /\ Rcv(r, "unpause")
           ELSE UNCHANGED copy /\ ses' = [ses EXCEPT ![r].rcv = "report", ![r].rc = TRUE]
      /\ UNCHANGED <<watched, taken, ended, ran, pipes, lock, faults, spoilt>>

\* libxl_domain_unpause.
Unpause(r) ==
  LET d == ses[r].dst
  IN  /\ ses[r].rcv = "unpause"
      /\ \/ /\ copy[d].state = "paused"
            /\ copy' = [copy EXCEPT ![d].state = "running"] /\ ran' = ran \cup {d}
            /\ Rcv(r, "report")
            /\ UNCHANGED <<faults, spoilt>>
         \/ /\ ~Alive(d) \/ faults < MaxFaults
            /\ faults' = IF Alive(d) THEN faults + 1 ELSE faults
            /\ ses' = [ses EXCEPT ![r].rcv = "report", ![r].rc = TRUE]
            /\ UNCHANGED <<copy, ran, spoilt>>
      /\ UNCHANGED <<watched, taken, ended, pipes, lock>>

\* perhaps_destroy_notify_rc: the report and its code.
Report(r) ==
  /\ ses[r].rcv = "report"
  /\ \/ /\ WriteS(r, <<"report", IF ses[r].rc THEN "failed" ELSE "started">>)
        /\ Rcv(r, IF ses[r].rc THEN "destroy" ELSE "end")
     \/ LostS(r) /\ \E pc \in {"destroy", "end"} : (pc = "destroy" => ses[r].rc) /\ Rcv(r, pc)
  /\ UNCHANGED <<domains, toR, up, lock, faults, spoilt>>

\* libxl_domain_destroy may fail: then the sender gets no permission.
DestroyIncoming(r) ==
  LET d == ses[r].dst
  IN  /\ ses[r].rcv = "destroy"
      /\ \/ Alive(d) /\ copy' = Gone(d) /\ Rcv(r, "grant") /\ UNCHANGED <<faults, spoilt>>
         \/ ~Alive(d) /\ Rcv(r, "end") /\ spoilt' = spoilt \cup {r} /\ UNCHANGED <<copy, faults>>
         \/ /\ faults < MaxFaults /\ faults' = faults + 1 /\ spoilt' = spoilt \cup {r}
            /\ Rcv(r, "end") /\ UNCHANGED copy
      /\ UNCHANGED <<watched, taken, ended, ran, pipes, lock>>

Grant(r) ==
  /\ ses[r].rcv = "grant"
  /\ WriteS(r, <<"have it back">>) \/ LostS(r)
  /\ Rcv(r, "end")
  /\ UNCHANGED <<domains, toR, up, lock, faults, spoilt>>

(***************************************************************************)
(* The daemon of each domain: create_domain's wait for its death.          *)
(***************************************************************************)
\* "Domain has suspended", or it has been destroyed.
DaemonLeaves(c) ==
  /\ c \in watched /\ copy[c].state \in {"suspended", "gone"}
  /\ watched' = watched \ {c}
  /\ UNCHANGED <<copy, taken, ended, ran, pipes, ses, lock, faults, spoilt>>

\* handle_domain_death: on_poweroff = destroy.
DaemonReaps(c) ==
  /\ c \in watched /\ copy[c].state = "off"
  /\ copy' = Gone(c) /\ watched' = watched \ {c}
  /\ UNCHANGED <<taken, ended, ran, pipes, ses, lock, faults, spoilt>>

\* on_reboot = restart: the domain is destroyed and another made, or, since it
\* was restored itself, restored once more from the same stream, which has
\* nothing left.
DaemonRestarts(c) ==
  LET h == copy[c].host
  IN  /\ c \in watched /\ copy[c].state = "rebooting" /\ lock[h] = 0
      /\ \/ /\ ~copy[c].restored
            /\ h \notin taken /\ \A d \in Copies \ {c} : ~(Alive(d) /\ copy[d].host = h /\ copy[d].name = "guest")
            /\ \E d \in Fresh :
                 /\ copy' = [Gone(c) EXCEPT ![d] = [NoCopy EXCEPT !.host = h, !.state = "running"]]
                 /\ watched' = (watched \ {c}) \cup {d}
                 /\ ran' = ran \cup {d}
         \/ copy' = Gone(c) /\ watched' = watched \ {c} /\ UNCHANGED ran
      /\ UNCHANGED <<taken, ended, pipes, ses, lock, faults, spoilt>>

(***************************************************************************)
(* Guests, users and faults.                                               *)
(***************************************************************************)
GuestStops ==
  /\ \E c \in Copies, s \in {"off", "rebooting"} :
       copy[c].state = "running" /\ copy' = [copy EXCEPT ![c].state = s]
  /\ ended' = TRUE
  /\ UNCHANGED <<watched, taken, ran, pipes, ses, lock, faults, spoilt>>

\* xl destroy, and a name taken by, or given up for, another domain.
UserDestroys ==
  /\ faults < MaxFaults /\ faults' = faults + 1
  /\ \E c \in Copies : Alive(c) /\ copy' = Gone(c)
  /\ ended' = TRUE
  /\ UNCHANGED <<watched, taken, ran, pipes, ses, lock, spoilt>>

OtherDomain ==
  /\ faults < MaxFaults /\ faults' = faults + 1
  /\ \E h \in Hosts :
       \/ h \in taken /\ taken' = taken \ {h}
       \/ Free(h, "guest") /\ taken' = taken \cup {h}
  /\ UNCHANGED <<copy, watched, ended, ran, pipes, ses, lock, spoilt>>

\* ssh dies: what was sent and not yet read may be lost.
Breaks(r) ==
  /\ r \in up /\ faults < MaxFaults /\ faults' = faults + 1
  /\ up' = up \ {r} /\ spoilt' = spoilt \cup {r}
  /\ \E m \in 0 .. Len(toR[r]), n \in 0 .. Len(toS[r]) :
       toR' = [toR EXCEPT ![r] = SubSeq(@, 1, m)] /\ toS' = [toS EXCEPT ![r] = SubSeq(@, 1, n)]
  /\ UNCHANGED <<domains, ses, lock>>

SenderKilled(r) ==
  /\ ses[r].snd \notin {"off", "end"} /\ faults < MaxFaults /\ faults' = faults + 1
  /\ Snd(r, "end") /\ spoilt' = spoilt \cup {r}
  /\ UNCHANGED <<domains, pipes, lock>>

\* A domain half restored stays.
ReceiverKilled(r) ==
  /\ ses[r].rcv \notin {"off", "end"} /\ faults < MaxFaults /\ faults' = faults + 1
  /\ Rcv(r, "end") /\ spoilt' = spoilt \cup {r}
  /\ lock' = [h \in Hosts |-> IF lock[h] = r THEN 0 ELSE lock[h]]
  /\ UNCHANGED <<domains, pipes>>

Sender(r) ==
  \/ SendConfig(r) \/ SuspendDomain(r) \/ SuspendTimesOut(r) \/ AwaitReady(r) \/ RenameAway(r)
  \/ SayGo(r) \/ AwaitReport(r) \/ AwaitPermission(r) \/ RenameBack(r) \/ Resume(r) \/ DestroySource(r)

Receiver(r) ==
  \/ SendBanner(r) \/ ReceiveConfig(r) \/ MakeIncoming(r) \/ RestoreImage(r) \/ SayReady(r) \/ AwaitGo(r)
  \/ RenameIncoming(r) \/ Unpause(r) \/ Report(r) \/ DestroyIncoming(r) \/ Grant(r)

Daemon(c) == DaemonLeaves(c) \/ DaemonReaps(c) \/ DaemonRestarts(c)

Next ==
  \/ \E r \in Rounds : Sender(r) \/ Receiver(r) \/ Migrate(r) \/ Breaks(r) \/ SenderKilled(r) \/ ReceiverKilled(r)
  \/ \E c \in Copies : Daemon(c)
  \/ GuestStops \/ UserDestroys \/ OtherDomain

Spec == Init /\ [][Next]_vars

\* The processes are scheduled, and see the end of a stream that has ended.
\* Each takes finitely many steps, so that it is enough to be fair to all of
\* them together.
FairSpec == Spec /\ WF_vars(\E r \in Rounds : Sender(r) \/ Receiver(r))

(***************************************************************************)
(* Properties.                                                             *)
(***************************************************************************)
Running == {c \in Copies : copy[c].state = "running"}
Newest == Max(ran)

\* "Two simultaneous instances of the domain would probably result in SEVERE
\* DATA LOSS": the guest runs as one copy, and never again as an older one,
\* whichever process dies and wherever the connection breaks, and when one
\* domain is migrated twice.
Place == INSTANCE OneGuest WITH
  holder <- Newest,
  runs <- IF Running \subseteq {Newest} THEN Cardinality(Running) ELSE 2
ImplementsOneGuest == Place!Spec

\* What migrate_domain suspended it resumes or replaces, unless the connection or
\* a process failed, or the call that resumes the guest or destroys a copy: no side
\* waits for ever, or leaves without a word.
ComesBack ==
  \A c \in Copies :
    copy[c].state = "suspended"
      ~> copy[c].state # "suspended" \/ \E r \in spoilt : ses[r].src = c

\* "On subsequent reboot etc we should create the domain, not
\* restore/migrate-receive it again" (create_domain).
RebootCreates ==
  [][\A c \in Copies :
       DaemonRestarts(c) /\ copy[c].restored /\ Fresh # {} /\ copy[c].host \notin taken => ran' # ran]_vars
=============================================================================
