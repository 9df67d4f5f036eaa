------------------------ MODULE LibxlMigration_proofs ------------------------
(***************************************************************************)
(* Proofs about LibxlMigration: a migration keeps the guest's job, and the *)
(* guest runs on one host only and is always somewhere while Finish3 does  *)
(* not overtake the thread that receives it, nobody works on an object     *)
(* that had left the list, and Finish3 can destroy what it has to.         *)
(***************************************************************************)
EXTENDS LibxlMigration, TLAPS

Listed(h) == obj[h].listed
Active(h) == obj[h].active
Job(h) == obj[h].job

Sent(c) == stream[c] = "sent"

\* The client has sent the guest, and goes on whether the thread has lost it or not.
Moving(c) ==
  Sent(c) \/ (call[c] = "finish" /\ ~cancelled[c]) \/ call[c] = "confirm"

\* The client has started a migration on the target and not ended it there.
OnTarget(c) == call[c] \in {"granted", "perform", "sending", "finish"}

\* The thread of Prepare3 may still make, start or destroy a guest.
Alive(c) == recv[c] \in {"accept", "restore", "made", "saving"}

\* The guest is there, dead or alive.
There == guest["target"] \in {"paused", "running", "dead"}

Fields == {"listed", "persistent", "active", "job"}

Domains ==
  /\ DOMAIN obj = Hosts /\ \A h \in Hosts : DOMAIN obj[h] = Fields
  /\ DOMAIN guest = Hosts /\ DOMAIN up = Hosts
  /\ call \in [Clients -> Calls] /\ DOMAIN cancelled = Clients
  /\ DOMAIN recv = Clients /\ DOMAIN stream = Clients
  /\ kills \in Nat

\* The calls of one client: what it has when it makes the next.
Fresh(c) == call[c] \in {"begin", "prepare", "assigned", "granted"} => stream[c] = "none" /\ recv[c] = "none"
Willing(c) ==
  call[c] \in {"prepare", "assigned", "granted", "perform", "sending"} => ~cancelled[c]
After(c) == Sent(c) => call[c] \in {"confirm", "done"} \/ (call[c] = "finish" /\ ~cancelled[c])
Progress(c) == Fresh(c) /\ Willing(c) /\ After(c)

\* A migration keeps the job of the source from Begin3 on; who ends it is a client
\* that migrates, and so has it.
HasJob(c) == Migrating(c) /\ Listed("source") /\ up["source"] => Job("source") = c

\* Only one migration ever gets as far as sending the guest: it keeps the job, or there
\* is nothing left on the source to migrate ...
Owner(c) == Moving(c) => ~Active("source") \/ ~up["source"] \/ Job("source") = c
Alone(c) == Moving(c) => \A d \in Clients \ {c} : call[d] \in {"begin", "done"} /\ ~Sent(d)

\* ... and it has the job of the target from Prepare3 to Finish3, but may lose it once
\* it has sent, when the guest is reaped.
Serving(c) == OnTarget(c) => up["target"]
HasTarget(c) == OnTarget(c) => Moving(c) \/ (Listed("target") /\ Job("target") = c)
OneSender(c) == Owner(c) /\ Alone(c) /\ Serving(c) /\ HasTarget(c)

\* A thread that restores has libxl's one domain of that name; one that made a guest
\* had it sent.  The object may be freed under it, but then the guest is reaped, or
\* Finish3 came too early.
Restores(c) == recv[c] = "restore" => maker = c /\ guest["target"] = "receiving"
Made(c) == recv[c] \in {"made", "saving", "done"} => Sent(c)
Dangles(c) == c \in dangling /\ Sent(c) /\ ~overtook => recv[c] \notin {"accept", "restore"} /\ ~There
Waiting(c) == call[c] = "assigned"
Loses(c) == ~Listed("target") /\ (Alive(c) \/ Waiting(c)) => c \in dangling
Keeps(c) == call[c] \in {"begin", "prepare", "granted", "perform", "sending"} => c \notin dangling
Thread(c) == Restores(c) /\ Made(c) /\ Dangles(c) /\ Loses(c) /\ Keeps(c)

\* The guest of the target is what the sender's thread has made, and while Finish3
\* keeps its place the object knows of it.
Receiving == guest["target"] = "receiving" => maker \in Clients /\ recv[maker] = "restore"
MadeBySender ==
  There => maker \in Clients /\ Sent(maker) /\ recv[maker] \in {"made", "saving", "done"}
Known == There /\ ~overtook => Listed("target") /\ Active("target")
TargetGuest == guest["target"] \in {"none", "receiving", "paused", "running", "dead"}
Received == Receiving /\ MadeBySender /\ Known /\ TargetGuest

\* What the end of the sender's migration means for both hosts: told to cancel, the
\* target has nothing; told to go on, it runs the guest.
Resumed(c) == Moving(c) /\ guest["source"] = "running" => call[c] = "done" /\ cancelled[c]
Ended(c) == Moving(c) /\ call[c] \in {"confirm", "done"} /\ ~overtook
Cancelled(c) ==
  Ended(c) /\ ~unreaped /\ cancelled[c] =>
    ~There /\ (up["target"] /\ Sent(c) => recv[c] \notin {"accept", "restore"})
Moved(c) ==
  Ended(c) /\ ~cancelled[c] /\ kills = 0 /\ ~paused[c] => guest["target"] = "running" /\ ~Alive(c)
Outcome(c) == Resumed(c) /\ Cancelled(c) /\ Moved(c)

\* The source loses its guest by a Confirm3 only, unless it dies or is destroyed.
NobodyDead == kills = 0 => guest["source"] # "dead" /\ guest["target"] # "dead"
Left ==
  kills = 0 /\ ~overtook /\ (\A c \in Clients : ~paused[c]) =>
    \/ guest["source"] \in {"running", "suspended"}
    \/ \E c \in Clients : Sent(c) /\ call[c] = "done" /\ ~cancelled[c]

ClientInv(c) == Progress(c) /\ HasJob(c) /\ OneSender(c) /\ Thread(c) /\ Outcome(c)

\* What holds as long as nobody works on an object that had left the list before it
\* was given its job ...
OrderedInv ==
  /\ Domains
  /\ Active("source") => Listed("source")
  /\ \A c \in Clients : ClientInv(c)
  /\ Received
  /\ NobodyDead /\ Left

\* ... and what holds even then.
JobInv ==
  /\ Domains
  /\ Active("source") => Listed("source")
  /\ \A c \in Clients : HasJob(c)

MigrationInv == JobInv /\ (~orphaned => OrderedInv)

Same(d) ==
  /\ call'[d] = call[d] /\ cancelled'[d] = cancelled[d] /\ paused'[d] = paused[d]
  /\ recv'[d] = recv[d] /\ stream'[d] = stream[d]

SameObj(h) == Listed(h)' = Listed(h) /\ Active(h)' = Active(h) /\ Job(h)' = Job(h)

SameHost(h) == SameObj(h) /\ guest'[h] = guest[h] /\ up'[h] = up[h]

(***************************************************************************)
(* What the parts say together.                                            *)
(***************************************************************************)
\* Two clients on the target are one: both would have its job, or one has sent.
LEMMA OneOnTarget ==
  ASSUME NEW c \in Clients, NEW d \in Clients, OneSender(c), OneSender(d),
         OnTarget(c), OnTarget(d)
  PROVE  c = d
BY DEF OneSender, Alone, HasTarget, OnTarget

\* Two clients that migrate from a source that is up and has the domain are one.
LEMMA OneMigrating ==
  ASSUME NEW c \in Clients, NEW d \in Clients, HasJob(c), HasJob(d),
         Migrating(c), Migrating(d), Listed("source"), up["source"]
  PROVE  c = d
BY DEF HasJob

\* A client that is before or in Perform3 has not sent.
LEMMA NotSent ==
  ASSUME NEW c \in Clients, Progress(c),
         call[c] \in {"begin", "prepare", "assigned", "granted", "perform", "sending"}
  PROVE  ~Sent(c) /\ ~Moving(c)
BY DEF Progress, After, Moving

\* A step leaves the calls of the other clients alone.
LEMMA OthersProgress ==
  ASSUME NEW d \in Clients, Progress(d), Same(d)
  PROVE  Progress(d)'
BY DEF Progress, Fresh, Willing, After, Sent, Same

\* A step of the source leaves the target's guest and threads alone.
LEMMA SourceStep ==
  ASSUME NEW c \in Clients, \A d \in Clients \ {c} : Same(d), Received, \A d \in Clients : Thread(d),
         SameHost("target"), maker' = maker, dangling' = dangling,
         overtook' = overtook, unreaped' = unreaped,
         recv'[c] = recv[c], ~Waiting(c)', Sent(c) => Sent(c)'
  PROVE  /\ Received'
         /\ \A d \in Clients : Restores(d)' /\ Made(d)' /\ Loses(d)'
         /\ \A d \in Clients \ {c} : Thread(d)'
<1>1. There' = There /\ Listed("target")' = Listed("target") /\ Active("target")' = Active("target")
      /\ guest'["target"] = guest["target"]
  BY DEF There, SameHost, SameObj
<1>2. \A d \in Clients : recv'[d] = recv[d] /\ (Sent(d) => Sent(d)')
  BY DEF Same, Sent
<1>3. Received'
  BY <1>1, <1>2 DEF Received, Receiving, MadeBySender, Known, TargetGuest
<1>4. ASSUME NEW d \in Clients
      PROVE  Restores(d)' /\ Made(d)' /\ Loses(d)'
  <2>1. Restores(d) /\ Made(d) /\ Loses(d)
    BY DEF Thread
  <2>2. Waiting(d)' => Waiting(d)
    BY DEF Waiting, Same
  <2> QED
    BY <1>1, <1>2, <2>1, <2>2 DEF Restores, Made, Loses, Alive
<1>5. ASSUME NEW d \in Clients \ {c}
      PROVE  Thread(d)'
  <2>1. Thread(d) /\ Same(d)
    OBVIOUS
  <2>2. Dangles(d)' /\ Keeps(d)'
    BY <1>1, <2>1 DEF Thread, Dangles, Keeps, Same, Sent
  <2> QED
    BY <1>4, <2>2 DEF Thread
<1> QED
  BY <1>3, <1>4, <1>5

\* A step of a thread leaves the clients and the source alone.
LEMMA ReceiveStep ==
  ASSUME NEW c \in Clients, \A d \in Clients \ {c} : Same(d), \A d \in Clients : ClientInv(d),
         SameHost("source"), up'["target"] = up["target"],
         Listed("target")' = Listed("target"), Job("target")' = Job("target"),
         call'[c] = call[c], cancelled'[c] = cancelled[c], Sent(c)' => Sent(c)
  PROVE  \A d \in Clients : HasJob(d)' /\ OneSender(d)' /\ Resumed(d)'
<1>1. /\ Listed("source")' = Listed("source") /\ Active("source")' = Active("source")
      /\ Job("source")' = Job("source") /\ guest'["source"] = guest["source"] /\ up'["source"] = up["source"]
  BY DEF SameHost, SameObj
<1>2. ASSUME NEW d \in Clients
      PROVE  /\ call'[d] = call[d] /\ cancelled'[d] = cancelled[d]
             /\ Sent(d)' => Sent(d)
  BY DEF Same, Sent
<1>3. ASSUME NEW d \in Clients
      PROVE  HasJob(d)'
  <2>1. HasJob(d)
    BY DEF ClientInv
  <2> QED
    BY <1>1, <1>2, <2>1 DEF HasJob, Migrating
<1>4. ASSUME NEW d \in Clients
      PROVE  OneSender(d)' /\ Resumed(d)'
  <2>1. OneSender(d) /\ Resumed(d) /\ Progress(d)
    BY DEF ClientInv, Outcome
  <2>2. (Moving(d)' => Moving(d)) /\ (OnTarget(d)' <=> OnTarget(d))
    BY <1>2 DEF Moving, OnTarget
  <2>3. Owner(d)' /\ Serving(d)'
    BY <1>1, <2>1, <2>2 DEF OneSender, Owner, Serving
  <2>4. Alone(d)'
    BY <1>2, <2>1, <2>2 DEF OneSender, Alone
  <2>5. Moving(d) /\ OnTarget(d) => Moving(d)'
    BY <1>2, <2>1 DEF Moving, OnTarget, Progress, After
  <2>6. HasTarget(d)'
    BY <2>1, <2>2, <2>5 DEF OneSender, HasTarget
  <2>7. Resumed(d)'
    BY <1>1, <1>2, <2>1, <2>2 DEF Resumed
  <2> QED
    BY <2>3, <2>4, <2>6, <2>7 DEF OneSender
<1> QED
  BY <1>3, <1>4

\* While a client is between Begin3 and its end no other one has sent.
LEMMA NoOtherSender ==
  ASSUME OrderedInv, NEW c \in Clients, call[c] \notin {"begin", "done"},
         NEW d \in Clients, d # c
  PROVE  ~Moving(d) /\ ~Sent(d)
BY DEF OrderedInv, ClientInv, OneSender, Alone, Moving

\* A step of a migration on the source: nothing changes for the other clients, since
\* none of them migrates or has sent.
LEMMA OtherClients ==
  ASSUME OrderedInv, NEW c \in Clients, Migrating(c), \A d \in Clients \ {c} : Same(d),
         SameHost("target"), maker' = maker, dangling' = dangling,
         overtook' = overtook, unreaped' = unreaped,
         kills' = kills, recv'[c] = recv[c], ~Waiting(c)', Sent(c) => Sent(c)',
         up'["source"] => up["source"], Listed("source")' => Listed("source"), up["source"]
  PROVE  \A d \in Clients \ {c} : ClientInv(d)'
<1>1. call[c] \notin {"begin", "done"}
  BY DEF Migrating
<1>2. SUFFICES ASSUME NEW d \in Clients \ {c} PROVE ClientInv(d)'
  OBVIOUS
<1>3. ClientInv(d) /\ ClientInv(c) /\ Same(d)
  BY DEF OrderedInv
<1>4. Progress(d)'
  BY <1>3, OthersProgress DEF ClientInv
<1>5. Thread(d)'
  BY SourceStep DEF OrderedInv, ClientInv
<1>6. ~Moving(d)'
  BY <1>1, <1>3, NoOtherSender DEF Moving, Sent, Same
<1>7. Serving(d)' /\ HasTarget(d)'
  BY <1>1, <1>3, NoOtherSender
     DEF ClientInv, OneSender, Serving, HasTarget, OnTarget, Same, SameHost, SameObj
<1>8. OneSender(d)' /\ Outcome(d)'
  BY <1>6, <1>7 DEF OneSender, Owner, Alone, Outcome, Resumed, Cancelled, Moved, Ended
<1>9. Migrating(d)' => Migrating(d)
  BY <1>3 DEF Migrating, Same
<1>10. HasJob(d)'
  BY <1>3, <1>9, OneMigrating DEF ClientInv, HasJob
<1> QED
  BY <1>4, <1>5, <1>8, <1>10 DEF ClientInv

\* What is left to show of such a step is about the client itself and the source.
LEMMA MigratingStep ==
  ASSUME OrderedInv, NEW c \in Clients, Migrating(c), \A d \in Clients \ {c} : Same(d),
         SameHost("target"), maker' = maker, dangling' = dangling,
         overtook' = overtook, unreaped' = unreaped,
         kills' = kills, recv'[c] = recv[c], ~Waiting(c)', Sent(c) => Sent(c)',
         up'["source"] => up["source"], Listed("source")' => Listed("source"), up["source"],
         Domains', (Active("source") => Listed("source"))', NobodyDead', Left',
         Progress(c)', HasJob(c)', OneSender(c)', Dangles(c)', Keeps(c)', Outcome(c)'
  PROVE  OrderedInv'
<1>1. \A d \in Clients \ {c} : ClientInv(d)'
  BY OtherClients
<1>2. Received' /\ Restores(c)' /\ Made(c)' /\ Loses(c)'
  BY SourceStep DEF OrderedInv, ClientInv
<1>3. ClientInv(c)'
  BY <1>2 DEF ClientInv, Thread
<1> QED
  BY <1>1, <1>2, <1>3 DEF OrderedInv

LEMMA PerformConnectsStep ==
  ASSUME OrderedInv, NEW c \in Clients, PerformConnects(c)
  PROVE  OrderedInv'
<1>1. Domains' /\ \A d \in Clients \ {c} : Same(d)
  BY DEF OrderedInv, Domains, PerformConnects, Then, hosts, threads, objects, history, Calls, Same
<1>2. /\ SameHost("source") /\ SameHost("target")
      /\ maker' = maker /\ dangling' = dangling /\ kills' = kills
      /\ overtook' = overtook /\ unreaped' = unreaped
      /\ call[c] = "perform" /\ call'[c] = "sending" /\ up["source"]
      /\ ~cancelled'[c] /\ stream'[c] = "connected" /\ stream[c] = "listening"
      /\ recv'[c] = recv[c] /\ paused' = paused
  BY DEF OrderedInv, Domains, PerformConnects, Then, Usable, hosts, threads, objects, history,
     SameHost, SameObj, Listed, Active, Job
<1>3. ClientInv(c) /\ Migrating(c)
  BY <1>2 DEF OrderedInv, Migrating
<1>4. ~Sent(c) /\ ~Sent(c)' /\ ~Moving(c)'
  BY <1>2 DEF Sent, Moving
<1>5. Progress(c)'
  BY <1>2, <1>3, <1>4 DEF ClientInv, Progress, Fresh, Willing, After
<1>6. HasJob(c)'
  BY <1>2, <1>3 DEF ClientInv, HasJob, SameHost, SameObj
<1>7. OneSender(c)'
  BY <1>2, <1>3, <1>4, NotSent
     DEF ClientInv, OneSender, Owner, Alone, Serving, HasTarget, OnTarget, SameHost, SameObj
<1>8. Dangles(c)' /\ Keeps(c)' /\ Outcome(c)'
  BY <1>2, <1>3, <1>4
     DEF ClientInv, Thread, Dangles, Keeps, Outcome, Resumed, Cancelled, Moved, Ended
<1>9. Left' /\ NobodyDead' /\ (Active("source") => Listed("source"))'
  BY <1>1, <1>2 DEF OrderedInv, Left, NobodyDead, SameHost, SameObj, Same, Sent
<1> QED
  BY <1>1, <1>2, <1>3, <1>4, <1>5, <1>6, <1>7, <1>8, <1>9, MigratingStep DEF SameHost, SameObj, Waiting

LEMMA PerformErrorStep ==
  ASSUME OrderedInv, NEW c \in Clients, PerformError(c)
  PROVE  OrderedInv'
<1>1. Domains' /\ \A d \in Clients \ {c} : Same(d)
  BY DEF OrderedInv, Domains, Fields, Hosts, PerformError, Then, EndJob, threads, objects, history, Calls, Same
<1>2. /\ SameHost("target") /\ guest'["source"] = guest["source"]
      /\ maker' = maker /\ dangling' = dangling /\ kills' = kills
      /\ overtook' = overtook /\ unreaped' = unreaped
      /\ call[c] = "perform" /\ call'[c] = "finish" /\ up["source"]
      /\ cancelled'[c] /\ stream'[c] = stream[c]
      /\ recv'[c] = recv[c] /\ paused' = paused
  BY DEF OrderedInv, Domains, Hosts, PerformError, Then, Usable, EndJob, threads, objects, history,
     SameHost, SameObj, Listed, Active, Job
<1>3. Listed("source")' = Listed("source") /\ Active("source")' = Active("source")
  BY DEF OrderedInv, Domains, Fields, Hosts, PerformError, EndJob, Listed, Active
<1>4. up'["source"] => up["source"]
  BY <1>2
<1>5. ClientInv(c) /\ Migrating(c)
  BY <1>2 DEF OrderedInv, Migrating
<1>6. ~Sent(c) /\ ~Sent(c)' /\ ~Moving(c)'
  BY <1>2, <1>5, NotSent DEF ClientInv, Sent, Moving
<1>7. Progress(c)'
  BY <1>2, <1>5, <1>6 DEF ClientInv, Progress, Fresh, Willing, After
<1>8. HasJob(c)'
  BY <1>2 DEF HasJob, Migrating
<1>9. OneSender(c)'
  BY <1>2, <1>5, <1>6, NotSent
     DEF ClientInv, OneSender, Owner, Alone, Serving, HasTarget, OnTarget, SameHost, SameObj
<1>10. Dangles(c)' /\ Keeps(c)' /\ Outcome(c)'
  BY <1>2, <1>6 DEF Dangles, Keeps, Outcome, Resumed, Cancelled, Moved, Ended
<1>11. Left' /\ NobodyDead' /\ (Active("source") => Listed("source"))'
  BY <1>1, <1>2, <1>3, <1>6 DEF OrderedInv, Left, NobodyDead, SameHost, Same, Sent
<1> QED
  BY <1>1, <1>2, <1>3, <1>4, <1>5, <1>6, <1>7, <1>8, <1>9, <1>10, <1>11, MigratingStep DEF Waiting

LEMMA MigrateSendFailsStep ==
  ASSUME OrderedInv, NEW c \in Clients, MigrateSendFails(c)
  PROVE  OrderedInv'
<1>1. Domains' /\ \A d \in Clients \ {c} : Same(d)
  <2>1. DOMAIN guest' = Hosts
    BY DEF OrderedInv, Domains, MigrateSendFails
  <2> QED
    BY <2>1 DEF OrderedInv, Domains, Fields, Hosts, MigrateSendFails, Then, EndJob, threads, objects,
       history, Calls, Same
<1>2. /\ guest'["target"] = guest["target"]
      /\ \/ guest'["source"] = guest["source"]
         \/ guest["source"] = "running" /\ guest'["source"] = "suspended"
  <2>1. \/ guest' = guest
        \/ guest["source"] = "running" /\ guest' = [guest EXCEPT !["source"] = "suspended"]
    BY DEF MigrateSendFails
  <2> QED
    BY <2>1 DEF OrderedInv, Domains, Hosts
<1>3. /\ SameHost("target")
      /\ maker' = maker /\ dangling' = dangling /\ kills' = kills
      /\ overtook' = overtook /\ unreaped' = unreaped
      /\ call[c] = "sending" /\ call'[c] = "finish" /\ up["source"] /\ up'["source"]
      /\ cancelled'[c] /\ stream'[c] = "broken"
      /\ recv'[c] = recv[c] /\ paused' = paused
  BY <1>2 DEF OrderedInv, Domains, Hosts, MigrateSendFails, Then, Usable, EndJob, threads, objects, history,
     SameHost, SameObj, Listed, Active, Job
<1>4. Listed("source")' = Listed("source") /\ Active("source")' = Active("source")
  BY DEF OrderedInv, Domains, Fields, Hosts, MigrateSendFails, EndJob, Listed, Active
<1>5. ClientInv(c) /\ Migrating(c)
  BY <1>3 DEF OrderedInv, Migrating
<1>6. ~Sent(c) /\ ~Sent(c)' /\ ~Moving(c)'
  BY <1>3, <1>5, NotSent DEF ClientInv, Sent, Moving
<1>7. Progress(c)'
  BY <1>3, <1>5, <1>6 DEF ClientInv, Progress, Fresh, Willing, After
<1>8. HasJob(c)'
  BY <1>3 DEF HasJob, Migrating
<1>9. OneSender(c)'
  BY <1>3, <1>5, <1>6, NotSent
     DEF ClientInv, OneSender, Owner, Alone, Serving, HasTarget, OnTarget, SameHost, SameObj
<1>10. Dangles(c)' /\ Keeps(c)' /\ Outcome(c)'
  BY <1>3, <1>6 DEF Dangles, Keeps, Outcome, Resumed, Cancelled, Moved, Ended
<1>11. Left' /\ NobodyDead' /\ (Active("source") => Listed("source"))'
  BY <1>1, <1>2, <1>3, <1>4, <1>6 DEF OrderedInv, Left, NobodyDead, SameHost, Same, Sent
<1> QED
  BY <1>1, <1>3, <1>4, <1>5, <1>6, <1>7, <1>8, <1>9, <1>10, <1>11, MigratingStep DEF Waiting

LEMMA MigrateSentStep ==
  ASSUME OrderedInv, NEW c \in Clients, MigrateSent(c)
  PROVE  OrderedInv'
<1>1. Domains' /\ \A d \in Clients \ {c} : Same(d)
  BY DEF OrderedInv, Domains, Hosts, MigrateSent, Then, threads, objects, history, Calls, Same
<1>2. /\ SameHost("target") /\ SameObj("source") /\ Active("source") /\ up["source"] /\ up'["source"]
      /\ maker' = maker /\ dangling' = dangling /\ kills' = kills
      /\ overtook' = overtook /\ unreaped' = unreaped
      /\ call[c] = "sending" /\ call'[c] = "finish"
      /\ ~cancelled'[c] /\ stream'[c] = "sent"
      /\ guest["source"] \in {"running", "suspended"} /\ guest'["source"] = "suspended"
      /\ recv'[c] = recv[c] /\ paused' = paused
  BY DEF OrderedInv, Domains, Hosts, MigrateSent, Then, Usable, Exists, threads, objects, history,
     SameHost, SameObj, Listed, Active, Job
<1>3. ClientInv(c) /\ Migrating(c) /\ Listed("source") /\ OnTarget(c)
  BY <1>2 DEF OrderedInv, Migrating, OnTarget
<1>4. ~Sent(c) /\ Sent(c)' /\ c \notin dangling
  BY <1>2, <1>3, NotSent DEF ClientInv, Thread, Keeps, Sent
<1>5. Progress(c)'
  BY <1>2 DEF Progress, Fresh, Willing, After
<1>6. HasJob(c)'
  BY <1>2, <1>3 DEF ClientInv, HasJob, SameObj
<1>7. Job("source")' = c
  BY <1>2, <1>3 DEF ClientInv, HasJob, SameObj
<1>8. ASSUME NEW d \in Clients \ {c}
      PROVE  call'[d] \in {"begin", "done"} /\ ~Sent(d)'
  <2>1. ClientInv(d) /\ Same(d) /\ call[d] \in Calls
    BY <1>1 DEF OrderedInv, Domains
  <2>2. ~Migrating(d)
    BY <1>2, <1>3, <2>1, OneMigrating DEF ClientInv
  <2>3. ~OnTarget(d)
    BY <1>3, <2>1, OneOnTarget DEF ClientInv
  <2>4. ~Sent(d)
    BY <1>2, <1>3, <2>1 DEF ClientInv, HasJob, OneSender, Owner, Moving
  <2> QED
    BY <2>1, <2>2, <2>3, <2>4 DEF Migrating, OnTarget, Sent, Same, Calls
<1>9. OneSender(c)'
  BY <1>2, <1>3, <1>4, <1>7, <1>8
     DEF ClientInv, OneSender, Owner, Alone, Serving, HasTarget, OnTarget, Moving, SameHost
<1>10. Dangles(c)' /\ Keeps(c)' /\ Outcome(c)'
  BY <1>2, <1>4 DEF Dangles, Keeps, Outcome, Resumed, Cancelled, Moved, Ended
<1>11. Left' /\ NobodyDead' /\ (Active("source") => Listed("source"))'
  BY <1>2, <1>3 DEF OrderedInv, Left, NobodyDead, SameHost, SameObj
<1> QED
  BY <1>1, <1>2, <1>3, <1>4, <1>5, <1>6, <1>9, <1>10, <1>11, MigratingStep DEF SameObj, Waiting

LEMMA ConfirmCancelledStep ==
  ASSUME OrderedInv, NEW c \in Clients, ConfirmCancelled(c)
  PROVE  OrderedInv'
<1>1. Domains' /\ \A d \in Clients \ {c} : Same(d)
  BY DEF OrderedInv, Domains, Hosts, ConfirmCancelled, Then, threads, objects, Calls, Same
<1>2. /\ guest'["target"] = guest["target"]
      /\ \/ guest'["source"] = guest["source"]
         \/ guest["source"] = "suspended" /\ guest'["source"] = "running"
  BY DEF OrderedInv, Domains, Hosts, ConfirmCancelled
<1>3. /\ SameHost("target") /\ SameObj("source") /\ up["source"] /\ up'["source"]
      /\ maker' = maker /\ dangling' = dangling /\ kills' = kills
      /\ overtook' = overtook /\ unreaped' = unreaped
      /\ call[c] = "confirm" /\ call'[c] = "done"
      /\ cancelled[c] /\ cancelled'[c] /\ stream'[c] = stream[c]
      /\ recv'[c] = recv[c] /\ paused' = paused
  BY <1>2 DEF OrderedInv, Domains, Hosts, ConfirmCancelled, Then, Usable, threads, objects,
     SameHost, SameObj, Listed, Active, Job
<1>4. ClientInv(c) /\ Migrating(c) /\ Moving(c)
  BY <1>3 DEF OrderedInv, Migrating, Moving
<1>5. Sent(c)' <=> Sent(c)
  BY <1>3 DEF Sent
<1>6. Progress(c)' /\ HasJob(c)' /\ Keeps(c)'
  BY <1>3 DEF Progress, Fresh, Willing, After, HasJob, Migrating, Keeps
<1>7. OneSender(c)'
  <2>1. \A d \in Clients \ {c} : call'[d] = call[d] /\ (Sent(d)' <=> Sent(d))
    BY <1>1 DEF Sent, Same
  <2> QED
    BY <1>3, <1>4, <2>1
       DEF ClientInv, OneSender, Owner, Alone, Serving, HasTarget, OnTarget, SameHost, SameObj
<1>8. Dangles(c)'
  BY <1>3, <1>4, <1>5 DEF ClientInv, Thread, Dangles, There, SameHost
<1>9. Outcome(c)'
  BY <1>3, <1>4, <1>5 DEF ClientInv, Outcome, Resumed, Cancelled, Moved, Ended, There, SameHost
<1>10. Left' /\ NobodyDead' /\ (Active("source") => Listed("source"))'
  BY <1>1, <1>2, <1>3 DEF OrderedInv, Left, NobodyDead, SameHost, SameObj, Same, Sent
<1> QED
  BY <1>1, <1>3, <1>4, <1>5, <1>6, <1>7, <1>8, <1>9, <1>10, MigratingStep DEF SameObj, Waiting

LEMMA ConfirmMovedStep ==
  ASSUME OrderedInv, NEW c \in Clients, ConfirmMoved(c)
  PROVE  OrderedInv'
<1>1. \/ obj' = obj /\ guest' = guest
      \/ /\ Listed("source") /\ guest' = [guest EXCEPT !["source"] = "none"]
         /\ \/ obj' = [obj EXCEPT !["source"] = Unlist(EndJob(obj["source"]))]
            \/ /\ obj["source"].persistent
               /\ obj' = [obj EXCEPT !["source"] = EndJob(Cleanup(obj["source"]))]
  <2>1. CASE obj["source"].listed /\ Exists("source")
    BY <2>1 DEF OrderedInv, Domains, Hosts, ConfirmMoved, Listed
  <2>2. CASE ~(obj["source"].listed /\ Exists("source"))
    BY <2>2 DEF ConfirmMoved
  <2> QED
    BY <2>1, <2>2
<1>2. Domains' /\ \A d \in Clients \ {c} : Same(d)
  <2>1. DOMAIN obj' = Hosts /\ DOMAIN guest' = Hosts /\ \A h \in Hosts : DOMAIN obj'[h] = Fields
    BY <1>1 DEF OrderedInv, Domains, Fields, Hosts, Unlist, EndJob, Cleanup
  <2> QED
    BY <2>1 DEF OrderedInv, Domains, ConfirmMoved, Then, threads, objects, history, Calls, Same
<1>3. \/ SameObj("source") /\ guest' = guest
      \/ Listed("source") /\ guest'["source"] = "none" /\ ~Active("source")'
  <2>1. DOMAIN obj["source"] = Fields /\ DOMAIN obj = Hosts /\ DOMAIN guest = Hosts
    BY DEF OrderedInv, Domains, Hosts
  <2>2. ASSUME obj' = [obj EXCEPT !["source"] = Unlist(EndJob(obj["source"]))]
        PROVE  ~Active("source")'
    BY <2>1, <2>2 DEF Unlist, EndJob, Active, Fields, Hosts
  <2>3. ASSUME obj["source"].persistent,
               obj' = [obj EXCEPT !["source"] = EndJob(Cleanup(obj["source"]))]
        PROVE  ~Active("source")'
    BY <2>1, <2>3 DEF Cleanup, EndJob, Active, Fields, Hosts
  <2>4. CASE obj' = obj /\ guest' = guest
    BY <2>4 DEF SameObj, Listed, Active, Job
  <2>5. ASSUME guest' = [guest EXCEPT !["source"] = "none"]
        PROVE  guest'["source"] = "none"
    BY <2>1, <2>5 DEF Hosts
  <2> QED
    BY <1>1, <2>2, <2>3, <2>4, <2>5
<1>4. /\ SameHost("target") /\ up["source"] /\ up'["source"]
      /\ maker' = maker /\ dangling' = dangling /\ kills' = kills
      /\ overtook' = overtook /\ unreaped' = unreaped
      /\ call[c] = "confirm" /\ call'[c] = "done"
      /\ ~cancelled[c] /\ ~cancelled'[c] /\ stream'[c] = stream[c]
      /\ recv'[c] = recv[c] /\ paused' = paused
  <2>1. guest'["target"] = guest["target"] /\ obj'["target"] = obj["target"]
    BY <1>1 DEF OrderedInv, Domains, Hosts
  <2> QED
    BY <2>1 DEF OrderedInv, Domains, Hosts, ConfirmMoved, Then, Usable, threads, objects, history,
       SameHost, SameObj, Listed, Active, Job
<1>5. ClientInv(c) /\ Migrating(c) /\ Moving(c) /\ (Sent(c)' <=> Sent(c))
  BY <1>4 DEF OrderedInv, Migrating, Moving, Sent
<1>6. Progress(c)' /\ HasJob(c)' /\ Keeps(c)'
  BY <1>4 DEF Progress, Fresh, Willing, After, HasJob, Migrating, Keeps
<1>7. ~Active("source")' \/ Job("source")' = c
  <2>1. CASE SameObj("source")
    BY <1>4, <1>5, <2>1 DEF ClientInv, OneSender, Owner, SameObj
  <2> QED
    BY <1>3, <2>1
<1>8. OneSender(c)'
  <2>1. \A d \in Clients \ {c} : call'[d] = call[d] /\ (Sent(d)' <=> Sent(d))
    BY <1>2 DEF Sent, Same
  <2> QED
    BY <1>4, <1>5, <1>7, <2>1
       DEF ClientInv, OneSender, Owner, Alone, Serving, HasTarget, OnTarget
<1>9. Dangles(c)'
  BY <1>4, <1>5 DEF ClientInv, Thread, Dangles, There, SameHost
<1>10. Outcome(c)'
  BY <1>3, <1>4, <1>5 DEF ClientInv, Outcome, Resumed, Cancelled, Moved, Ended, Alive, There, SameHost
<1>11. NobodyDead' /\ (Active("source") => Listed("source"))'
  BY <1>3, <1>4 DEF OrderedInv, NobodyDead, SameObj, SameHost
<1>12. Left'
  <2>1. SUFFICES ASSUME kills = 0, ~overtook, \A d \in Clients : ~paused[d]
                 PROVE  Sent(c)
    BY <1>4, <1>5 DEF Left
  <2>2. There
    BY <1>4, <1>5, <2>1 DEF ClientInv, Outcome, Moved, Ended, There
  <2>3. maker \in Clients /\ Sent(maker)
    BY <2>2 DEF OrderedInv, Received, MadeBySender
  <2> QED
    BY <1>4, <2>3, NoOtherSender
<1>13. Listed("source")' => Listed("source")
  BY <1>3 DEF SameObj
<1> QED
  BY <1>2, <1>4, <1>5, <1>6, <1>8, <1>9, <1>10, <1>11, <1>12, <1>13, MigratingStep DEF Waiting

\* A step of a client that leaves both hosts alone does not disturb another one, unless
\* it goes on where that one has sent.
LEMMA StillHosts ==
  ASSUME OrderedInv, NEW c \in Clients, \A d \in Clients \ {c} : Same(d),
         SameHost("source"), SameHost("target"), maker' = maker, dangling' = dangling,
         kills' = kills, overtook' = overtook, unreaped' = unreaped, recv'[c] = recv[c], ~Waiting(c)',
         Sent(c)' <=> Sent(c),
         NEW d \in Clients \ {c}, Moving(d) => call'[c] \in {"begin", "done"}
  PROVE  ClientInv(d)'
<1>1. ClientInv(d) /\ Same(d)
  BY DEF OrderedInv
<1>2. Progress(d)' /\ Thread(d)'
  BY <1>1, OthersProgress, SourceStep DEF OrderedInv, ClientInv
<1>3. HasJob(d)' /\ Owner(d)' /\ Serving(d)' /\ HasTarget(d)'
  BY <1>1 DEF ClientInv, HasJob, Migrating, OneSender, Owner, Serving, HasTarget, OnTarget, Moving,
     Sent, Same, SameHost, SameObj
<1>4. Alone(d)'
  BY <1>1 DEF ClientInv, OneSender, Alone, Moving, Sent, Same
<1>5. Outcome(d)'
  BY <1>1 DEF ClientInv, Outcome, Resumed, Cancelled, Moved, Ended, Moving, Alive, There, Sent,
     Same, SameHost
<1> QED
  BY <1>1, <1>2, <1>3, <1>4, <1>5 DEF ClientInv, OneSender

LEMMA MigrateBegin3Step ==
  ASSUME OrderedInv, NEW c \in Clients, MigrateBegin3(c)
  PROVE  OrderedInv'
<1>1. Domains' /\ \A d \in Clients \ {c} : Same(d)
  BY DEF OrderedInv, Domains, Fields, Hosts, MigrateBegin3, Then, threads, objects, history, Calls, Same
<1>2. /\ SameHost("target") /\ guest'["source"] = guest["source"] /\ up'["source"] = up["source"]
      /\ maker' = maker /\ dangling' = dangling /\ kills' = kills
      /\ overtook' = overtook /\ unreaped' = unreaped
      /\ call[c] = "begin" /\ ~cancelled'[c] /\ stream'[c] = stream[c] /\ up["source"]
      /\ recv'[c] = recv[c] /\ paused' = paused
  BY DEF OrderedInv, Domains, Hosts, MigrateBegin3, Then, Usable, threads, objects, history,
     SameHost, SameObj, Listed, Active, Job
<1>3. \/ call'[c] = "done" /\ SameObj("source")
      \/ /\ call'[c] = "prepare" /\ Listed("source") /\ Job("source") = NoJob /\ Active("source")
         /\ Listed("source")' /\ Active("source")' /\ Job("source")' = c
  BY DEF OrderedInv, Domains, Fields, Hosts, MigrateBegin3, Then, SameObj, Listed, Active, Job
<1>4. ClientInv(c) /\ ~Sent(c) /\ ~Sent(c)' /\ ~Moving(c)'
  BY <1>2, <1>3, NotSent DEF OrderedInv, ClientInv, Moving, Sent
<1>5. \A d \in Clients \ {c} : ClientInv(d)'
  <2>1. CASE call'[c] = "done" /\ SameObj("source")
    BY <1>1, <1>2, <1>4, <2>1, StillHosts DEF SameHost, Waiting
  <2>2. CASE Listed("source") /\ Job("source") = NoJob /\ Active("source")
    <3>1. SUFFICES ASSUME NEW d \in Clients \ {c} PROVE ClientInv(d)'
      OBVIOUS
    <3>2. ClientInv(d) /\ Same(d) /\ d # NoJob
      BY <1>1, MigrationAssumption DEF OrderedInv, NoJob
    <3>3. ~Moving(d) /\ ~Migrating(d)
      BY <1>2, <2>2, <3>2 DEF ClientInv, HasJob, OneSender, Owner
    <3>4. ~Moving(d)' /\ ~Migrating(d)'
      BY <3>2, <3>3 DEF Moving, Migrating, Sent, Same
    <3>5. Progress(d)' /\ Thread(d)'
      BY <1>1, <1>2, <1>3, <1>4, <3>2, OthersProgress, SourceStep DEF OrderedInv, ClientInv, Waiting
    <3>6. HasJob(d)' /\ OneSender(d)' /\ Outcome(d)'
      BY <1>2, <3>2, <3>3, <3>4 DEF ClientInv, HasJob, OneSender, Owner, Alone, Serving, HasTarget,
         OnTarget, Outcome, Resumed, Cancelled, Moved, Ended, Same, SameHost, SameObj
    <3> QED
      BY <3>5, <3>6 DEF ClientInv
  <2> QED
    BY <1>3, <2>1, <2>2
<1>6. Progress(c)' /\ HasJob(c)' /\ OneSender(c)' /\ Keeps(c)'
  BY <1>2, <1>3, <1>4 DEF ClientInv, Progress, Fresh, Willing, After, HasJob, Migrating,
     OneSender, Owner, Alone, Serving, HasTarget, OnTarget, Thread, Keeps
<1>7. Dangles(c)' /\ Outcome(c)'
  BY <1>4 DEF Dangles, Outcome, Resumed, Cancelled, Moved, Ended
<1>8. Received' /\ Restores(c)' /\ Made(c)' /\ Loses(c)'
  BY <1>1, <1>2, <1>3, <1>4, SourceStep DEF OrderedInv, ClientInv, Waiting
<1>9. Left' /\ NobodyDead' /\ (Active("source") => Listed("source"))'
  BY <1>1, <1>2, <1>3, <1>4 DEF OrderedInv, Left, NobodyDead, SameHost, SameObj, Same, Sent
<1> QED
  BY <1>1, <1>5, <1>6, <1>7, <1>8, <1>9 DEF OrderedInv, ClientInv, Thread

LEMMA CallFailsStep ==
  ASSUME OrderedInv, NEW c \in Clients, CallFails(c)
  PROVE  OrderedInv'
<1>1. call[c] # "finish"
  BY DEF OrderedInv, ClientInv, OneSender, Serving, OnTarget, CallFails, HostOf
<1>2. /\ SameHost("source") /\ SameHost("target") /\ kills' = kills
      /\ maker' = maker /\ dangling' = dangling /\ overtook' = overtook /\ unreaped' = unreaped
      /\ recv' = recv /\ paused' = paused
  BY <1>1 DEF CallFails, Then, hosts, threads, objects, history, SameHost, SameObj, Listed, Active, Job
<1>3. \/ /\ call[c] \in {"perform", "sending"} /\ ~up["source"]
         /\ Then(c, "finish", TRUE)
      \/ /\ call[c] \in {"begin", "prepare", "assigned", "granted", "confirm"} /\ (call[c] = "confirm" => ~up["source"])
         /\ Then(c, "done", cancelled[c]) /\ stream'[c] = stream[c]
  <2>1. call[c] \in Calls
    BY DEF OrderedInv, Domains
  <2>2. call[c] \in {"perform", "sending"} => Then(c, "finish", TRUE)
    BY DEF CallFails
  <2>3. call[c] \in {"begin", "prepare", "assigned", "granted", "confirm"} =>
          Then(c, "done", cancelled[c]) /\ stream'[c] = stream[c]
    BY <1>1 DEF OrderedInv, Domains, CallFails
  <2>4. call[c] # "done" /\ ~up[HostOf(call[c])]
    BY DEF CallFails
  <2> QED
    BY <1>1, <2>1, <2>2, <2>3, <2>4 DEF Calls, HostOf
<1>4. Domains' /\ \A d \in Clients \ {c} : Same(d)
  BY <1>2, <1>3 DEF OrderedInv, Domains, CallFails, Then, hosts, Same, Calls
<1>5. /\ \/ call[c] \in {"perform", "sending"} /\ call'[c] = "finish" /\ cancelled'[c]
         \/ /\ call[c] \in {"begin", "prepare", "assigned", "granted", "confirm"} /\ (call[c] = "confirm" => ~up["source"])
            /\ call'[c] = "done" /\ cancelled'[c] = cancelled[c] /\ stream'[c] = stream[c]
      /\ stream'[c] \in {stream[c], "broken"}
  BY <1>3 DEF OrderedInv, Domains, Then, CallFails
<1>6. ClientInv(c)
  BY DEF OrderedInv
<1>7. (Sent(c)' <=> Sent(c)) /\ (Moving(c)' => Sent(c) /\ call[c] = "confirm")
  BY <1>5, <1>6, NotSent DEF ClientInv, Moving, Sent
<1>8. \A d \in Clients \ {c} : ClientInv(d)'
  BY <1>2, <1>4, <1>5, <1>7, StillHosts, NoOtherSender DEF Waiting
<1>9. Received' /\ Restores(c)' /\ Made(c)' /\ Loses(c)'
  BY <1>2, <1>4, <1>5, <1>7, SourceStep DEF OrderedInv, ClientInv, Waiting
<1>10. Progress(c)' /\ HasJob(c)'
  BY <1>5, <1>6, <1>7, NotSent DEF ClientInv, Progress, Fresh, Willing, After, HasJob, Migrating
<1>11. OneSender(c)'
  <2>1. Moving(c)' => Moving(c) /\ ~OnTarget(c)'
    BY <1>5, <1>7 DEF Moving, OnTarget
  <2>2. OnTarget(c)' => OnTarget(c) /\ ~Moving(c)
    BY <1>5, <1>6, NotSent DEF OnTarget, ClientInv
  <2>3. Owner(c)' /\ Serving(c)' /\ HasTarget(c)'
    BY <1>2, <1>6, <2>1, <2>2
       DEF ClientInv, OneSender, Owner, Serving, HasTarget, SameHost, SameObj
  <2>4. Alone(c)'
    BY <1>4, <1>6, <2>1 DEF ClientInv, OneSender, Alone, Sent, Same
  <2> QED
    BY <2>3, <2>4 DEF OneSender
<1>12. Dangles(c)' /\ Keeps(c)' /\ Outcome(c)'
  BY <1>2, <1>5, <1>6, <1>7 DEF ClientInv, Thread, Dangles, Keeps, Outcome, Resumed, Cancelled, Moved,
     Ended, Moving, Alive, There, SameHost
<1>13. Left' /\ NobodyDead' /\ (Active("source") => Listed("source"))'
  <2>1. \A d \in Clients : Sent(d) /\ call[d] = "done" /\ ~cancelled[d] =>
          Sent(d)' /\ call'[d] = "done" /\ ~cancelled'[d]
    BY <1>4, <1>5, <1>7 DEF Same, Sent
  <2> QED
    BY <1>2, <2>1 DEF OrderedInv, Left, NobodyDead, SameHost, SameObj
<1> QED
  BY <1>4, <1>8, <1>9, <1>10, <1>11, <1>12, <1>13 DEF OrderedInv, ClientInv, Thread

\* A step of a thread: what is left to show is about the target's guest.
LEMMA ThreadStep ==
  ASSUME OrderedInv, NEW c \in Clients, \A d \in Clients \ {c} : Same(d), Domains',
         SameHost("source"), up'["target"] = up["target"], up["target"],
         Listed("target")' = Listed("target"), Job("target")' = Job("target"),
         call'[c] = call[c], cancelled'[c] = cancelled[c], paused'[c] = paused[c],
         Sent(c)' => Sent(c), Alive(c), recv'[c] # "none", dangling' = dangling,
         overtook' = overtook, unreaped' = unreaped, kills' = kills, Received',
         guest'["target"] = "dead" => guest["target"] = "dead",
         \A d \in Clients : Restores(d)' /\ Made(d)' /\ Dangles(d)' /\ Loses(d)',
         \A d \in Clients : Cancelled(d)' /\ Moved(d)'
  PROVE  OrderedInv'
<1>1. \A d \in Clients : HasJob(d)' /\ OneSender(d)' /\ Resumed(d)'
  BY ReceiveStep DEF OrderedInv
<1>2. ASSUME NEW d \in Clients
      PROVE  Progress(d)' /\ Keeps(d)'
  <2>1. ClientInv(d)
    BY DEF OrderedInv
  <2>2. CASE d = c
    BY <2>1, <2>2 DEF ClientInv, Progress, Fresh, Willing, After, Thread, Keeps, Alive
  <2>3. CASE d # c
    BY <2>1, <2>3, OthersProgress DEF ClientInv, Thread, Keeps, Same
  <2> QED
    BY <2>2, <2>3
<1>3. \A d \in Clients : ClientInv(d)'
  BY <1>1, <1>2 DEF ClientInv, Thread, Outcome
<1>4. NobodyDead' /\ (Active("source") => Listed("source"))'
  BY DEF OrderedInv, NobodyDead, SameHost, SameObj
<1>5. Left'
  <2>1. SUFFICES ASSUME kills = 0, ~overtook, \A d \in Clients : ~paused[d],
                        guest["source"] \notin {"running", "suspended"}
                 PROVE  \E d \in Clients : Sent(d)' /\ call'[d] = "done" /\ ~cancelled'[d]
    BY DEF Left, SameHost, Same
  <2>2. PICK d \in Clients : Sent(d) /\ call[d] = "done" /\ ~cancelled[d]
    BY <2>1 DEF OrderedInv, Left
  <2>3. d # c
    BY <2>1, <2>2 DEF OrderedInv, ClientInv, Outcome, Moved, Ended, Moving
  <2> QED
    BY <2>2, <2>3 DEF Sent, Same
<1> QED
  BY <1>3, <1>4, <1>5 DEF OrderedInv

LEMMA ReceiveAcceptsStep ==
  ASSUME OrderedInv, NEW c \in Clients, ReceiveAccepts(c)
  PROVE  OrderedInv'
<1>1. Domains' /\ \A d \in Clients \ {c} : Same(d)
  BY DEF OrderedInv, Domains, ReceiveAccepts, client, objects, history, Same
<1>2. /\ SameHost("source") /\ SameObj("target") /\ up["target"] /\ up'["target"]
      /\ kills' = kills /\ dangling' = dangling /\ overtook' = overtook /\ unreaped' = unreaped
      /\ recv[c] = "accept"
      /\ call' = call /\ cancelled' = cancelled /\ paused' = paused
  BY DEF OrderedInv, Domains, Hosts, ReceiveAccepts, client, objects, history, SameHost, SameObj,
     Listed, Active, Job
<1>3. \/ /\ guest["target"] = "none" /\ guest'["target"] = "receiving" /\ maker' = c
         /\ recv'[c] = "restore" /\ stream'[c] = stream[c]
      \/ /\ guest'["target"] = guest["target"] /\ maker' = maker
         /\ recv'[c] = "failed" /\ stream'[c] = "broken"
  BY DEF OrderedInv, Domains, Hosts, ReceiveAccepts
<1>4. /\ \A d \in Clients : ClientInv(d)
      /\ Received /\ Alive(c) /\ (Sent(c)' => Sent(c))
      /\ There' => There /\ maker' = maker /\ maker # c
  BY <1>2, <1>3 DEF OrderedInv, Alive, Sent, There, Received, MadeBySender
<1>5. ASSUME NEW d \in Clients
      PROVE  Restores(d)' /\ Made(d)' /\ Loses(d)'
  BY <1>1, <1>2, <1>3, <1>4
     DEF ClientInv, Thread, Restores, Made, Loses, Waiting, Alive, Sent, Same, SameObj
<1>6. ASSUME NEW d \in Clients
      PROVE  Dangles(d)' /\ Cancelled(d)'
  <2>1. CASE d = c
    BY <1>2, <1>3, <1>4, <2>1 DEF ClientInv, Thread, Dangles, Outcome, Cancelled, Ended, Moving
  <2>2. CASE d # c
    BY <1>1, <1>2, <1>4, <2>2
       DEF ClientInv, Thread, Dangles, Outcome, Cancelled, Ended, Moving, Sent, Same
  <2> QED
    BY <2>1, <2>2
<1>7. ASSUME NEW d \in Clients
      PROVE  Moved(d)'
  <2>1. CASE d = c
    BY <1>2, <1>4, <2>1 DEF ClientInv, Outcome, Moved, Ended, Moving
  <2>2. CASE d # c
    BY <1>1, <1>2, <1>3, <1>4, <2>2
       DEF ClientInv, Outcome, Moved, Ended, Moving, Alive, Sent, Same
  <2> QED
    BY <2>1, <2>2
<1>8. Received'
  <2>1. Receiving' /\ TargetGuest'
    BY <1>1, <1>2, <1>3, <1>4 DEF Received, Receiving, TargetGuest, Same
  <2>2. MadeBySender' /\ Known'
    BY <1>1, <1>2, <1>4 DEF Received, MadeBySender, Known, Sent, Same, SameObj
  <2> QED
    BY <2>1, <2>2 DEF Received
<1>9. /\ guest'["target"] = "dead" => guest["target"] = "dead"
      /\ recv'[c] # "none"
  BY <1>3
<1> QED
  BY <1>1, <1>2, <1>4, <1>5, <1>6, <1>7, <1>8, <1>9, ThreadStep DEF SameObj

\* The thread of the client that has sent: what holds of the others then.
LEMMA OneSent ==
  ASSUME OrderedInv, NEW c \in Clients, Sent(c), NEW d \in Clients, d # c
  PROVE  ~Sent(d) /\ ~Moving(d)
BY DEF OrderedInv, ClientInv, OneSender, Alone, Moving

LEMMA ReceiveMadeStep ==
  ASSUME OrderedInv, NEW c \in Clients, ReceiveMade(c)
  PROVE  OrderedInv'
<1>1. Domains' /\ \A d \in Clients \ {c} : Same(d)
  BY DEF OrderedInv, Domains, Fields, Hosts, ReceiveMade, Writes, client, objects, history, Same
<1>2. /\ SameHost("source") /\ up["target"] /\ up'["target"] /\ maker' = maker
      /\ kills' = kills /\ dangling' = dangling /\ overtook' = overtook /\ unreaped' = unreaped
      /\ recv[c] = "restore" /\ recv'[c] = "made" /\ Sent(c)
      /\ guest["target"] = "receiving" /\ guest'["target"] = "paused"
      /\ call' = call /\ cancelled' = cancelled /\ paused' = paused /\ stream' = stream
  BY DEF OrderedInv, Domains, Hosts, ReceiveMade, Writes, client, objects, history, SameHost, SameObj,
     Listed, Active, Job, Sent
<1>3. /\ Listed("target")' = Listed("target") /\ Job("target")' = Job("target")
      /\ c \notin dangling => Active("target")'
  BY DEF OrderedInv, Domains, Fields, Hosts, ReceiveMade, Writes, Listed, Active, Job
<1>4. ClientInv(c) /\ maker = c /\ Alive(c) /\ Sent(c)' /\ ~There
  BY <1>2 DEF OrderedInv, ClientInv, Thread, Restores, Alive, Sent, There
<1>5. \A d \in Clients \ {c} : ClientInv(d) /\ ~Sent(d) /\ ~Moving(d)
  BY <1>2, OneSent DEF OrderedInv
<1>6. \A d \in Clients \ {c} : ~Sent(d)' /\ ~Moving(d)'
  BY <1>1, <1>5 DEF Sent, Moving, Same
<1>7. ASSUME NEW d \in Clients
      PROVE  /\ Restores(d)' /\ Made(d)' /\ Loses(d)'
             /\ Dangles(d)' /\ Cancelled(d)' /\ Moved(d)'
  <2>1. CASE d = c
    BY <1>2, <1>3, <1>4, <2>1 DEF ClientInv, Thread, Restores, Made, Loses, Waiting, Dangles, Outcome,
       Cancelled, Moved, Ended, Moving, Alive
  <2>2. CASE d # c
    <3>1. recv'[d] = recv[d] /\ recv[d] # "restore"
      BY <1>1, <1>4, <1>5, <2>2 DEF ClientInv, Thread, Restores, Same
    <3> QED
      BY <1>2, <1>3, <1>5, <1>6, <2>2, <3>1 DEF ClientInv, Thread, Restores, Made, Loses, Waiting, Dangles,
         Cancelled, Moved, Ended, Alive
  <2> QED
    BY <2>1, <2>2
<1>8. Received'
  BY <1>2, <1>3, <1>4 DEF ClientInv, Thread, Dangles, Loses, Waiting, Received, Receiving, MadeBySender,
     Known, TargetGuest
<1> QED
  BY <1>1, <1>2, <1>3, <1>4, <1>7, <1>8, ThreadStep

LEMMA ReceiveUnpausesStep ==
  ASSUME OrderedInv, NEW c \in Clients, ReceiveUnpauses(c)
  PROVE  OrderedInv'
<1>1. Domains' /\ \A d \in Clients \ {c} : Same(d)
  BY DEF OrderedInv, Domains, ReceiveUnpauses, client, objects, history, Same
<1>2. /\ guest'["source"] = guest["source"]
      /\ \/ guest'["target"] = guest["target"]
         \/ guest["target"] = "paused" /\ guest'["target"] = "running"
  BY DEF OrderedInv, Domains, Hosts, ReceiveUnpauses
<1>3. /\ SameHost("source") /\ SameObj("target") /\ up["target"] /\ up'["target"] /\ maker' = maker
      /\ kills' = kills /\ dangling' = dangling /\ overtook' = overtook /\ unreaped' = unreaped
      /\ recv[c] = "made" /\ recv'[c] = "saving"
      /\ call' = call /\ cancelled' = cancelled /\ paused' = paused /\ stream' = stream
  BY <1>2 DEF OrderedInv, Domains, ReceiveUnpauses, client, objects, history, SameHost, SameObj,
     Listed, Active, Job
<1>4. /\ \A d \in Clients : ClientInv(d)
      /\ Received /\ Alive(c) /\ (There' <=> There)
      /\ guest'["target"] = "receiving" <=> guest["target"] = "receiving"
      /\ guest["target"] = "running" => guest'["target"] = "running"
  BY <1>2, <1>3 DEF OrderedInv, Alive, There
<1>5. ASSUME NEW d \in Clients
      PROVE  /\ Restores(d)' /\ Made(d)' /\ Loses(d)'
             /\ Dangles(d)' /\ Cancelled(d)' /\ Moved(d)'
  <2>1. (Sent(d)' <=> Sent(d)) /\ (Ended(d)' <=> Ended(d))
    BY <1>3 DEF Ended, Moving, Sent
  <2>2. CASE d = c
    BY <1>3, <1>4, <2>1, <2>2 DEF ClientInv, Thread, Restores, Made, Loses, Waiting, Dangles, Outcome,
       Cancelled, Moved, Alive, SameObj
  <2>3. CASE d # c
    BY <1>1, <1>3, <1>4, <2>1, <2>3 DEF ClientInv, Thread, Restores, Made, Loses, Waiting, Dangles, Outcome,
       Cancelled, Moved, Alive, Same, SameObj
  <2> QED
    BY <2>2, <2>3
<1>6. Received'
  <2>1. Receiving' /\ TargetGuest'
    BY <1>1, <1>2, <1>3, <1>4 DEF Received, Receiving, TargetGuest, Same
  <2>2. MadeBySender' /\ Known'
    BY <1>1, <1>3, <1>4 DEF Received, MadeBySender, Known, Sent, Same, SameObj
  <2> QED
    BY <2>1, <2>2 DEF Received
<1>7. /\ guest'["target"] = "dead" => guest["target"] = "dead"
      /\ Sent(c)' => Sent(c)
  BY <1>2, <1>3 DEF Sent
<1> QED
  BY <1>1, <1>3, <1>4, <1>5, <1>6, <1>7, ThreadStep DEF SameObj

LEMMA ReceiveEndsStep ==
  ASSUME OrderedInv, NEW c \in Clients, ReceiveEnds(c)
  PROVE  OrderedInv'
<1>1. Domains' /\ \A d \in Clients \ {c} : Same(d)
  BY DEF OrderedInv, Domains, ReceiveEnds, hosts, client, objects, history, Same
<1>2. /\ SameHost("source") /\ SameHost("target") /\ up["target"] /\ maker' = maker
      /\ kills' = kills /\ dangling' = dangling /\ overtook' = overtook /\ unreaped' = unreaped
      /\ recv[c] = "saving" /\ recv'[c] = "done"
      /\ call' = call /\ cancelled' = cancelled /\ paused' = paused /\ stream' = stream
  BY DEF OrderedInv, Domains, ReceiveEnds, hosts, client, objects, history, SameHost, SameObj,
     Listed, Active, Job
<1>3. (\A d \in Clients : ClientInv(d)) /\ Received /\ Alive(c) /\ (There' <=> There)
  BY <1>2 DEF OrderedInv, Alive, There, SameHost
<1>4. ASSUME NEW d \in Clients
      PROVE  /\ Restores(d)' /\ Made(d)' /\ Loses(d)'
             /\ Dangles(d)' /\ Cancelled(d)' /\ Moved(d)'
  <2>1. (Sent(d)' <=> Sent(d)) /\ (Ended(d)' <=> Ended(d))
    BY <1>2 DEF Ended, Moving, Sent
  <2>2. CASE d = c
    BY <1>2, <1>3, <2>1, <2>2 DEF ClientInv, Thread, Restores, Made, Loses, Waiting, Dangles, Outcome,
       Cancelled, Moved, Alive, SameHost, SameObj
  <2>3. CASE d # c
    BY <1>1, <1>2, <1>3, <2>1, <2>3 DEF ClientInv, Thread, Restores, Made, Loses, Waiting, Dangles, Outcome,
       Cancelled, Moved, Alive, Same, SameHost, SameObj
  <2> QED
    BY <2>2, <2>3
<1>5. Received'
  <2>1. Receiving' /\ TargetGuest'
    BY <1>1, <1>2, <1>3 DEF Received, Receiving, TargetGuest, Same, SameHost
  <2>2. MadeBySender' /\ Known'
    BY <1>1, <1>2, <1>3 DEF Received, MadeBySender, Known, Sent, Same, SameHost, SameObj
  <2> QED
    BY <2>1, <2>2 DEF Received
<1>6. Sent(c)' => Sent(c)
  BY <1>2 DEF Sent
<1> QED
  BY <1>1, <1>2, <1>3, <1>4, <1>5, <1>6, ThreadStep DEF SameHost, SameObj

LEMMA ReceiveFailsStep ==
  ASSUME OrderedInv, NEW c \in Clients, ReceiveFails(c)
  PROVE  OrderedInv'
<1>1. obj' = obj \/ \E v : obj' = [obj EXCEPT !["target"].active = v]
  BY DEF ReceiveFails, Writes
<1>2. Domains' /\ \A d \in Clients \ {c} : Same(d)
  <2>1. DOMAIN obj' = Hosts /\ \A h \in Hosts : DOMAIN obj'[h] = Fields
    BY <1>1 DEF OrderedInv, Domains, Hosts, Fields
  <2> QED
    BY <2>1 DEF OrderedInv, Domains, ReceiveFails, client, objects, history, Same
<1>3. SameObj("source") /\ Listed("target")' = Listed("target") /\ Job("target")' = Job("target")
  BY <1>1 DEF OrderedInv, Domains, Hosts, Fields, SameObj, Listed, Active, Job
<1>4. /\ SameHost("source") /\ up["target"] /\ up'["target"] /\ maker' = maker
      /\ kills' = kills /\ dangling' = dangling /\ overtook' = overtook /\ unreaped' = unreaped
      /\ recv[c] \in {"restore", "made", "saving"} /\ recv'[c] = "failed"
      /\ call' = call /\ cancelled' = cancelled /\ paused' = paused
  BY <1>3 DEF OrderedInv, Domains, Hosts, ReceiveFails, client, objects, history, SameHost
<1>5. /\ maker = c => guest'["target"] = "none"
      /\ maker # c => guest'["target"] = guest["target"]
  BY DEF OrderedInv, Domains, Hosts, ReceiveFails
<1>6. Sent(c)' <=> Sent(c)
  BY DEF OrderedInv, Domains, ReceiveFails, Sent
<1>7. (\A d \in Clients : ClientInv(d)) /\ Received /\ Alive(c)
  BY <1>4 DEF OrderedInv, Alive
<1>8. There => maker = c
  <2>1. SUFFICES ASSUME There, maker # c PROVE FALSE
    OBVIOUS
  <2>2. maker \in Clients /\ Sent(maker)
    BY <1>7, <2>1 DEF Received, MadeBySender
  <2>3. ~Sent(c)
    BY <2>1, <2>2, OneSent
  <2> QED
    BY <1>4, <1>7, <2>1, <2>3 DEF ClientInv, Thread, Restores, Made
<1>9. ~There' /\ (guest'["target"] = "receiving" => guest["target"] = "receiving" /\ maker # c)
  BY <1>5, <1>8 DEF There
<1>10. ASSUME NEW d \in Clients
       PROVE  /\ Restores(d)' /\ Made(d)' /\ Loses(d)'
              /\ Dangles(d)' /\ Cancelled(d)' /\ Moved(d)'
  <2>1. CASE d = c
    BY <1>3, <1>4, <1>6, <1>7, <1>9, <2>1 DEF ClientInv, Thread, Restores, Made, Loses, Waiting, Dangles, Outcome,
       Cancelled, Moved, Ended, Moving, Alive
  <2>2. CASE d # c
    <3>1. (Sent(d)' <=> Sent(d)) /\ (Ended(d)' <=> Ended(d))
      BY <1>2, <1>4, <2>2 DEF Ended, Moving, Sent, Same
    <3>2. recv[d] = "restore" => maker # c
      BY <1>7, <2>2 DEF ClientInv, Thread, Restores
    <3>3. guest["target"] = "running" => ~Ended(d)
      BY <1>7, <1>8, <2>2, OneSent DEF There, Received, MadeBySender, Ended
    <3> QED
      BY <1>2, <1>3, <1>4, <1>5, <1>7, <1>9, <2>2, <3>1, <3>2, <3>3
         DEF ClientInv, Thread, Restores, Made, Loses, Waiting, Dangles, Outcome, Cancelled, Moved, Alive, Same
  <2> QED
    BY <2>1, <2>2
<1>11. Received'
  BY <1>2, <1>4, <1>5, <1>7, <1>9 DEF Received, Receiving, MadeBySender, Known, TargetGuest, Same
<1>12. guest'["target"] = "dead" => guest["target"] = "dead"
  BY <1>5
<1> QED
  BY <1>2, <1>3, <1>4, <1>6, <1>7, <1>10, <1>11, <1>12, ThreadStep

\* While a client is in Prepare3 nobody has sent, and there is no guest.
LEMMA NobodySent ==
  ASSUME OrderedInv, NEW c \in Clients, call[c] \in {"prepare", "assigned", "granted"}
  PROVE  ~There /\ \A d \in Clients : ~Sent(d) /\ ~Moving(d)
<1>1. \A d \in Clients : ~Sent(d) /\ ~Moving(d)
  BY NotSent, NoOtherSender DEF OrderedInv, ClientInv
<1> QED
  BY <1>1 DEF OrderedInv, Received, MadeBySender

\* A step of Prepare3: what is left to show is whose the target's object is.
LEMMA PrepareStep ==
  ASSUME OrderedInv, NEW c \in Clients, call[c] \in {"prepare", "assigned", "granted"},
         \A d \in Clients \ {c} : Same(d), Domains',
         SameHost("source"), guest' = guest, up["target"], up' = up, maker' = maker, paused' = paused,
         dangling' = dangling, kills' = kills, overtook' = overtook, unreaped' = unreaped,
         call'[c] \in {"assigned", "granted", "perform", "done"}, ~cancelled'[c],
         \/ recv'[c] = recv[c] /\ stream'[c] = stream[c]
         \/ recv'[c] = "accept" /\ stream'[c] = "listening" /\ call'[c] = "perform",
         Listed("target") => Listed("target")', Waiting(c)' => Listed("target")',
         OnTarget(c)' => c \notin dangling,
         \A d \in Clients : OnTarget(d)' => Listed("target")' /\ Job("target")' = d
  PROVE  OrderedInv'
<1>1. /\ \A d \in Clients : ClientInv(d)
      /\ Received /\ recv[c] = "none" /\ stream[c] = "none"
  BY DEF OrderedInv, ClientInv, Progress, Fresh
<1>2. ~There /\ \A d \in Clients : ~Sent(d) /\ ~Moving(d)
  BY NobodySent
<1>3. ~There' /\ \A d \in Clients : ~Sent(d)' /\ ~Moving(d)'
  <2>1. ~Sent(c)' /\ ~Moving(c)'
    BY <1>1 DEF Sent, Moving
  <2> QED
    BY <1>2, <2>1 DEF There, Sent, Moving, Same
<1>4. ASSUME NEW d \in Clients
      PROVE  ClientInv(d)'
  <2>1. Progress(d)' /\ HasJob(d)'
    <3>1. CASE d = c
      BY <1>1, <1>3, <3>1 DEF ClientInv, Progress, Fresh, Willing, After, HasJob, Migrating,
         SameHost, SameObj
    <3>2. CASE d # c
      BY <1>1, <3>2, OthersProgress
         DEF ClientInv, HasJob, Migrating, Same, SameHost, SameObj
    <3> QED
      BY <3>1, <3>2
  <2>2. OneSender(d)' /\ Outcome(d)'
    BY <1>3 DEF OneSender, Owner, Alone, Serving, HasTarget, Outcome, Resumed, Cancelled, Moved, Ended
  <2>3. Restores(d)' /\ Made(d)' /\ Dangles(d)'
    BY <1>1, <1>2, <1>3 DEF ClientInv, Thread, Restores, Made, Dangles, Same
  <2>4. Loses(d)' /\ Keeps(d)'
    <3>1. CASE d = c
      BY <1>1, <3>1 DEF Loses, Waiting, Keeps, Alive, OnTarget
    <3>2. CASE d # c
      BY <1>1, <3>2 DEF ClientInv, Thread, Loses, Waiting, Keeps, Alive, Waiting, Same
    <3> QED
      BY <3>1, <3>2
  <2> QED
    BY <2>1, <2>2, <2>3, <2>4 DEF ClientInv, Thread
<1>5. Received'
  BY <1>1, <1>3 DEF Received, Receiving, MadeBySender, Known, TargetGuest, Same
<1>6. NobodyDead' /\ Left' /\ (Active("source") => Listed("source"))'
  BY <1>2 DEF OrderedInv, NobodyDead, Left, SameHost, SameObj
<1> QED
  BY <1>4, <1>5, <1>6 DEF OrderedInv

LEMMA MigratePrepare3Step ==
  ASSUME OrderedInv, NEW c \in Clients, MigratePrepare3(c)
  PROVE  OrderedInv'
<1>1. \/ Listed("target") /\ obj' = obj
      \/ ~Listed("target") /\ obj' = [obj EXCEPT !["target"] = Transient]
  BY DEF MigratePrepare3, Listed
<1>2. Domains' /\ \A d \in Clients \ {c} : Same(d)
  <2>1. DOMAIN obj' = Hosts /\ \A h \in Hosts : DOMAIN obj'[h] = Fields
    BY <1>1 DEF OrderedInv, Domains, Hosts, Fields, Transient
  <2> QED
    BY <2>1 DEF OrderedInv, Domains, MigratePrepare3, Then, threads, objects, history, Calls, Same
<1>3. /\ SameObj("source") /\ Listed("target")'
      /\ Listed("target") => Job("target")' = Job("target")
  BY <1>1 DEF OrderedInv, Domains, Hosts, Fields, Transient, Listed, Active, Job, SameObj
<1>4. /\ SameHost("source") /\ guest' = guest /\ up["target"] /\ up' = up
      /\ maker' = maker /\ dangling' = dangling /\ kills' = kills
      /\ overtook' = overtook /\ unreaped' = unreaped
      /\ call[c] = "prepare" /\ call'[c] = "assigned" /\ ~cancelled'[c]
      /\ stream' = stream /\ recv' = recv /\ paused' = paused
  BY <1>3 DEF OrderedInv, Domains, Hosts, MigratePrepare3, Then, Usable, threads, objects, history,
     SameHost
<1>5. ASSUME NEW d \in Clients, OnTarget(d)'
      PROVE  Listed("target")' /\ Job("target")' = d
  <2>1. ClientInv(d) /\ OnTarget(d) /\ ~Moving(d)
    BY <1>2, <1>4, <1>5, NobodySent DEF OrderedInv, OnTarget, Same
  <2> QED
    BY <1>3, <2>1 DEF ClientInv, OneSender, HasTarget
<1> QED
  BY <1>2, <1>3, <1>4, <1>5, PrepareStep DEF OnTarget

LEMMA PrepareGrantedStep ==
  ASSUME OrderedInv, NEW c \in Clients, PrepareGranted(c), ~orphaned'
  PROVE  OrderedInv'
<1>1. /\ c \notin dangling /\ Job("target") = NoJob
      /\ obj' = [obj EXCEPT !["target"].job = c]
  BY DEF PrepareGranted, Job
<1>2. Domains' /\ \A d \in Clients \ {c} : Same(d)
  <2>1. DOMAIN obj' = Hosts /\ \A h \in Hosts : DOMAIN obj'[h] = Fields
    BY <1>1 DEF OrderedInv, Domains, Hosts, Fields
  <2> QED
    BY <2>1 DEF OrderedInv, Domains, PrepareGranted, Then, Calls, Same
<1>3. SameObj("source") /\ Listed("target")' = Listed("target") /\ Job("target")' = c
  BY <1>1 DEF OrderedInv, Domains, Hosts, Fields, Listed, Active, Job, SameObj
<1>4. /\ SameHost("source") /\ guest' = guest /\ up["target"] /\ up' = up
      /\ maker' = maker /\ dangling' = dangling /\ kills' = kills
      /\ overtook' = overtook /\ unreaped' = unreaped
      /\ call[c] = "assigned" /\ call'[c] = "granted" /\ ~cancelled'[c]
      /\ stream' = stream /\ recv' = recv /\ paused' = paused
  BY <1>3 DEF OrderedInv, Domains, Hosts, PrepareGranted, Then, Usable, SameHost
<1>5. Listed("target")
  BY <1>1, <1>4 DEF OrderedInv, ClientInv, Thread, Loses, Waiting
<1>6. ASSUME NEW d \in Clients \ {c}
      PROVE  ~OnTarget(d)'
  <2>1. ClientInv(d) /\ ~Moving(d) /\ Same(d) /\ d # NoJob
    BY <1>2, <1>4, NobodySent, MigrationAssumption DEF OrderedInv, NoJob
  <2> QED
    BY <1>1, <2>1 DEF ClientInv, OneSender, HasTarget, OnTarget, Same
<1> QED
  BY <1>1, <1>2, <1>3, <1>4, <1>5, <1>6, PrepareStep DEF Waiting

LEMMA PrepareListensStep ==
  ASSUME OrderedInv, NEW c \in Clients, PrepareListens(c)
  PROVE  OrderedInv'
<1>1. Domains' /\ \A d \in Clients \ {c} : Same(d)
  BY DEF OrderedInv, Domains, PrepareListens, Then, hosts, objects, history, Calls, Same
<1>2. /\ SameHost("source") /\ SameObj("target") /\ guest' = guest /\ up["target"] /\ up' = up
      /\ maker' = maker /\ dangling' = dangling /\ kills' = kills
      /\ overtook' = overtook /\ unreaped' = unreaped
      /\ call[c] = "granted" /\ call'[c] = "perform" /\ ~cancelled'[c]
      /\ stream'[c] = "listening" /\ recv'[c] = "accept" /\ paused' = paused
  BY DEF OrderedInv, Domains, PrepareListens, Then, Usable, hosts, objects, history,
     SameHost, SameObj, Listed, Active, Job
<1>3. ASSUME NEW d \in Clients, OnTarget(d)'
      PROVE  Listed("target")' /\ Job("target")' = d
  <2>1. ClientInv(d) /\ OnTarget(d) /\ ~Moving(d)
    BY <1>1, <1>2, <1>3, NobodySent DEF OrderedInv, OnTarget, Same
  <2> QED
    BY <1>2, <2>1 DEF ClientInv, OneSender, HasTarget, SameObj
<1>4. c \notin dangling
  BY <1>2 DEF OrderedInv, ClientInv, Thread, Keeps
<1> QED
  BY <1>1, <1>2, <1>3, <1>4, PrepareStep DEF SameObj, Waiting

LEMMA MigratePrepare3FailsStep ==
  ASSUME OrderedInv, NEW c \in Clients, MigratePrepare3Fails(c)
  PROVE  OrderedInv'
<1>1. \/ obj' = obj
      \/ call[c] = "granted" /\ obj' = [obj EXCEPT !["target"] = EndJob(obj["target"])]
  BY DEF MigratePrepare3Fails
<1>2. Domains' /\ \A d \in Clients \ {c} : Same(d)
  <2>1. DOMAIN obj' = Hosts /\ \A h \in Hosts : DOMAIN obj'[h] = Fields
    BY <1>1 DEF OrderedInv, Domains, Hosts, Fields, EndJob
  <2> QED
    BY <2>1 DEF OrderedInv, Domains, MigratePrepare3Fails, Then, threads, objects, history, Calls, Same
<1>3. /\ SameObj("source") /\ Listed("target")' = Listed("target")
      /\ Job("target")' = Job("target") \/ call[c] = "granted"
  BY <1>1 DEF OrderedInv, Domains, Hosts, Fields, EndJob, Listed, Active, Job, SameObj
<1>4. /\ SameHost("source") /\ guest' = guest /\ up["target"] /\ up' = up
      /\ maker' = maker /\ dangling' = dangling /\ kills' = kills
      /\ overtook' = overtook /\ unreaped' = unreaped
      /\ call[c] \in {"prepare", "assigned", "granted"} /\ call'[c] = "done" /\ ~cancelled'[c]
      /\ stream' = stream /\ recv' = recv /\ paused' = paused
  BY <1>3 DEF OrderedInv, Domains, Hosts, MigratePrepare3Fails, Then, Usable, threads, objects, history,
     SameHost
<1>5. ASSUME NEW d \in Clients, OnTarget(d)'
      PROVE  Listed("target")' /\ Job("target")' = d
  <2>1. ClientInv(c) /\ ClientInv(d) /\ OnTarget(d) /\ ~Moving(d) /\ c # d
    BY <1>2, <1>4, <1>5, NobodySent DEF OrderedInv, OnTarget, Same
  <2>2. call[c] # "granted"
    BY <2>1, OneOnTarget DEF ClientInv, OnTarget
  <2> QED
    BY <1>3, <2>1, <2>2 DEF ClientInv, OneSender, HasTarget
<1> QED
  BY <1>2, <1>3, <1>4, <1>5, PrepareStep DEF OnTarget, Waiting

\* Finish3 ends the migration on the target: what is left to show is what it makes of
\* the guest.  No other client is there, or has sent.
LEMMA FinishStep ==
  ASSUME OrderedInv, NEW c \in Clients, call[c] = "finish", \A d \in Clients \ {c} : Same(d),
         Domains', SameHost("source"), maker' = maker, kills' = kills, paused' = paused,
         recv' = recv, stream' = stream, call'[c] \in {"confirm", "done"},
         call'[c] = "confirm" => ~cancelled[c], overtook => overtook', unreaped => unreaped',
         There' => There, TargetGuest', Known',
         guest'["target"] = "receiving" <=> guest["target"] = "receiving",
         guest'["target"] = "dead" => guest["target"] = "dead",
         dangling' \subseteq dangling \cup {d \in Clients : Alive(d) \/ Preparing(d)},
         dangling \subseteq dangling',
         ~Listed("target")' => \A d \in Clients : Alive(d) \/ Waiting(d) => d \in dangling',
         c \in dangling' /\ Sent(c) /\ ~overtook' => c \in dangling,
         Cancelled(c)', Moved(c)'
  PROVE  OrderedInv'
<1>1. /\ \A d \in Clients : ClientInv(d)
      /\ Received /\ OnTarget(c)
      /\ \A d \in Clients : (Sent(d)' <=> Sent(d)) /\ (Alive(d)' <=> Alive(d))
  BY DEF OrderedInv, OnTarget, Sent, Alive
<1>2. \A d \in Clients \ {c} : ~Sent(d) /\ ~Moving(d) /\ ~Moving(d)' /\ ~OnTarget(d) /\ ~OnTarget(d)'
  <2>1. \A d \in Clients \ {c} : ~Sent(d) /\ ~Moving(d)
    BY NoOtherSender
  <2>2. \A d \in Clients \ {c} : ~OnTarget(d)
    BY <1>1, OneOnTarget DEF ClientInv
  <2> QED
    BY <2>1, <2>2 DEF Moving, OnTarget, Sent, Same
<1>3. ASSUME NEW d \in Clients
      PROVE  Thread(d)'
  <2>1. ClientInv(d)
    BY <1>1
  <2>2. Restores(d)' /\ Made(d)' /\ Loses(d)'
    <3>1. Waiting(d)' => Waiting(d)
      BY DEF Waiting, Same
    <3> QED
      BY <1>1, <2>1, <3>1 DEF ClientInv, Thread, Restores, Made, Loses
  <2>3. Dangles(d)'
    BY <1>1, <1>2, <2>1 DEF ClientInv, Thread, Dangles
  <2>4. Keeps(d)'
    <3>1. CASE d = c
      BY <3>1 DEF Keeps
    <3>2. CASE d # c
      <4>1. SUFFICES ASSUME call[d] \in {"begin", "prepare"} PROVE d \notin dangling'
        BY <1>2, <3>2 DEF Keeps, Same, OnTarget
      <4>2. recv[d] = "none" /\ d \notin dangling
        BY <2>1, <4>1 DEF ClientInv, Progress, Fresh, Thread, Keeps
      <4> QED
        BY <4>1, <4>2 DEF Alive, Preparing
    <3> QED
      BY <3>1, <3>2
  <2> QED
    BY <2>2, <2>3, <2>4 DEF Thread
<1>4. ASSUME NEW d \in Clients \ {c}
      PROVE  ClientInv(d)'
  <2>1. ClientInv(d) /\ Same(d)
    BY <1>1
  <2>2. Progress(d)' /\ HasJob(d)'
    BY <2>1, OthersProgress DEF ClientInv, HasJob, Migrating, Same, SameHost, SameObj
  <2>3. OneSender(d)' /\ Outcome(d)'
    BY <1>2 DEF OneSender, Owner, Alone, Serving, HasTarget, Outcome, Resumed, Cancelled, Moved, Ended
  <2> QED
    BY <1>3, <2>2, <2>3 DEF ClientInv
<1>5. ClientInv(c)'
  <2>1. ClientInv(c) /\ (Moving(c)' => Moving(c)) /\ (Migrating(c)' => Migrating(c)) /\ ~OnTarget(c)'
    BY <1>1 DEF Moving, Migrating, OnTarget
  <2>2. Progress(c)' /\ HasJob(c)'
    BY <1>1, <2>1 DEF ClientInv, Progress, Fresh, Willing, After, HasJob, SameHost, SameObj
  <2>3. Owner(c)' /\ Alone(c)'
    BY <1>1, <2>1 DEF ClientInv, OneSender, Owner, Alone, Same, SameHost, SameObj
  <2>4. Serving(c)' /\ HasTarget(c)'
    BY <2>1 DEF Serving, HasTarget
  <2>5. Resumed(c)'
    BY <1>1, <2>1 DEF ClientInv, Outcome, Resumed, SameHost
  <2> QED
    BY <1>3, <2>2, <2>3, <2>4, <2>5 DEF ClientInv, OneSender, Outcome
<1>6. Received'
  BY <1>1 DEF Received, Receiving, MadeBySender
<1>7. Left'
  BY <1>1 DEF OrderedInv, Left, Same, SameHost
<1>8. NobodyDead' /\ (Active("source") => Listed("source"))'
  BY DEF OrderedInv, NobodyDead, SameHost, SameObj
<1> QED
  BY <1>4, <1>5, <1>6, <1>7, <1>8 DEF OrderedInv

\* What FinishCleanup and SetObj do to the target.
LEMMA Cleaned ==
  ASSUME OrderedInv, NEW o, DOMAIN o = Fields, o.listed, SetObj("target", FinishCleanup(o))
  PROVE  /\ DOMAIN obj' = Hosts /\ \A h \in Hosts : DOMAIN obj'[h] = Fields
         /\ SameObj("source")
         /\ dangling' \subseteq dangling \cup {d \in Clients : Alive(d) \/ Preparing(d)}
         /\ dangling \subseteq dangling'
         /\ ~Listed("target")' => \A d \in Clients : Alive(d) \/ Waiting(d) => d \in dangling'
         /\ o.active => Listed("target")' /\ Active("target")'
<1> DEFINE n == FinishCleanup(o)
<1>1. DOMAIN n = Fields /\ (o.active => n.listed /\ n.active)
  BY DEF FinishCleanup, EndJob, Unlist, Fields
<1>2. obj' = [obj EXCEPT !["target"] = n]
  BY DEF SetObj
<1>3. \/ n.listed /\ dangling' = dangling
      \/ ~n.listed /\ dangling' = dangling \cup {d \in Clients : Alive(d) \/ Preparing(d)}
  BY DEF SetObj, Freed, Alive
<1>4. obj'["target"] = n /\ DOMAIN obj' = Hosts /\ \A h \in Hosts : DOMAIN obj'[h] = Fields
  <2> HIDE DEF n
  <2> QED
    BY <1>1, <1>2 DEF OrderedInv, Domains, Hosts
<1>5. SameObj("source")
  <2> HIDE DEF n
  <2> QED
    BY <1>2 DEF OrderedInv, Domains, Hosts, SameObj, Listed, Active, Job
<1>6. (Listed("target")' <=> n.listed) /\ (Active("target")' <=> n.active)
  <2> HIDE DEF n
  <2> QED
    BY <1>4 DEF Listed, Active
<1>7. \A d \in Clients : Waiting(d) => Preparing(d)
  BY DEF Waiting, Preparing
<1> HIDE DEF n
<1> QED
  BY <1>1, <1>3, <1>4, <1>5, <1>6, <1>7

LEMMA FinishMovedStep ==
  ASSUME OrderedInv, NEW c \in Clients, FinishMoved(c)
  PROVE  OrderedInv'
<1>1. DOMAIN obj["target"] = Fields /\ obj["target"].listed
  BY DEF OrderedInv, Domains, Hosts, FinishMoved
<1>2. SetObj("target", FinishCleanup(obj["target"]))
  BY DEF FinishMoved
<1>3. /\ DOMAIN obj' = Hosts /\ \A h \in Hosts : DOMAIN obj'[h] = Fields
      /\ SameObj("source")
      /\ dangling' \subseteq dangling \cup {d \in Clients : Alive(d) \/ Preparing(d)}
      /\ dangling \subseteq dangling'
      /\ ~Listed("target")' => \A d \in Clients : Alive(d) \/ Waiting(d) => d \in dangling'
      /\ Active("target") => Listed("target")' /\ Active("target")'
  BY <1>1, <1>2, Cleaned DEF Active
<1>4. Domains' /\ \A d \in Clients \ {c} : Same(d)
  BY <1>3 DEF OrderedInv, Domains, FinishMoved, AfterFinish, Then, Calls, Same
<1>5. /\ guest'["source"] = guest["source"]
      /\ \/ guest'["target"] = guest["target"]
         \/ guest["target"] = "paused" /\ guest'["target"] = "running"
      /\ ~paused[c] => guest'["target"] # "paused"
  BY DEF OrderedInv, Domains, Hosts, FinishMoved
<1>6. /\ SameHost("source") /\ maker' = maker /\ kills' = kills /\ paused' = paused
      /\ recv' = recv /\ stream' = stream /\ call[c] = "finish" /\ call'[c] = "confirm"
      /\ ~cancelled[c] /\ ~cancelled'[c]
      /\ overtook' = (overtook \/ Overtakes(c)) /\ unreaped' = unreaped
      /\ paused[c] \/ Exists("target")
  BY <1>3, <1>5 DEF OrderedInv, Domains, FinishMoved, AfterFinish, Then, SameHost
<1>7. /\ (There' <=> There) /\ Received /\ NobodyDead /\ \A d \in Clients : ClientInv(d)
      /\ guest'["target"] = "receiving" <=> guest["target"] = "receiving"
      /\ guest'["target"] = "dead" => guest["target"] = "dead"
  BY <1>5 DEF There, OrderedInv
<1>8. TargetGuest' /\ Known'
  BY <1>3, <1>5, <1>6, <1>7 DEF Received, Known, TargetGuest
<1>9. overtook' <=> overtook \/ (Sent(c) /\ Alive(c))
  BY <1>6 DEF Overtakes, Sent, Alive
<1>10. c \in dangling' /\ Sent(c) /\ ~overtook' => c \in dangling
  BY <1>3, <1>6, <1>9 DEF Preparing
<1>11. Cancelled(c)'
  BY <1>6 DEF Cancelled
<1>12. Moved(c)'
  <2>1. SUFFICES ASSUME kills = 0, ~paused[c], ~overtook'
                 PROVE  guest'["target"] = "running" /\ ~Alive(c)
    BY <1>6 DEF Moved, Ended, Alive
  <2>2. There /\ guest'["target"] = "running"
    BY <1>5, <1>6, <1>7, <2>1 DEF Received, TargetGuest, There, NobodyDead, Exists
  <2>3. Sent(c)
    BY <1>6, <1>7, <2>2, NoOtherSender DEF Received, MadeBySender
  <2> QED
    BY <1>9, <2>1, <2>2, <2>3
<1> QED
  BY <1>3, <1>4, <1>6, <1>7, <1>8, <1>9, <1>10, <1>11, <1>12, FinishStep

LEMMA FinishFailedStep ==
  ASSUME OrderedInv, NEW c \in Clients, FinishFailed(c)
  PROVE  OrderedInv'
<1>1. DOMAIN obj["target"] = Fields /\ Listed("target") /\ Listed("target") = obj["target"].listed
  BY DEF OrderedInv, Domains, Hosts, FinishFailed, Listed
<1>2. \/ /\ Exists("target") /\ guest' = [guest EXCEPT !["target"] = "none"]
         /\ SetObj("target", FinishCleanup(Cleanup(obj["target"])))
      \/ /\ guest' = guest
         /\ SetObj("target", FinishCleanup(obj["target"]))
         /\ unreaped' = (unreaped \/ Exists("target"))
  BY DEF FinishFailed
<1>3. /\ DOMAIN obj' = Hosts /\ \A h \in Hosts : DOMAIN obj'[h] = Fields
      /\ SameObj("source")
      /\ dangling' \subseteq dangling \cup {d \in Clients : Alive(d) \/ Preparing(d)}
      /\ dangling \subseteq dangling'
      /\ ~Listed("target")' => \A d \in Clients : Alive(d) \/ Waiting(d) => d \in dangling'
      /\ guest'["target"] = "none" \/ (Active("target") => Listed("target")' /\ Active("target")')
  <2>1. CASE /\ SetObj("target", FinishCleanup(Cleanup(obj["target"])))
             /\ guest' = [guest EXCEPT !["target"] = "none"]
    <3>1. DOMAIN Cleanup(obj["target"]) = Fields /\ Cleanup(obj["target"]).listed
      BY <1>1 DEF Cleanup, Fields
    <3>2. guest'["target"] = "none"
      BY <2>1 DEF OrderedInv, Domains, Hosts
    <3> QED
      BY <2>1, <3>1, <3>2, Cleaned
  <2>2. CASE SetObj("target", FinishCleanup(obj["target"]))
    BY <1>1, <2>2, Cleaned DEF Active
  <2> QED
    BY <1>2, <2>1, <2>2
<1>4. DOMAIN guest' = Hosts
  BY <1>2 DEF OrderedInv, Domains
<1>5. Domains' /\ \A d \in Clients \ {c} : Same(d)
  BY <1>3, <1>4 DEF OrderedInv, Domains, FinishFailed, AfterFinish, Then, Calls, Same
<1>6. /\ guest'["source"] = guest["source"]
      /\ \/ Exists("target") /\ guest'["target"] = "none"
         \/ guest'["target"] = guest["target"] /\ (Exists("target") => unreaped')
  BY <1>2 DEF OrderedInv, Domains, Hosts
<1>7. /\ SameHost("source") /\ maker' = maker /\ kills' = kills /\ paused' = paused
      /\ recv' = recv /\ stream' = stream /\ call[c] = "finish"
      /\ call'[c] \in {"confirm", "done"} /\ (call'[c] = "confirm" => ~cancelled[c])
      /\ cancelled'[c] /\ overtook' = (overtook \/ Overtakes(c))
      /\ unreaped => unreaped'
  <2>1. unreaped => unreaped'
    BY DEF FinishFailed
  <2> QED
    BY <1>3, <1>6, <2>1 DEF OrderedInv, Domains, FinishFailed, AfterFinish, Then, SameHost
<1>8. Exists("target") => Active("target") /\ guest["target"] \notin {"none", "receiving"}
  BY DEF Exists, Active
<1>9. /\ (There' => There) /\ Received
      /\ guest'["target"] = "receiving" <=> guest["target"] = "receiving"
      /\ guest'["target"] = "dead" => guest["target"] = "dead"
      /\ TargetGuest'
  BY <1>6, <1>8 DEF There, OrderedInv, Received, TargetGuest
<1>10. overtook' <=> overtook \/ (Sent(c) /\ Alive(c))
  BY <1>7 DEF Overtakes, Sent, Alive
<1>11. There' => overtook \/ unreaped'
  <2>1. SUFFICES ASSUME There, ~overtook, ~unreaped' PROVE guest'["target"] = "none"
    BY <1>9 DEF There
  <2>2. Active("target")
    BY <1>9, <2>1 DEF Received, Known
  <2>3. Exists("target")
    BY <2>1, <2>2 DEF Exists, Active, There
  <2> QED
    BY <1>6, <2>1, <2>3
<1>12. Known'
  <2>1. SUFFICES ASSUME There, There', ~overtook PROVE Listed("target")' /\ Active("target")'
    BY <1>9, <1>10 DEF Known
  <2> QED
    BY <1>3, <1>9, <2>1 DEF Received, Known, There
<1>13. c \in dangling' /\ Sent(c) /\ ~overtook' => c \in dangling
  BY <1>3, <1>7, <1>10 DEF Preparing
<1>14. Cancelled(c)' /\ Moved(c)'
  BY <1>7, <1>10, <1>11 DEF Cancelled, Moved, Ended, Sent, Alive
<1> QED
  BY <1>3, <1>5, <1>7, <1>9, <1>10, <1>12, <1>13, <1>14, FinishStep

LEMMA FinishNotFoundStep ==
  ASSUME OrderedInv, NEW c \in Clients, FinishNotFound(c)
  PROVE  OrderedInv'
<1>1. Domains' /\ \A d \in Clients \ {c} : Same(d)
  BY DEF OrderedInv, Domains, FinishNotFound, AfterFinish, Then, threads, objects, history, Calls, Same
<1>2. /\ SameHost("source") /\ guest' = guest /\ SameObj("target")
      /\ maker' = maker /\ kills' = kills /\ paused' = paused
      /\ recv' = recv /\ stream' = stream /\ dangling' = dangling
      /\ overtook' = overtook /\ unreaped' = unreaped
      /\ call[c] = "finish" /\ ~Listed("target")
      /\ call'[c] \in {"confirm", "done"} /\ (call'[c] = "confirm" => ~cancelled[c])
      /\ cancelled'[c] /\ ~up'["target"]
  BY DEF OrderedInv, Domains, Hosts, FinishNotFound, AfterFinish, Then, threads, objects, history, SameHost,
     SameObj, Listed, Active, Job
<1>3. Received /\ \A d \in Clients : Loses(d)
  BY DEF OrderedInv, ClientInv, Thread
<1>4. There' <=> There
  BY <1>2 DEF There
<1>5. TargetGuest' /\ Known' /\ (There => overtook)
  BY <1>2, <1>3, <1>4 DEF Received, TargetGuest, Known, SameObj
<1>6. Cancelled(c)' /\ Moved(c)'
  BY <1>2, <1>4, <1>5 DEF Cancelled, Moved, Ended
<1>7. ~Listed("target")' => \A d \in Clients : Alive(d) \/ Waiting(d) => d \in dangling'
  BY <1>2, <1>3 DEF Loses, Waiting
<1> QED
  BY <1>1, <1>2, <1>4, <1>5, <1>6, <1>7, FinishStep

\* The guest of a host dies or is reaped, after which somebody was killed: the clients
\* and the threads go on as before, and nothing is promised of the other host.
LEMMA KilledStep ==
  ASSUME OrderedInv, Domains', kills' # 0, UNCHANGED <<call, cancelled, paused, recv, stream, maker>>,
         up' = up, overtook' = overtook, unreaped' = unreaped,
         Received', (Active("source") => Listed("source"))',
         \A h \in Hosts : guest'[h] = guest[h] \/ guest'[h] \in {"dead", "none"},
         There' => There,
         \A c \in Clients : HasJob(c)' /\ Owner(c)' /\ HasTarget(c)'
                            /\ Restores(c)' /\ Dangles(c)' /\ Loses(c)' /\ Keeps(c)'
  PROVE  OrderedInv'
<1>1. ASSUME NEW c \in Clients
      PROVE  ClientInv(c)'
  <2>1. ClientInv(c)
    BY DEF OrderedInv
  <2>2. Progress(c)'
    BY <2>1 DEF ClientInv, Progress, Fresh, Willing, After, Sent
  <2>3. OneSender(c)'
    BY <2>1 DEF ClientInv, OneSender, Alone, Serving, OnTarget, Moving, Sent
  <2>4. Thread(c)'
    BY <2>1 DEF ClientInv, Thread, Made, Sent
  <2>5. Resumed(c)'
    BY <2>1 DEF ClientInv, Outcome, Resumed, Moving, Sent, Hosts
  <2>6. Cancelled(c)' /\ Moved(c)'
    BY <2>1 DEF ClientInv, Outcome, Cancelled, Moved, Ended, Moving, Sent
  <2> QED
    BY <2>2, <2>3, <2>4, <2>5, <2>6 DEF ClientInv, Outcome
<1>2. NobodyDead' /\ Left'
  BY DEF NobodyDead, Left
<1> QED
  BY <1>1, <1>2 DEF OrderedInv

LEMMA DieStep ==
  ASSUME OrderedInv, NEW h \in Hosts, Die(h)
  PROVE  OrderedInv'
<1>1. /\ Domains' /\ kills' # 0
      /\ \A g \in Hosts : guest'[g] = guest[g] \/ guest'[g] \in {"dead", "none"}
      /\ guest["target"] # "running" => guest'["target"] = guest["target"]
      /\ guest["target"] = "running" => guest'["target"] \in {"running", "dead"}
  BY DEF OrderedInv, Domains, Hosts, Die, client, threads, objects
<1>2. /\ UNCHANGED <<call, cancelled, paused, recv, stream, maker>>
      /\ obj' = obj /\ up' = up /\ dangling' = dangling /\ overtook' = overtook /\ unreaped' = unreaped
  BY DEF Die, client, threads, objects
<1>3. /\ SameObj("source") /\ SameObj("target")
      /\ (There' <=> There) /\ Received /\ \A c \in Clients : ClientInv(c)
      /\ guest'["target"] = "receiving" <=> guest["target"] = "receiving"
  BY <1>1, <1>2 DEF SameObj, Listed, Active, Job, There, OrderedInv
<1>4. Received'
  BY <1>1, <1>2, <1>3 DEF Received, Receiving, MadeBySender, Known, TargetGuest, Sent, SameObj
<1>5. ASSUME NEW c \in Clients
      PROVE  /\ HasJob(c)' /\ Owner(c)' /\ HasTarget(c)'
             /\ Restores(c)' /\ Dangles(c)' /\ Loses(c)' /\ Keeps(c)'
  <2>1. HasJob(c)' /\ Owner(c)' /\ HasTarget(c)'
    BY <1>2, <1>3 DEF ClientInv, HasJob, Migrating, OneSender, Owner, HasTarget, OnTarget, Moving,
       Sent, SameObj
  <2>2. Restores(c)' /\ Dangles(c)' /\ Loses(c)' /\ Keeps(c)'
    BY <1>2, <1>3 DEF ClientInv, Thread, Restores, Dangles, Loses, Waiting, Keeps, Alive, Sent, SameObj
  <2> QED
    BY <2>1, <2>2
<1>6. (Active("source") => Listed("source"))'
  BY <1>3 DEF OrderedInv, SameObj
<1> QED
  BY <1>1, <1>2, <1>3, <1>4, <1>5, <1>6, KilledStep

LEMMA ReapedSource ==
  ASSUME OrderedInv, Reaped("source"), kills' \in Nat, kills' # 0
  PROVE  OrderedInv'
<1>1. /\ obj' = [obj EXCEPT !["source"] = IF @.persistent THEN Cleanup(@) ELSE Unlist(@)]
      /\ guest' = [guest EXCEPT !["source"] = "none"] /\ dangling' = dangling
  BY DEF OrderedInv, Domains, Hosts, Reaped, SetObj, Freed
<1>2. Domains'
  <2>1. DOMAIN obj' = Hosts /\ \A g \in Hosts : DOMAIN obj'[g] = Fields
    BY <1>1 DEF OrderedInv, Domains, Hosts, Fields, Cleanup, Unlist
  <2> QED
    BY <1>1, <2>1 DEF OrderedInv, Domains, Reaped, client
<1>3. /\ SameObj("target") /\ ~Active("source")' /\ Job("source")' = Job("source")
      /\ Listed("source")' => Listed("source")
  BY <1>1 DEF OrderedInv, Domains, Hosts, Fields, Cleanup, Unlist, SameObj, Listed, Active, Job
<1>4. /\ UNCHANGED <<call, cancelled, paused, recv, stream, maker>>
      /\ up' = up /\ dangling' = dangling /\ overtook' = overtook /\ unreaped' = unreaped
      /\ guest'["target"] = guest["target"] /\ guest'["source"] = "none"
  BY <1>1 DEF OrderedInv, Domains, Hosts, Reaped, client
<1>5. (There' <=> There) /\ Received /\ \A c \in Clients : ClientInv(c)
  BY <1>4 DEF There, OrderedInv
<1>6. Received'
  BY <1>3, <1>4, <1>5 DEF Received, Receiving, MadeBySender, Known, TargetGuest, Sent, SameObj
<1>7. ASSUME NEW c \in Clients
      PROVE  /\ HasJob(c)' /\ Owner(c)' /\ HasTarget(c)'
             /\ Restores(c)' /\ Dangles(c)' /\ Loses(c)' /\ Keeps(c)'
  <2>1. HasJob(c)' /\ Owner(c)' /\ HasTarget(c)'
    BY <1>3, <1>4, <1>5 DEF ClientInv, HasJob, Migrating, OneSender, Owner, HasTarget, OnTarget,
       Moving, Sent, SameObj
  <2>2. Restores(c)' /\ Dangles(c)' /\ Loses(c)' /\ Keeps(c)'
    BY <1>3, <1>4, <1>5 DEF ClientInv, Thread, Restores, Dangles, Loses, Waiting, Keeps, Alive, Sent, SameObj
  <2> QED
    BY <2>1, <2>2
<1>8. \A g \in Hosts : guest'[g] = guest[g] \/ guest'[g] \in {"dead", "none"}
  BY <1>4 DEF Hosts
<1> QED
  BY <1>2, <1>3, <1>4, <1>5, <1>6, <1>7, <1>8, KilledStep

\* The sender's guest is reaped on the target: its thread has no more to write, or has
\* only the guest's handle and status left.
LEMMA ReapedTarget ==
  ASSUME OrderedInv, Reaped("target"), There, kills' \in Nat, kills' # 0
  PROVE  OrderedInv'
<1> DEFINE n == IF obj["target"].persistent THEN Cleanup(obj["target"]) ELSE Unlist(obj["target"])
<1>1. /\ DOMAIN n = Fields /\ n.job = Job("target")
      /\ n.listed => Listed("target")
  BY DEF OrderedInv, Domains, Hosts, Fields, Cleanup, Unlist, Listed, Job
<1>2. /\ obj' = [obj EXCEPT !["target"] = n]
      /\ guest' = [guest EXCEPT !["target"] = "none"]
      /\ dangling' = dangling \cup (IF n.listed THEN {} ELSE {c \in Clients : Alive(c) \/ Preparing(c)})
  BY DEF Reaped, SetObj, Freed, Alive
<1> HIDE DEF n
<1>3. Domains'
  <2>1. DOMAIN obj' = Hosts /\ \A g \in Hosts : DOMAIN obj'[g] = Fields
    BY <1>1, <1>2 DEF OrderedInv, Domains, Hosts
  <2> QED
    BY <1>2, <2>1 DEF OrderedInv, Domains, Reaped, client
<1>4. /\ SameObj("source") /\ Job("target")' = Job("target")
      /\ (Listed("target")' <=> n.listed) /\ (Listed("target")' => Listed("target"))
  BY <1>1, <1>2 DEF OrderedInv, Domains, Hosts, SameObj, Listed, Active, Job
<1>5. /\ UNCHANGED <<call, cancelled, paused, recv, stream, maker>>
      /\ up' = up /\ overtook' = overtook /\ unreaped' = unreaped
      /\ guest'["source"] = guest["source"] /\ guest'["target"] = "none"
  BY <1>2 DEF OrderedInv, Domains, Hosts, Reaped, client
<1>6. /\ \A c \in Clients : ClientInv(c) /\ (Sent(c)' <=> Sent(c)) /\ (Alive(c)' <=> Alive(c))
      /\ ~There' /\ guest["target"] # "receiving"
      /\ maker \in Clients /\ Sent(maker) /\ recv[maker] \in {"made", "saving", "done"}
  BY <1>5 DEF There, OrderedInv, Received, MadeBySender, Sent, Alive
<1>7. Received'
  BY <1>5, <1>6 DEF Received, Receiving, MadeBySender, Known, TargetGuest
<1>8. /\ \A c \in Clients : ~Listed("target")' /\ (Alive(c) \/ Waiting(c)) => c \in dangling'
      /\ \A c \in dangling' : c \in dangling \/ Alive(c) \/ Preparing(c)
  BY <1>2, <1>4 DEF Waiting, Preparing
<1>9. ASSUME NEW c \in Clients
      PROVE  /\ HasJob(c)' /\ Owner(c)' /\ HasTarget(c)'
             /\ Restores(c)' /\ Dangles(c)' /\ Loses(c)' /\ Keeps(c)'
  <2>1. Sent(c) => c = maker
    BY <1>6, OneSent
  <2>2. OnTarget(c) => Moving(c) /\ c = maker
    BY <1>6 DEF ClientInv, OneSender, Alone, Moving, OnTarget
  <2>3. HasJob(c)' /\ Owner(c)'
    BY <1>4, <1>5, <1>6 DEF ClientInv, HasJob, Migrating, OneSender, Owner, Moving, SameObj
  <2>4. HasTarget(c)'
    BY <1>5, <1>6, <2>2 DEF HasTarget, OnTarget, Moving
  <2>5. Restores(c)' /\ Dangles(c)' /\ Loses(c)'
    BY <1>5, <1>6, <1>8, <2>1 DEF ClientInv, Thread, Restores, Dangles, Loses, Waiting
  <2>6. Keeps(c)'
    <3>1. SUFFICES ASSUME call[c] \in {"begin", "prepare", "granted", "perform", "sending"}
                   PROVE  c \notin dangling'
      BY <1>5 DEF Keeps
    <3>2. c \notin dangling /\ ~Moving(c)
      BY <1>6, <3>1, NotSent DEF ClientInv, Thread, Keeps
    <3>3. ~Alive(c) /\ ~Preparing(c)
      BY <1>6, <2>2, <3>1, <3>2
         DEF ClientInv, Progress, Fresh, OnTarget, Alive, Preparing
    <3> QED
      BY <1>8, <3>2, <3>3
  <2> QED
    BY <2>3, <2>4, <2>5, <2>6
<1>10. (Active("source") => Listed("source"))'
  BY <1>4 DEF OrderedInv, SameObj
<1>11. \A g \in Hosts : guest'[g] = guest[g] \/ guest'[g] \in {"dead", "none"}
  BY <1>5 DEF Hosts
<1> QED
  BY <1>3, <1>5, <1>6, <1>7, <1>9, <1>10, <1>11, KilledStep

LEMMA OnDeathStep ==
  ASSUME OrderedInv, NEW h \in Hosts, OnDeath(h)
  PROVE  OrderedInv'
<1>1. kills \in Nat /\ kills # 0 /\ kills' = kills /\ Reaped(h) /\ guest[h] = "dead"
  BY DEF OrderedInv, Domains, NobodyDead, OnDeath, Hosts
<1>2. h = "target" => There
  BY <1>1 DEF There
<1> QED
  BY <1>1, <1>2, ReapedSource, ReapedTarget DEF Hosts

LEMMA DestroyStep ==
  ASSUME OrderedInv, NEW h \in Hosts, Destroy(h)
  PROVE  OrderedInv'
<1>1. kills' \in Nat /\ kills' # 0 /\ Reaped(h) /\ guest[h] \notin {"none", "receiving"}
  BY DEF OrderedInv, Domains, Destroy, Exists
<1>2. h = "target" => There
  BY <1>1 DEF There, OrderedInv, Received, TargetGuest
<1> QED
  BY <1>1, <1>2, ReapedSource, ReapedTarget DEF Hosts

LEMMA InitInv ==
  ASSUME Init
  PROVE  OrderedInv
<1>1. Domains /\ Active("source") /\ Listed("source")
  <2>1. PICK here \in BOOLEAN, there \in BOOLEAN :
          obj = [h \in Hosts |->
                   [listed |-> h = "source" \/ there,
                    persistent |-> IF h = "source" THEN here ELSE there,
                    active |-> h = "source", job |-> NoJob]]
    BY DEF Init
  <2>2. /\ DOMAIN obj = Hosts /\ \A h \in Hosts : DOMAIN obj[h] = Fields
        /\ Active("source") /\ Listed("source")
    BY <2>1 DEF Fields, Hosts, Active, Listed
  <2> QED
    BY <2>2 DEF Init, Domains, Calls
<1>2. /\ guest["source"] = "running" /\ guest["target"] = "none" /\ kills = 0
      /\ dangling = {}
      /\ \A c \in Clients : call[c] = "begin" /\ recv[c] = "none" /\ stream[c] = "none"
  BY DEF Init, Hosts
<1>3. /\ ~There /\ NobodyDead /\ Left
      /\ \A c \in Clients : ~Sent(c) /\ ~Moving(c) /\ ~Migrating(c) /\ ~OnTarget(c) /\ ~Alive(c)
  BY <1>2 DEF There, NobodyDead, Left, Sent, Moving, Migrating, OnTarget, Alive
<1>4. Received
  BY <1>2, <1>3 DEF Received, Receiving, MadeBySender, Known, TargetGuest
<1>5. ASSUME NEW c \in Clients
      PROVE  ClientInv(c)
  <2>1. Progress(c) /\ HasJob(c) /\ OneSender(c)
    BY <1>2, <1>3 DEF Progress, Fresh, Willing, After, HasJob, OneSender, Owner, Alone, Serving,
       HasTarget
  <2>2. Thread(c) /\ Outcome(c)
    BY <1>2, <1>3 DEF Thread, Restores, Made, Dangles, Loses, Waiting, Keeps, Outcome, Resumed, Cancelled,
       Moved, Ended
  <2> QED
    BY <2>1, <2>2 DEF ClientInv
<1> QED
  BY <1>1, <1>3, <1>4, <1>5 DEF OrderedInv

LEMMA IdleStep ==
  ASSUME OrderedInv, UNCHANGED vars
  PROVE  OrderedInv'
<1>1. /\ Listed("source")' = Listed("source") /\ Active("source")' = Active("source")
      /\ Job("source")' = Job("source") /\ Listed("target")' = Listed("target")
      /\ Active("target")' = Active("target") /\ Job("target")' = Job("target")
      /\ There' = There /\ \A c \in Clients : (Sent(c)' <=> Sent(c)) /\ (Moving(c)' <=> Moving(c))
  BY DEF vars, Listed, Active, Job, There, Sent, Moving
<1>2. Domains' /\ NobodyDead' /\ Left' /\ Received'
  BY <1>1 DEF vars, OrderedInv, Domains, NobodyDead, Left, Received, Receiving, MadeBySender, Known,
     TargetGuest
<1>3. ASSUME NEW c \in Clients
      PROVE  ClientInv(c)'
  <2>1. ClientInv(c)
    BY DEF OrderedInv
  <2>2. Progress(c)' /\ HasJob(c)' /\ OneSender(c)'
    BY <1>1, <2>1 DEF vars, ClientInv, Progress, Fresh, Willing, After, HasJob, Migrating, OneSender,
       Owner, Alone, Serving, HasTarget, OnTarget
  <2>3. Thread(c)' /\ Outcome(c)'
    BY <1>1, <2>1 DEF vars, ClientInv, Thread, Restores, Made, Dangles, Loses, Waiting, Keeps, Alive, Outcome,
       Resumed, Cancelled, Moved, Ended
  <2> QED
    BY <2>2, <2>3 DEF ClientInv
<1> QED
  BY <1>1, <1>2, <1>3 DEF OrderedInv

(***************************************************************************)
(* The theorems.                                                           *)
(***************************************************************************)
(***************************************************************************)
(* The job of the source.                                                  *)
(***************************************************************************)
\* It is enough to look at who migrates and at the source's object.
LEMMA JobStep ==
  ASSUME JobInv, Domains', (Active("source") => Listed("source"))',
         NEW c \in Clients, \A d \in Clients \ {c} : Same(d),
         Listed("source")' => Listed("source"), up["source"]' => up["source"],
         Migrating(c)' => Migrating(c),
         Job("source")' = Job("source") \/ (Migrating(c) /\ ~Migrating(c)')
  PROVE  JobInv'
<1>1. ASSUME NEW d \in Clients
      PROVE  HasJob(d)'
  <2>1. SUFFICES ASSUME Migrating(d)', Listed("source")', up'["source"]
                 PROVE  Job("source")' = d
    BY DEF HasJob
  <2>2. HasJob(c) /\ HasJob(d) /\ Migrating(d)
    BY <2>1 DEF JobInv, Migrating, Same
  <2>3. Job("source") = d
    BY <2>1, <2>2 DEF HasJob
  <2> QED
    BY <2>1, <2>2, <2>3, OneMigrating
<1> QED
  BY <1>1 DEF JobInv

\* No step touches the source's object and lets another client migrate at once.
LEMMA JobKept ==
  ASSUME JobInv, [Next]_vars
  PROVE  JobInv'
<1>1. ASSUME NEW c \in Clients, CallFails(c) PROVE JobInv'
  <2>1. /\ obj' = obj /\ guest' = guest /\ up' = up /\ kills' = kills /\ recv' = recv
        /\ DOMAIN stream' = Clients /\ call' \in [Clients -> Calls] /\ DOMAIN cancelled' = Clients
        /\ \A d \in Clients \ {c} : Same(d)
    BY <1>1 DEF JobInv, Domains, CallFails, AfterFinish, Then, hosts, threads, history, Calls, Same
  <2>2. Migrating(c)' => Migrating(c)
    <3>1. call'[c] \in {"finish", "done", "confirm"}
      BY <1>1 DEF JobInv, Domains, CallFails, AfterFinish, Then
    <3>2. call'[c] = "finish" => cancelled'[c]
      BY <1>1 DEF JobInv, Domains, CallFails, AfterFinish, Then
    <3>3. call'[c] = "confirm" => call[c] = "finish" /\ ~cancelled[c]
      BY <1>1 DEF JobInv, Domains, CallFails, AfterFinish, Then
    <3> QED
      BY <3>1, <3>2, <3>3 DEF Migrating
  <2> QED
    BY <2>1, <2>2, JobStep DEF JobInv, Domains, Listed, Active, Job
<1>2. ASSUME NEW c \in Clients, MigrateBegin3(c) PROVE JobInv'
  <2>1. Domains' /\ \A d \in Clients \ {c} : Same(d)
    BY <1>2 DEF JobInv, Domains, Fields, Hosts, MigrateBegin3, Then, threads, history, Calls, Same
  <2>2. \/ call'[c] = "done" /\ SameObj("source")
        \/ /\ Listed("source") /\ Job("source") = NoJob /\ up["source"]
           /\ Listed("source")' /\ Job("source")' = c
    BY <1>2 DEF JobInv, Domains, Fields, Hosts, MigrateBegin3, Usable, Then, SameObj, Listed, Active, Job
  <2>3. Active("source")' => Listed("source")'
    BY <2>2 DEF JobInv, SameObj
  <2>4. up' = up
    BY <1>2 DEF MigrateBegin3
  <2>5. CASE call'[c] = "done" /\ SameObj("source")
    BY <2>1, <2>3, <2>4, <2>5, JobStep DEF SameObj, Migrating
  <2>6. CASE Listed("source") /\ Job("source") = NoJob /\ up["source"] /\ Job("source")' = c
    <3>1. ASSUME NEW d \in Clients
          PROVE  HasJob(d)'
      <4>1. d # c => ~Migrating(d)'
        BY <2>1, <2>6, MigrationAssumption DEF JobInv, HasJob, Migrating, NoJob, Same
      <4> QED
        BY <2>6, <4>1 DEF HasJob
    <3> QED
      BY <2>1, <2>3, <3>1 DEF JobInv
  <2> QED
    BY <2>2, <2>5, <2>6
<1>3. ASSUME NEW c \in Clients, PerformError(c) \/ MigrateSendFails(c) \/ ConfirmMoved(c)
      PROVE  JobInv'
  <2>1. \/ obj' = obj
        \/ obj' = [obj EXCEPT !["source"] = EndJob(obj["source"])]
        \/ obj["source"].listed /\ obj' = [obj EXCEPT !["source"] = Unlist(EndJob(obj["source"]))]
        \/ obj["source"].listed /\ obj' = [obj EXCEPT !["source"] = EndJob(Cleanup(obj["source"]))]
    BY <1>3 DEF PerformError, MigrateSendFails, ConfirmMoved
  <2>2. /\ DOMAIN obj' = Hosts /\ \A h \in Hosts : DOMAIN obj'[h] = Fields
        /\ Listed("source")' => Listed("source")
        /\ Active("source")' => Listed("source")'
    <3> DEFINE s == obj["source"]
    <3>1. DOMAIN s = Fields /\ (s.active => s.listed)
      BY DEF JobInv, Domains, Hosts, Listed, Active
    <3>2. /\ DOMAIN EndJob(s) = Fields /\ DOMAIN Unlist(EndJob(s)) = Fields
          /\ DOMAIN EndJob(Cleanup(s)) = Fields
          /\ EndJob(s).listed = s.listed /\ EndJob(s).active = s.active
          /\ ~Unlist(EndJob(s)).active /\ ~Unlist(EndJob(s)).listed
          /\ EndJob(Cleanup(s)).listed = s.listed
      BY <3>1 DEF EndJob, Unlist, Cleanup, Fields
    <3>3. PICK o : /\ obj' = obj \/ obj' = [obj EXCEPT !["source"] = o]
                   /\ DOMAIN o = Fields /\ (o.listed => s.listed) /\ (o.active => o.listed)
      BY <2>1, <3>1, <3>2
    <3> QED
      BY <3>1, <3>3 DEF JobInv, Domains, Hosts, Listed, Active
  <2>3. DOMAIN guest' = Hosts
    BY <1>3 DEF JobInv, Domains, PerformError, MigrateSendFails, ConfirmMoved
  <2>4. DOMAIN up' = Hosts /\ (up'["source"] => up["source"])
    BY <1>3 DEF JobInv, Domains, Hosts, PerformError, MigrateSendFails, ConfirmMoved
  <2>5. Domains' /\ \A d \in Clients \ {c} : Same(d)
    BY <1>3, <2>2, <2>3, <2>4 DEF JobInv, Domains, PerformError, MigrateSendFails, ConfirmMoved, Then,
       threads, history, Calls, Same
  <2>6. Migrating(c) /\ ~Migrating(c)'
    BY <1>3 DEF JobInv, Domains, PerformError, MigrateSendFails, ConfirmMoved, Then, Migrating
  <2> QED
    BY <2>2, <2>4, <2>5, <2>6, JobStep
<1>4. ASSUME NEW c \in Clients, PerformConnects(c) \/ MigrateSent(c) \/ ConfirmCancelled(c)
      PROVE  JobInv'
  <2>1. obj' = obj /\ up' = up /\ DOMAIN guest' = Hosts
    BY <1>4 DEF JobInv, Domains, PerformConnects, MigrateSent, ConfirmCancelled, hosts
  <2>2. Domains' /\ \A d \in Clients \ {c} : Same(d)
    BY <1>4, <2>1 DEF JobInv, Domains, PerformConnects, MigrateSent, ConfirmCancelled, Then,
       threads, history, Calls, Same
  <2>3. Migrating(c)
    BY <1>4 DEF PerformConnects, MigrateSent, ConfirmCancelled, Migrating
  <2> QED
    BY <2>1, <2>2, <2>3, JobStep DEF JobInv, Listed, Active, Job
<1>5. ASSUME NEW c \in Clients, MigratePrepare3(c) \/ PrepareGranted(c) \/ PrepareListens(c)
                                \/ MigratePrepare3Fails(c)
      PROVE  JobInv'
  <2>1. /\ DOMAIN obj' = Hosts /\ \A h \in Hosts : DOMAIN obj'[h] = Fields
        /\ obj'["source"] = obj["source"] /\ up' = up
    BY <1>5 DEF JobInv, Domains, Hosts, Fields, MigratePrepare3, PrepareGranted, PrepareListens,
       MigratePrepare3Fails, Transient, EndJob, hosts
  <2>2. Domains' /\ \A d \in Clients \ {c} : Same(d)
    BY <1>5, <2>1 DEF JobInv, Domains, MigratePrepare3, PrepareGranted, PrepareListens,
       MigratePrepare3Fails, Then, hosts, threads, history, Calls, Same
  <2>3. Migrating(c)
    BY <1>5 DEF MigratePrepare3, PrepareGranted, PrepareListens, MigratePrepare3Fails, Migrating
  <2> QED
    BY <2>1, <2>2, <2>3, JobStep DEF JobInv, Listed, Active, Job
<1>6. ASSUME NEW c \in Clients, ReceiveAccepts(c) \/ ReceiveMade(c) \/ ReceiveUnpauses(c)
                                \/ ReceiveEnds(c) \/ ReceiveFails(c)
      PROVE  JobInv'
  <2>1. obj' = obj \/ \E v : obj' = [obj EXCEPT !["target"].active = v]
    BY <1>6 DEF ReceiveAccepts, ReceiveMade, ReceiveUnpauses, ReceiveEnds, ReceiveFails, Writes, hosts
  <2>2. /\ DOMAIN obj' = Hosts /\ \A h \in Hosts : DOMAIN obj'[h] = Fields
        /\ obj'["source"] = obj["source"]
    BY <2>1 DEF JobInv, Domains, Hosts, Fields
  <2>3. up' = up /\ DOMAIN guest' = Hosts /\ call' = call /\ cancelled' = cancelled
    BY <1>6 DEF JobInv, Domains, ReceiveAccepts, ReceiveMade, ReceiveUnpauses, ReceiveEnds,
       ReceiveFails, hosts, client
  <2>4. Domains' /\ \A d \in Clients \ {c} : Same(d)
    BY <1>6, <2>2, <2>3 DEF JobInv, Domains, ReceiveAccepts, ReceiveMade, ReceiveUnpauses, ReceiveEnds,
       ReceiveFails, client, history, Same
  <2> QED
    BY <2>2, <2>3, <2>4, JobStep DEF JobInv, Listed, Active, Job, Migrating
<1>7. ASSUME NEW c \in Clients, FinishFailed(c) \/ FinishMoved(c) \/ FinishNotFound(c)
      PROVE  JobInv'
  <2>1. /\ DOMAIN FinishCleanup(obj["target"]) = Fields
        /\ DOMAIN FinishCleanup(Cleanup(obj["target"])) = Fields
    BY DEF JobInv, Domains, Hosts, Fields, FinishCleanup, Cleanup, EndJob, Unlist
  <2>2. obj' = obj \/ \E o : DOMAIN o = Fields /\ obj' = [obj EXCEPT !["target"] = o]
    BY <1>7, <2>1 DEF FinishFailed, FinishMoved, FinishNotFound, SetObj
  <2>3. /\ DOMAIN obj' = Hosts /\ \A h \in Hosts : DOMAIN obj'[h] = Fields
        /\ obj'["source"] = obj["source"]
    BY <2>2 DEF JobInv, Domains, Hosts
  <2>4. up'["source"] = up["source"] /\ DOMAIN up' = Hosts /\ DOMAIN guest' = Hosts
    BY <1>7 DEF JobInv, Domains, Hosts, FinishFailed, FinishMoved, FinishNotFound
  <2>5. Domains' /\ \A d \in Clients \ {c} : Same(d)
    BY <1>7, <2>3, <2>4 DEF JobInv, Domains, FinishFailed, FinishMoved, FinishNotFound, AfterFinish,
       Then, threads, history, Calls, Same
  <2>6. Migrating(c)' => Migrating(c)
    BY <1>7 DEF JobInv, Domains, FinishFailed, FinishMoved, FinishNotFound, AfterFinish, Then, Migrating
  <2> QED
    BY <2>3, <2>4, <2>5, <2>6, JobStep DEF JobInv, Listed, Active, Job
<1>8. ASSUME NEW h \in Hosts, Die(h) \/ OnDeath(h) \/ Destroy(h)
      PROVE  JobInv'
  <2>1. \/ obj' = obj
        \/ obj' = [obj EXCEPT ![h] = Cleanup(obj[h])]
        \/ obj' = [obj EXCEPT ![h] = Unlist(obj[h])]
    BY <1>8 DEF Die, OnDeath, Destroy, Reaped, SetObj
  <2>2. /\ DOMAIN obj' = Hosts /\ \A g \in Hosts : DOMAIN obj'[g] = Fields
        /\ Listed("source")' => Listed("source")
        /\ Active("source")' => Listed("source")'
        /\ Job("source")' = Job("source")
    <3> DEFINE o(g) == obj[g]
    <3>1. ASSUME NEW g \in Hosts
          PROVE  /\ DOMAIN Cleanup(o(g)) = Fields /\ DOMAIN Unlist(o(g)) = Fields
                 /\ Cleanup(o(g)).listed = o(g).listed /\ (Cleanup(o(g)).active => o(g).active)
                 /\ ~Unlist(o(g)).active /\ ~Unlist(o(g)).listed
                 /\ Cleanup(o(g)).job = o(g).job /\ Unlist(o(g)).job = o(g).job
      BY DEF JobInv, Domains, Unlist, Cleanup, Fields
    <3>2. PICK n : /\ obj' = obj \/ obj' = [obj EXCEPT ![h] = n]
                   /\ DOMAIN n = Fields /\ n.job = o(h).job /\ (n.listed => o(h).listed)
                   /\ n.active => o(h).active /\ n.listed = o(h).listed
      BY <2>1, <3>1
    <3> QED
      BY <3>2 DEF JobInv, Domains, Hosts, Listed, Active, Job
  <2>3. DOMAIN guest' = Hosts /\ kills' \in Nat /\ up' = up
    BY <1>8 DEF JobInv, Domains, Die, OnDeath, Destroy, Reaped
  <2>4. UNCHANGED <<call, cancelled, recv, stream>>
    BY <1>8 DEF Die, OnDeath, Destroy, Reaped, client, threads
  <2> QED
    BY <2>2, <2>3, <2>4 DEF JobInv, Domains, HasJob, Migrating
<1>9. CASE UNCHANGED vars
  BY <1>9 DEF JobInv, Domains, HasJob, Migrating, Listed, Active, Job, vars
<1> QED
  BY <1>1, <1>2, <1>3, <1>4, <1>5, <1>6, <1>7, <1>8, <1>9 DEF Next

\* That a Prepare3 was given the job of such an object is never forgotten.
LEMMA OrphanedStays ==
  ASSUME [Next]_vars, orphaned
  PROVE  orphaned'
BY DEF Next, vars, history, CallFails, MigrateBegin3, PerformError, PerformConnects, MigrateSent,
   MigrateSendFails, ConfirmCancelled, ConfirmMoved, MigratePrepare3, PrepareGranted, PrepareListens,
   MigratePrepare3Fails, ReceiveAccepts, ReceiveMade, ReceiveUnpauses, ReceiveEnds, ReceiveFails,
   FinishFailed, FinishMoved, FinishNotFound, Die, OnDeath, Destroy, Reaped

(***************************************************************************)
(* The theorems.                                                           *)
(***************************************************************************)
\* What every step keeps (Begin3 to Confirm3 with the clients and the thread of Prepare3
\* in any order, guests that die, are destroyed and reaped): the job of the source always;
\* and, until a Prepare3 is given the job of an object that had left the list while it
\* waited, the job of the target, what the thread works on, and what the end of a
\* migration means.
THEOREM MigrationInvariant == Spec => []MigrationInv
<1>1. ASSUME MigrationInv, [Next]_vars
      PROVE  MigrationInv'
  <2>1. SUFFICES ASSUME OrderedInv, ~orphaned'
                 PROVE  OrderedInv'
    BY <1>1, JobKept, OrphanedStays DEF MigrationInv
  <2>2. CASE \E h \in Hosts : Die(h) \/ OnDeath(h) \/ Destroy(h)
    BY <2>1, <2>2, DieStep, OnDeathStep, DestroyStep
  <2>3. CASE \E c \in Clients : CallFails(c) \/ MigrateBegin3(c) \/ PerformError(c)
                                \/ PerformConnects(c) \/ MigrateSent(c) \/ MigrateSendFails(c)
                                \/ ConfirmCancelled(c) \/ ConfirmMoved(c)
    BY <2>1, <2>3, CallFailsStep, MigrateBegin3Step, PerformErrorStep, PerformConnectsStep,
       MigrateSentStep, MigrateSendFailsStep, ConfirmCancelledStep, ConfirmMovedStep
  <2>4. CASE \E c \in Clients : MigratePrepare3(c) \/ PrepareGranted(c) \/ PrepareListens(c)
                                \/ MigratePrepare3Fails(c)
    BY <2>1, <2>4, MigratePrepare3Step, PrepareGrantedStep, PrepareListensStep,
       MigratePrepare3FailsStep
  <2>5. CASE \E c \in Clients : ReceiveAccepts(c) \/ ReceiveMade(c) \/ ReceiveUnpauses(c)
                                \/ ReceiveEnds(c) \/ ReceiveFails(c)
    BY <2>1, <2>5, ReceiveAcceptsStep, ReceiveMadeStep, ReceiveUnpausesStep, ReceiveEndsStep,
       ReceiveFailsStep
  <2>6. CASE \E c \in Clients : FinishFailed(c) \/ FinishMoved(c) \/ FinishNotFound(c)
    BY <2>1, <2>6, FinishFailedStep, FinishMovedStep, FinishNotFoundStep
  <2>7. CASE UNCHANGED vars
    BY <2>1, <2>7, IdleStep
  <2> QED
    BY <1>1, <2>2, <2>3, <2>4, <2>5, <2>6, <2>7 DEF Next
<1>2. ASSUME Init PROVE MigrationInv
  BY <1>2, InitInv DEF MigrationInv, JobInv, OrderedInv, ClientInv
<1> QED
  BY <1>1, <1>2, PTL DEF Spec

\* From Begin3 to its end a migration holds the job of the guest (obj->job of the source,
\* which Perform3's error exits and Confirm3 of other clients might end).
THEOREM MigrationKeepsJob == Spec => []MigrationHoldsJob
<1>1. MigrationInv => MigrationHoldsJob
  BY DEF MigrationInv, JobInv, HasJob, Listed, Job, MigrationHoldsJob
<1> QED
  BY <1>1, MigrationInvariant, PTL

\* The guest runs on one host only, unless Finish3 was ahead of the thread that received
\* it, could not destroy what it had to, or a Prepare3 that waited was given the job of an
\* object that had left the list: otherwise Confirm3 resumes the source only after a
\* Finish3 that reaped the target.
THEOREM GuestRunsOnce == Spec => []RunsOnceInOrder
<1>1. ASSUME MigrationInv PROVE RunsOnceInOrder
  <2>1. SUFFICES ASSUME ~overtook, ~orphaned, ~unreaped,
                        guest["source"] = "running", guest["target"] = "running"
                 PROVE  FALSE
    BY DEF RunsOnceInOrder
  <2>2. OrderedInv /\ There
    BY <1>1, <2>1 DEF MigrationInv, There
  <2>3. PICK c \in Clients : Sent(c) /\ ClientInv(c)
    BY <2>2 DEF OrderedInv, Received, MadeBySender
  <2>4. call[c] = "done" /\ cancelled[c]
    BY <2>1, <2>3 DEF ClientInv, Outcome, Resumed, Moving
  <2> QED
    BY <2>1, <2>2, <2>3, <2>4 DEF ClientInv, Outcome, Cancelled, Ended, Moving
<1> QED
  BY <1>1, MigrationInvariant, PTL

\* The guest is always on one of the hosts: Confirm3 reaps it on the source only when the
\* target has it, as long as nobody asked for it to stay paused, Finish3 came after the
\* thread, and no Prepare3 worked on an object that had left the list.
THEOREM GuestIsSomewhere == Spec => []GuestSurvives
<1>1. ASSUME MigrationInv PROVE GuestSurvives
  <2>1. SUFFICES ASSUME kills = 0, ~overtook, ~orphaned, \A c \in Clients : ~paused[c],
                        guest["source"] \notin {"running", "suspended"}
                 PROVE  guest["target"] = "running"
    BY DEF GuestSurvives
  <2>2. OrderedInv
    BY <1>1, <2>1 DEF MigrationInv
  <2>3. PICK c \in Clients : Sent(c) /\ call[c] = "done" /\ ~cancelled[c]
    BY <2>1, <2>2 DEF OrderedInv, Left
  <2> QED
    BY <2>1, <2>2, <2>3 DEF OrderedInv, ClientInv, Outcome, Moved, Ended, Moving
<1> QED
  BY <1>1, MigrationInvariant, PTL
=============================================================================
