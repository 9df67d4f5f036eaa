------------------------------ MODULE LibxlJob ------------------------------
(***************************************************************************)
(* The job locks of one domain object in the libxl driver (libxl_driver.c, *)
(* libxlDomainObjBeginJobInternal to libxlMigrationJobFinish), used by     *)
(* threads that keep the contract stated above libxlDomainObjBeginJob.     *)
(*                                                                         *)
(* A thread takes the driver lock, looks the domain up (which locks the    *)
(* object), begins a job, works, ends the job and unlocks.  An operation   *)
(* on the domain list may also remove the object while others are queued   *)
(* on it.  Everything between taking the object lock and giving it back is *)
(* atomic for the other threads: a step of the model is the code from one  *)
(* test, lock or wait to the next.                                         *)
(***************************************************************************)
EXTENDS Integers, FiniteSets

CONSTANTS
  Threads,       \* the threads that serve libvirt API calls
  NoThread,      \* owner of a lock or of a job nobody holds
  CallTypes,     \* the kinds of call the threads make
  MaxQueued,     \* driver->max_queued; 0 means no limit
  ClockMayFail,  \* whether virTimeMillisNow may fail
  MaxCalls       \* bound: the calls made in a behaviour

Jobs == {"destroy", "modify", "abort", "migration op"}
AsyncJobs == {"migration out", "migration in", "save", "restore", "dump"}
DefaultJobMask == {"destroy", "abort"}

\* A call begins a normal job (job in Jobs), an asynchronous one (job =
\* "async", and which), or none at all (job = "none": libxlDomainUndefineFlags).
\* withDriver: the ...WithDriver variants, the driver lock stays with the call.
\* removes: the call takes the domain off the list when it is done with it.
Calls ==
  [job : Jobs \cup {"async", "none"}, asyncJob : AsyncJobs \cup {"none"},
   withDriver : BOOLEAN, removes : BOOLEAN]

NoCall == [job |-> "none", asyncJob |-> "none", withDriver |-> FALSE, removes |-> FALSE]

ASSUME ThreadAssumption == NoThread \notin Threads /\ IsFiniteSet(Threads)
ASSUME CallAssumption ==
  /\ CallTypes \subseteq Calls
  /\ \A c \in CallTypes :
       /\ (c.job = "async") <=> (c.asyncJob # "none")
       /\ c.job \in {"async", "none"} => c.withDriver
       /\ c.removes => c.withDriver
       /\ c.job = "none" => c.removes
ASSUME NumberAssumption == MaxQueued \in Nat /\ MaxCalls \in Nat /\ ClockMayFail \in BOOLEAN

VARIABLES
  driverLock,    \* owner of driver->lock
  objLock,       \* owner of obj->lock
  job,           \* struct libxlDomainJobObj
  jobsQueued,    \* priv->jobs_queued
  refs,          \* references on the object
  listed,        \* whether the driver's domain list still holds the object
  condWait,      \* threads asleep on job.cond
  asyncWait,     \* threads asleep on job.asyncCond
  pc,            \* where each thread is
  call,          \* the call each thread serves
  calls,         \* calls made so far
  clockFailures  \* calls that found no time of day (history)

vars == <<driverLock, objLock, job, jobsQueued, refs, listed, condWait,
          asyncWait, pc, call, calls, clockFailures>>

(***************************************************************************)
(* Where a thread can be.                                                  *)
(***************************************************************************)
LoopPC  == {"retry", "asyncLoop", "condLoop", "start"}
WaitPC  == {"waitAsync", "waitCond", "timedOut"}
HoldPC  == {"relockDriver", "relockObj", "holding", "running", "backObj", "done"}
ErrorPC == {"error", "errDriver", "errObj", "failed"}
LeavePC == {"unlock", "remove", "unlist", "unlockDriver"}
PCs == {"idle", "lockDriver", "find", "begin"} \cup LoopPC \cup WaitPC
         \cup HoldPC \cup ErrorPC \cup LeavePC

\* Between jobs_queued++ and jobs_queued--.
QueuedPC == LoopPC \cup WaitPC \cup HoldPC \cup {"error"}
\* Between virDomainObjRef and virDomainObjUnref.
RefPC == QueuedPC \cup {"errDriver", "errObj"}
\* The code of these places runs with obj->lock held.
ObjPC == {"begin", "holding", "done", "error", "unlock", "remove"} \cup LoopPC
\* The code of these places runs with driver->lock held, whatever the call ...
DriverPC == {"find", "relockObj", "backObj", "errObj", "unlist", "remove"}
\* ... and of these if the call keeps it.
KeptDriverPC == {"begin", "holding", "done", "failed", "unlock", "unlockDriver"}

HoldsDriver(t) ==
  pc[t] \in DriverPC \/ (pc[t] \in KeptDriverPC /\ call[t].withDriver)

HoldsNormalJob(t) == pc[t] \in HoldPC /\ call[t].job \in Jobs
HoldsAsyncJob(t) == pc[t] \in HoldPC /\ call[t].job = "async"

(***************************************************************************)
(* Operators on the job structure.                                         *)
(***************************************************************************)
ResetJob(j) == [j EXCEPT !.active = "none", !.owner = NoThread]

\* A bug: the whole structure is cleared, as libxlDomainObjInitJob does.
ResetAsyncJobAll(j) ==
  [j EXCEPT !.active = "none", !.owner = NoThread, !.asyncJob = "none",
            !.asyncOwner = NoThread, !.mask = DefaultJobMask]

ResetAsyncJob(j) ==
  [j EXCEPT !.asyncJob = "none", !.asyncOwner = NoThread, !.mask = DefaultJobMask]

NestedJobAllowed(j, kind) == j.asyncJob = "none" \/ kind \in j.mask

\* libxlDomainObjSetAsyncJobMask: JOB_DESTROY cannot be left out.
SetAsyncJobMask(j, allowed) ==
  IF j.asyncJob = "none" THEN j ELSE [j EXCEPT !.mask = allowed \cup {"destroy"}]

\* The mask libxlMigrationJobStart asks for, and the one every other
\* asynchronous job keeps from the reset.
MaskFor(a) ==
  CASE a = "migration in"  -> {}
    [] a = "migration out" -> DefaultJobMask \cup {"migration op"}
    [] OTHER               -> DefaultJobMask

(***************************************************************************)
(* Initial state: a domain on the list, nobody at work; the job structure  *)
(* is zeroed (libxlDomainObjInitJob), its mask too.                        *)
(***************************************************************************)
Init ==
  /\ driverLock = NoThread
  /\ objLock = NoThread
  /\ job = [active |-> "none", owner |-> NoThread, asyncJob |-> "none",
            asyncOwner |-> NoThread, mask |-> {}]
  /\ jobsQueued = 0
  /\ refs = 1
  /\ listed = TRUE
  /\ condWait = {}
  /\ asyncWait = {}
  /\ pc = [t \in Threads |-> "idle"]
  /\ call = [t \in Threads |-> NoCall]
  /\ calls = 0
  /\ clockFailures = 0

Go(t, place) == pc' = [pc EXCEPT ![t] = place]

\* The call is over: the thread returns to its caller.
Return(t) == Go(t, "idle") /\ call' = [call EXCEPT ![t] = NoCall]

DropDriverIfKept(t) ==
  driverLock' = IF call[t].withDriver THEN NoThread ELSE driverLock

(***************************************************************************)
(* A call arrives, takes driver->lock and looks the domain up.             *)
(***************************************************************************)
Enter(t) ==
  /\ pc[t] = "idle"
  /\ calls < MaxCalls
  /\ \E c \in CallTypes : call' = [call EXCEPT ![t] = c]
  /\ calls' = calls + 1
  /\ Go(t, "lockDriver")
  /\ UNCHANGED <<driverLock, objLock, job, jobsQueued, refs, listed, condWait,
                 asyncWait, clockFailures>>

LockDriver(t) ==
  /\ pc[t] = "lockDriver"
  /\ driverLock = NoThread
  /\ driverLock' = t
  /\ Go(t, "find")
  /\ UNCHANGED <<objLock, job, jobsQueued, refs, listed, condWait, asyncWait,
                 call, calls, clockFailures>>

\* virDomainFindByUUID finds nothing: "no domain with matching uuid".
FindMissing(t) ==
  /\ pc[t] = "find"
  /\ ~listed
  /\ driverLock' = NoThread
  /\ Return(t)
  /\ UNCHANGED <<objLock, job, jobsQueued, refs, listed, condWait, asyncWait,
                 calls, clockFailures>>

\* virDomainFindByUUID returns the object locked; it takes no reference.
Find(t) ==
  /\ pc[t] = "find"
  /\ listed
  /\ objLock = NoThread
  /\ objLock' = t
  /\ driverLock' = IF call[t].withDriver THEN t ELSE NoThread
  /\ Go(t, IF call[t].job = "none" THEN "remove" ELSE "begin")
  /\ UNCHANGED <<job, jobsQueued, refs, listed, condWait, asyncWait, call, calls,
                 clockFailures>>

(***************************************************************************)
(* libxlDomainObjBeginJobInternal, entered with obj->lock held.            *)
(***************************************************************************)
\* virTimeMillisNow fails: the call gives up, and leaves jobs_queued raised.
BeginNoClock(t) ==
  /\ pc[t] = "begin"
  /\ ClockMayFail
  /\ jobsQueued' = jobsQueued + 1
  /\ clockFailures' = clockFailures + 1
  /\ Go(t, "failed")
  /\ UNCHANGED <<driverLock, objLock, job, refs, listed, condWait, asyncWait,
                 call, calls>>

\* A bug: no reference is taken for the wait.
BeginNoRef(t) ==
  /\ pc[t] = "begin"
  /\ jobsQueued' = jobsQueued + 1
  /\ DropDriverIfKept(t)
  /\ Go(t, "retry")
  /\ UNCHANGED <<objLock, job, refs, listed, condWait, asyncWait, call, calls, clockFailures>>

Begin(t) ==
  /\ pc[t] = "begin"
  /\ jobsQueued' = jobsQueued + 1
  /\ refs' = refs + 1
  /\ DropDriverIfKept(t)
  /\ Go(t, "retry")
  /\ UNCHANGED <<objLock, job, listed, condWait, asyncWait, call, calls, clockFailures>>

\* A bug: the limit is off by one.
OverLimitByTwo == MaxQueued > 0 /\ jobsQueued > MaxQueued + 1

OverLimit == MaxQueued > 0 /\ jobsQueued > MaxQueued

\* retry: the limit on queued jobs.
CheckLimit(t) ==
  /\ pc[t] = "retry"
  /\ Go(t, IF OverLimit THEN "error" ELSE "asyncLoop")
  /\ UNCHANGED <<driverLock, objLock, job, jobsQueued, refs, listed, condWait,
                 asyncWait, call, calls, clockFailures>>

\* while (!libxlDomainNestedJobAllowed(priv, job)) virCondWaitUntil(asyncCond)
AsyncLoop(t) ==
  /\ pc[t] = "asyncLoop"
  /\ IF NestedJobAllowed(job, call[t].job)
       THEN Go(t, "condLoop") /\ UNCHANGED <<objLock, asyncWait>>
       ELSE /\ asyncWait' = asyncWait \cup {t}
            /\ objLock' = NoThread
            /\ Go(t, "waitAsync")
  /\ UNCHANGED <<driverLock, job, jobsQueued, refs, listed, condWait, call, calls,
                 clockFailures>>

\* A bug: what was seen before the wait is trusted after it.
CondLoopNoRecheck(t) ==
  /\ pc[t] = "condLoop"
  /\ IF job.active = "none"
       THEN Go(t, "start") /\ UNCHANGED <<objLock, condWait>>
       ELSE /\ condWait' = condWait \cup {t}
            /\ objLock' = NoThread
            /\ Go(t, "waitCond")
  /\ UNCHANGED <<driverLock, job, jobsQueued, refs, listed, asyncWait, call, calls,
                 clockFailures>>

\* while (priv->job.active) virCondWaitUntil(cond); then the recheck that
\* sends the call back to retry when an asynchronous job got in meanwhile.
CondLoop(t) ==
  /\ pc[t] = "condLoop"
  /\ IF job.active = "none"
       THEN /\ Go(t, IF NestedJobAllowed(job, call[t].job) THEN "start" ELSE "retry")
            /\ UNCHANGED <<objLock, condWait>>
       ELSE /\ condWait' = condWait \cup {t}
            /\ objLock' = NoThread
            /\ Go(t, "waitCond")
  /\ UNCHANGED <<driverLock, job, jobsQueued, refs, listed, asyncWait, call, calls,
                 clockFailures>>

\* virCondWaitUntil comes back: it was signalled, and takes the object lock.
Wake(t) ==
  /\ \/ pc[t] = "waitAsync" /\ t \notin asyncWait /\ Go(t, "asyncLoop")
     \/ pc[t] = "waitCond" /\ t \notin condWait /\ Go(t, "condLoop")
  /\ objLock = NoThread
  /\ objLock' = t
  /\ UNCHANGED <<driverLock, job, jobsQueued, refs, listed, condWait, asyncWait,
                 call, calls, clockFailures>>

\* POSIX lets a condition wait end with no signal.
SpuriousWakeup(t) ==
  /\ t \in condWait \cup asyncWait
  /\ condWait' = condWait \ {t}
  /\ asyncWait' = asyncWait \ {t}
  /\ UNCHANGED <<driverLock, objLock, job, jobsQueued, refs, listed, pc, call, calls,
                 clockFailures>>

\* LIBXL_JOB_WAIT_TIME is over and no signal came.
Timeout(t) ==
  /\ t \in condWait \cup asyncWait
  /\ condWait' = condWait \ {t}
  /\ asyncWait' = asyncWait \ {t}
  /\ Go(t, "timedOut")
  /\ UNCHANGED <<driverLock, objLock, job, jobsQueued, refs, listed, call, calls,
                 clockFailures>>

\* The wait returns an error, with the object lock taken again.
AfterTimeout(t) ==
  /\ pc[t] = "timedOut"
  /\ objLock = NoThread
  /\ objLock' = t
  /\ Go(t, "error")
  /\ UNCHANGED <<driverLock, job, jobsQueued, refs, listed, condWait, asyncWait,
                 call, calls, clockFailures>>

\* A bug: the driver lock is taken again with the object lock held.
StartKeepsLock(t) ==
  /\ pc[t] = "start"
  /\ job' = IF call[t].job # "async"
              THEN [ResetJob(job) EXCEPT !.active = call[t].job, !.owner = t]
              ELSE [ResetAsyncJob(ResetJob(job))
                      EXCEPT !.asyncJob = call[t].asyncJob, !.asyncOwner = t]
  /\ Go(t, IF call[t].withDriver THEN "relockDriver" ELSE "holding")
  /\ UNCHANGED <<driverLock, objLock, jobsQueued, refs, listed, condWait, asyncWait,
                 call, calls, clockFailures>>

\* The job is the caller's.  A caller that kept the driver lock gets it back
\* in lock order, driver first, so the object is unlocked for a while.
Start(t) ==
  /\ pc[t] = "start"
  /\ job' = IF call[t].job # "async"
              THEN [ResetJob(job) EXCEPT !.active = call[t].job, !.owner = t]
              ELSE [ResetAsyncJob(ResetJob(job))
                      EXCEPT !.asyncJob = call[t].asyncJob, !.asyncOwner = t]
  /\ IF call[t].withDriver
       THEN objLock' = NoThread /\ Go(t, "relockDriver")
       ELSE UNCHANGED objLock /\ Go(t, "holding")
  /\ UNCHANGED <<driverLock, jobsQueued, refs, listed, condWait, asyncWait, call,
                 calls, clockFailures>>

RelockDriver(t) ==
  /\ driverLock = NoThread
  /\ driverLock' = t
  /\ \/ pc[t] = "relockDriver" /\ Go(t, "relockObj")
     \/ pc[t] = "running" /\ Go(t, "backObj")
     \/ pc[t] = "errDriver" /\ Go(t, "errObj")
  /\ UNCHANGED <<objLock, job, jobsQueued, refs, listed, condWait, asyncWait, call,
                 calls, clockFailures>>

\* ... libxlMigrationJobStart sets the mask of a migration only now.
RelockObj(t) ==
  /\ pc[t] = "relockObj"
  /\ objLock = NoThread
  /\ objLock' = t
  /\ job' = IF call[t].asyncJob \in {"migration in", "migration out"}
              THEN SetAsyncJobMask(job, MaskFor(call[t].asyncJob))
              ELSE job
  /\ Go(t, "holding")
  /\ UNCHANGED <<driverLock, jobsQueued, refs, listed, condWait, asyncWait, call,
                 calls, clockFailures>>

\* A bug: the error path leaves the call in the count.
ErrorStaysQueued(t) ==
  /\ pc[t] = "error"
  /\ ~call[t].withDriver
  /\ refs' = refs - 1
  /\ objLock' = IF refs = 1 THEN NoThread ELSE t
  /\ Go(t, "failed")
  /\ UNCHANGED <<driverLock, job, jobsQueued, listed, condWait, asyncWait, call, calls,
                 clockFailures>>

\* The error path with the driver lock not kept by the caller ...
Error(t) ==
  /\ pc[t] = "error"
  /\ ~call[t].withDriver
  /\ jobsQueued' = jobsQueued - 1
  /\ refs' = refs - 1
  /\ objLock' = IF refs = 1 THEN NoThread ELSE t
  /\ Go(t, "failed")
  /\ UNCHANGED <<driverLock, job, listed, condWait, asyncWait, call, calls, clockFailures>>

\* ... and kept: the locks are taken again in order before the unref.
ErrorWithDriver(t) ==
  /\ pc[t] = "error"
  /\ call[t].withDriver
  /\ jobsQueued' = jobsQueued - 1
  /\ objLock' = NoThread
  /\ Go(t, "errDriver")
  /\ UNCHANGED <<driverLock, job, refs, listed, condWait, asyncWait, call, calls,
                 clockFailures>>

\* A bug: the error path keeps its reference.
ErrorNoUnref(t) ==
  /\ pc[t] = "errObj"
  /\ objLock = NoThread
  /\ objLock' = t
  /\ Go(t, "failed")
  /\ UNCHANGED <<driverLock, job, jobsQueued, refs, listed, condWait, asyncWait, call,
                 calls, clockFailures>>

ErrorRelockObj(t) ==
  /\ pc[t] = "errObj"
  /\ objLock = NoThread
  /\ refs' = refs - 1
  /\ objLock' = IF refs = 1 THEN NoThread ELSE t
  /\ Go(t, "failed")
  /\ UNCHANGED <<driverLock, job, jobsQueued, listed, condWait, asyncWait, call, calls,
                 clockFailures>>

\* The caller's cleanup: it still has its pointer, and unlocks through it.
Failed(t) ==
  /\ pc[t] = "failed"
  /\ objLock' = IF objLock = t THEN NoThread ELSE objLock
  /\ DropDriverIfKept(t)
  /\ Return(t)
  /\ UNCHANGED <<job, jobsQueued, refs, listed, condWait, asyncWait, calls, clockFailures>>

(***************************************************************************)
(* The work and the end of the job.                                        *)
(***************************************************************************)
\* An asynchronous operation unlocks both for its long libxl call ...
LetGo(t) ==
  /\ pc[t] = "holding"
  /\ call[t].job = "async"
  /\ objLock' = NoThread
  /\ driverLock' = NoThread
  /\ Go(t, "running")
  /\ UNCHANGED <<job, jobsQueued, refs, listed, condWait, asyncWait, call, calls,
                 clockFailures>>

\* ... and has both again, driver first (RelockDriver), before it ends.
BackObj(t) ==
  /\ pc[t] = "backObj"
  /\ objLock = NoThread
  /\ objLock' = t
  /\ Go(t, "done")
  /\ UNCHANGED <<driverLock, job, jobsQueued, refs, listed, condWait, asyncWait, call,
                 calls, clockFailures>>

\* What follows virDomainObjUnref in EndJob and EndAsyncJob: at 0 the object
\* is gone; otherwise the caller unlocks it, or takes it off the list first.
AfterUnref(t) ==
  /\ refs' = refs - 1
  /\ IF refs = 1
       THEN objLock' = NoThread /\ Go(t, "unlockDriver")
       ELSE UNCHANGED objLock
              /\ Go(t, IF call[t].removes /\ listed THEN "remove" ELSE "unlock")

\* libxlDomainObjEndJob: virCondSignal wakes one thread, if any sleeps.
EndJob(t) ==
  /\ pc[t] = "holding"
  /\ call[t].job # "async"
  /\ jobsQueued' = jobsQueued - 1
  /\ job' = ResetJob(job)
  /\ \/ condWait = {} /\ UNCHANGED condWait
     \/ \E w \in condWait : condWait' = condWait \ {w}
  /\ AfterUnref(t)
  /\ UNCHANGED <<driverLock, listed, asyncWait, call, calls, clockFailures>>

\* libxlDomainObjEndAsyncJob: virCondBroadcast wakes every thread.
EndAsyncJob(t) ==
  /\ pc[t] = "done"
  /\ jobsQueued' = jobsQueued - 1
  /\ job' = ResetAsyncJob(job)
  /\ asyncWait' = {}
  /\ AfterUnref(t)
  /\ UNCHANGED <<driverLock, listed, condWait, call, calls, clockFailures>>

Unlock(t) ==
  /\ pc[t] = "unlock"
  /\ objLock' = NoThread
  /\ DropDriverIfKept(t)
  /\ Return(t)
  /\ UNCHANGED <<job, jobsQueued, refs, listed, condWait, asyncWait, calls, clockFailures>>

\* virDomainRemoveInactive: unlock the object ...
RemoveUnlock(t) ==
  /\ pc[t] = "remove"
  /\ objLock' = NoThread
  /\ Go(t, "unlist")
  /\ UNCHANGED <<driverLock, job, jobsQueued, refs, listed, condWait, asyncWait, call,
                 calls, clockFailures>>

\* ... and take it off the hash, whose free callback locks it and drops the
\* list's reference.
Unlist(t) ==
  /\ pc[t] = "unlist"
  /\ objLock = NoThread
  /\ listed' = FALSE
  /\ refs' = refs - 1
  /\ Go(t, "unlockDriver")
  /\ UNCHANGED <<driverLock, objLock, job, jobsQueued, condWait, asyncWait, call, calls,
                 clockFailures>>

UnlockDriver(t) ==
  /\ pc[t] = "unlockDriver"
  /\ DropDriverIfKept(t)
  /\ Return(t)
  /\ UNCHANGED <<objLock, job, jobsQueued, refs, listed, condWait, asyncWait, calls,
                 clockFailures>>

\* Every call has returned and the bound allows no other.
AllDone ==
  /\ calls = MaxCalls
  /\ \A t \in Threads : pc[t] = "idle"
  /\ UNCHANGED vars

Step(t) ==
  \/ LockDriver(t) \/ FindMissing(t) \/ Find(t)
  \/ BeginNoClock(t) \/ Begin(t) \/ CheckLimit(t) \/ AsyncLoop(t) \/ CondLoop(t)
  \/ Wake(t) \/ AfterTimeout(t) \/ Start(t) \/ RelockDriver(t) \/ RelockObj(t)
  \/ Error(t) \/ ErrorWithDriver(t) \/ ErrorRelockObj(t) \/ Failed(t)
  \/ LetGo(t) \/ BackObj(t) \/ EndJob(t) \/ EndAsyncJob(t)
  \/ Unlock(t) \/ RemoveUnlock(t) \/ Unlist(t) \/ UnlockDriver(t)

Next ==
  \/ \E t \in Threads : Enter(t) \/ Step(t) \/ Timeout(t) \/ SpuriousWakeup(t)
  \/ AllDone

\* The kernel runs every thread that can run (the calls are finitely many, so
\* a lock is not handed around for ever), and a deadline, once passed, ends
\* the wait however often it was woken before.
Fairness ==
  \A t \in Threads : WF_vars(Step(t)) /\ SF_vars(Timeout(t))

Spec == Init /\ [][Next]_vars
FairSpec == Spec /\ Fairness

(***************************************************************************)
(* Properties.                                                             *)
(***************************************************************************)
JobRecords ==
  [active : Jobs \cup {"none"}, owner : Threads \cup {NoThread},
   asyncJob : AsyncJobs \cup {"none"}, asyncOwner : Threads \cup {NoThread},
   mask : SUBSET (Jobs)]

\* The types of the variables; threads wait on a condition only inside the
\* loop of BeginJobInternal that names it.
TypeOK ==
  /\ driverLock \in Threads \cup {NoThread}
  /\ objLock \in Threads \cup {NoThread}
  /\ job \in JobRecords
  /\ jobsQueued \in Int
  /\ refs \in Int
  /\ listed \in BOOLEAN
  /\ condWait \subseteq {t \in Threads : pc[t] = "waitCond"}
  /\ asyncWait \subseteq {t \in Threads : pc[t] = "waitAsync"}
  /\ pc \in [Threads -> PCs]
  /\ call \in [Threads -> CallTypes \cup {NoCall}]
  /\ calls \in Nat
  /\ clockFailures \in Nat

\* The job structure tells the truth about the threads: the active job is the
\* one a thread holds and the owner is that thread, so two threads never hold
\* normal jobs at once, although holders give up both locks on their way
\* (BeginJobInternal's relock) and waiters re-check after sleeping.
NormalJobHasOneOwner ==
  /\ job.active # "none" => job.owner \in Threads
  /\ \A t \in Threads :
       HoldsNormalJob(t) <=> (job.active # "none" /\ job.owner = t)
  /\ \A t \in Threads : HoldsNormalJob(t) => job.active = call[t].job

\* The same of the asynchronous job, which its holder keeps for long with
\* neither lock held: SAVE, DUMP and the migrations exclude each other.
AsyncJobHasOneOwner ==
  /\ job.asyncJob # "none" => job.asyncOwner \in Threads
  /\ \A t \in Threads :
       HoldsAsyncJob(t) <=> (job.asyncJob # "none" /\ job.asyncOwner = t)
  /\ \A t \in Threads : HoldsAsyncJob(t) => job.asyncJob = call[t].asyncJob

\* Both: BeginJob and EndJob keep the structure true to the threads.
JobsHaveOneOwner == NormalJobHasOneOwner /\ AsyncJobHasOneOwner

\* jobs_queued counts the calls between their jobs_queued++ and their
\* jobs_queued--, on the success, the time-out and the limit path, plus the
\* one that every failed reading of the clock leaves behind.
Queued == {t \in Threads : pc[t] \in QueuedPC}
QueueCountExact == jobsQueued = Cardinality(Queued) + clockFailures

\* The reference count is the domain list's reference plus one for each call
\* between virDomainObjRef and virDomainObjUnref.
Referrers == {t \in Threads : pc[t] \in RefPC}
RefCountExact == refs = Cardinality(Referrers) + (IF listed THEN 1 ELSE 0)

\* No call works on a freed object: a call that waits, holds a job, or is about
\* to unlock or unlist the object has it alive, even if another call took the
\* domain off the list meanwhile.
UsesObject(t) == pc[t] \in RefPC \cup ObjPC \cup {"unlist"}
NoUseAfterFree == \A t \in Threads : UsesObject(t) => refs > 0

\* The limit of max_queued holds for the calls that go on to wait or work: they
\* are never more than the limit allows.
LimitHolds ==
  MaxQueued > 0 =>
    Cardinality({t \in Threads : pc[t] \in HoldPC \cup WaitPC}) <= MaxQueued

\* What each thread's place says of its call, of the locks and of the object.
CallShape ==
  \A t \in Threads :
    /\ pc[t] # "idle" => call[t] \in CallTypes
    /\ pc[t] \in QueuedPC \cup {"begin", "errDriver", "errObj"} => call[t].job # "none"
    /\ pc[t] \in {"running", "backObj", "done"} => call[t].job = "async"
    /\ pc[t] \in {"relockDriver", "relockObj", "errDriver", "errObj", "remove", "unlist"} =>
         call[t].withDriver

LocksHeld ==
  \A t \in Threads :
    /\ pc[t] \in ObjPC => objLock = t
    /\ HoldsDriver(t) => driverLock = t

\* The tests of BeginJobInternal's loops still hold when the job starts.
StartAllowed ==
  \A t \in Threads : pc[t] = "start" =>
    job.active = "none" /\ NestedJobAllowed(job, call[t].job)

\* A thread that has the object locked without a reference of its own found it
\* on the list, or dropped a reference that was not the last.
LockedIsAlive ==
  \A t \in Threads :
    /\ pc[t] \in {"begin", "unlock"} => refs > 0
    /\ pc[t] \in {"remove", "unlist"} => listed

\* The inductive invariant behind the two exclusion properties: what a thread
\* tested is still true when it acts on it, because it holds the object lock
\* from the test on, and its call is one whose job the structure can record.
JobInv ==
  /\ TypeOK
  /\ CallShape
  /\ LocksHeld
  /\ StartAllowed
  /\ NormalJobHasOneOwner
  /\ AsyncJobHasOneOwner

\* The inductive invariant behind the counts and the life of the object.
CountInv ==
  /\ JobInv
  /\ QueueCountExact
  /\ RefCountExact
  /\ LockedIsAlive

\* The job locks implement the abstract job slots: a normal job starts beside
\* an asynchronous one only if its mask lets it at that moment, an asynchronous
\* one only on an idle domain, and only the end of a job frees its slot.
Slots == INSTANCE JobSlots WITH
  Kinds <- Jobs, AsyncKinds <- AsyncJobs, DefaultMask <- DefaultJobMask,
  normal <- {<<t, call[t].job>> : t \in {u \in Threads : HoldsNormalJob(u)}},
  async <- {<<t, call[t].asyncJob>> : t \in {u \in Threads : HoldsAsyncJob(u)}},
  mask <- job.mask
ImplementsSlots == Slots!Spec

\* Every call returns: with the driver lock before the object lock everywhere,
\* waits that end at a deadline and jobs that are ended, nobody waits for ever.
EveryCallReturns == \A t \in Threads : (pc[t] # "idle") ~> (pc[t] = "idle")

\* libxl_conf.h says of JOB_DESTROY "cannot be masked out": a destroy request
\* is never left asleep for a normal job when none is active, unless a thread
\* that was woken for its end still has to take the job over or pass it on.
DestroyNotMasked ==
  \A t \in condWait : call[t].job = "destroy" /\ job.active = "none" =>
    \E u \in Threads : pc[u] \in LoopPC \/ (pc[u] = "waitCond" /\ u \notin condWait)

\* BeginJobInternal's error path says of its unref "Safe to ignore value since
\* ref count was incremented above": a caller whose BeginJob failed still has
\* an object to unlock.
FailedCallerHasObject == \A t \in Threads : pc[t] = "failed" => refs > 0
=============================================================================
