--------------------------- MODULE LibxlJob_proofs ---------------------------
(***************************************************************************)
(* Proofs about LibxlJob, for every set of threads, every set of calls     *)
(* that keeps CallAssumption, every limit and every bound on the calls.    *)
(***************************************************************************)
EXTENDS LibxlJob, FiniteSetTheorems, TLAPS

(***************************************************************************)
(* Lemmas on the operators of the model.                                   *)
(***************************************************************************)
\* What a thread's call can be: the contract of CallAssumption, or no call.
LEMMA CallTyping ==
  ASSUME NEW c \in CallTypes \cup {NoCall}
  PROVE  /\ c.job \in Jobs \cup {"async", "none"}
         /\ c.asyncJob \in AsyncJobs \cup {"none"}
         /\ (c.job = "async") <=> (c.asyncJob # "none")
         /\ c.withDriver \in BOOLEAN
         /\ c.removes \in BOOLEAN
  <1>1. CASE c = NoCall
    BY <1>1 DEF NoCall
  <1>2. CASE c \in CallTypes
    <2>1. c \in Calls
      BY <1>2, CallAssumption
    <2> QED
      BY <1>2, <2>1, CallAssumption DEF Calls
  <1> QED
    BY <1>1, <1>2

\* libxlDomainObjResetJob touches the normal job's half of the structure only.
LEMMA ResetJobFacts ==
  ASSUME NEW j \in JobRecords
  PROVE  /\ ResetJob(j) \in JobRecords
         /\ ResetJob(j).active = "none"
         /\ ResetJob(j).asyncJob = j.asyncJob
         /\ ResetJob(j).asyncOwner = j.asyncOwner
         /\ ResetJob(j).mask = j.mask
  BY DEF ResetJob, JobRecords

\* libxlDomainObjResetAsyncJob touches the other half only.
LEMMA ResetAsyncJobFacts ==
  ASSUME NEW j \in JobRecords
  PROVE  /\ ResetAsyncJob(j) \in JobRecords
         /\ ResetAsyncJob(j).active = j.active
         /\ ResetAsyncJob(j).owner = j.owner
         /\ ResetAsyncJob(j).asyncJob = "none"
         /\ ResetAsyncJob(j).mask = DefaultJobMask
  BY DEF ResetAsyncJob, JobRecords, DefaultJobMask, Jobs

\* Setting the mask of a migration changes nothing but the mask.
LEMMA SetMaskFacts ==
  ASSUME NEW j \in JobRecords, NEW a
  PROVE  LET s == SetAsyncJobMask(j, MaskFor(a))
         IN  /\ s \in JobRecords
             /\ s.active = j.active
             /\ s.owner = j.owner
             /\ s.asyncJob = j.asyncJob
             /\ s.asyncOwner = j.asyncOwner
             /\ j.asyncJob = "none" => s.mask = j.mask
  <1>1. MaskFor(a) \subseteq Jobs
    BY DEF MaskFor, Jobs, DefaultJobMask
  <1> QED
    BY <1>1 DEF SetAsyncJobMask, JobRecords, Jobs

(***************************************************************************)
(* Type correctness.                                                       *)
(***************************************************************************)
\* The initial values have their types.
LEMMA InitType == Init => TypeOK
  BY ThreadAssumption, NumberAssumption
     DEF Init, TypeOK, JobRecords, Jobs, AsyncJobs, DefaultJobMask, PCs

\* Every step of a thread keeps the types: each action of BeginJobInternal, EndJob,
\* EndAsyncJob and their callers, one by one.
LEMMA StepType ==
  ASSUME TypeOK, NEW t \in Threads, Step(t)
  PROVE  TypeOK'
  <1> USE DEF TypeOK, Go
  <1>t. /\ call[t] \in CallTypes \cup {NoCall}
        /\ call[t].job \in Jobs \cup {"async", "none"}
        /\ call[t].asyncJob \in AsyncJobs \cup {"none"}
    BY CallTyping
  <1>e. AfterUnref(t) => /\ refs' \in Int
                         /\ objLock' \in Threads \cup {NoThread}
                         /\ pc' \in [Threads -> PCs]
                         /\ \A u \in Threads \ {t} : pc'[u] = pc[u]
    BY DEF AfterUnref, PCs, LeavePC
  <1>1. CASE LockDriver(t)
    BY <1>1 DEF LockDriver, PCs
  <1>2. CASE FindMissing(t)
    BY <1>2 DEF FindMissing, Return, PCs
  <1>3. CASE Find(t)
    BY <1>3 DEF Find, PCs, LeavePC
  <1>4. CASE BeginNoClock(t)
    BY <1>4 DEF BeginNoClock, PCs, ErrorPC
  <1>5. CASE Begin(t)
    BY <1>5 DEF Begin, DropDriverIfKept, PCs, LoopPC
  <1>6. CASE CheckLimit(t)
    BY <1>6 DEF CheckLimit, PCs, LoopPC, ErrorPC
  <1>7. CASE AsyncLoop(t)
    BY <1>7 DEF AsyncLoop, PCs, LoopPC, WaitPC
  <1>8. CASE CondLoop(t)
    BY <1>8 DEF CondLoop, PCs, LoopPC, WaitPC
  <1>9. CASE Wake(t)
    BY <1>9 DEF Wake, PCs, LoopPC
  <1>10. CASE AfterTimeout(t)
    BY <1>10 DEF AfterTimeout, PCs, ErrorPC
  <1>11. CASE Start(t)
    <2>1. CASE call[t].job = "async"
      <3>1. ResetAsyncJob(ResetJob(job)) \in JobRecords
        BY ResetJobFacts, ResetAsyncJobFacts
      <3> QED
        BY <1>11, <1>t, <2>1, <3>1 DEF Start, JobRecords, PCs, HoldPC
    <2>2. CASE call[t].job # "async"
      <3>1. ResetJob(job) \in JobRecords
        BY ResetJobFacts
      <3>2. call[t].job \in Jobs \cup {"none"}
        BY <1>t, <2>2
      <3>3. job' = [ResetJob(job) EXCEPT !.active = call[t].job, !.owner = t]
        BY <1>11, <2>2 DEF Start
      <3>4. job' \in JobRecords
        BY <3>1, <3>2, <3>3 DEF JobRecords
      <3> QED
        BY <1>11, <3>4 DEF Start, PCs, HoldPC
    <2> QED
      BY <2>1, <2>2
  <1>12. CASE RelockDriver(t)
    BY <1>12 DEF RelockDriver, PCs, HoldPC, ErrorPC
  <1>13. CASE RelockObj(t)
    BY <1>13, SetMaskFacts DEF RelockObj, PCs, HoldPC
  <1>14. CASE Error(t)
    BY <1>14 DEF Error, PCs, ErrorPC
  <1>15. CASE ErrorWithDriver(t)
    BY <1>15 DEF ErrorWithDriver, PCs, ErrorPC
  <1>16. CASE ErrorRelockObj(t)
    BY <1>16 DEF ErrorRelockObj, PCs, ErrorPC
  <1>17. CASE Failed(t)
    BY <1>17 DEF Failed, Return, DropDriverIfKept, PCs
  <1>18. CASE LetGo(t)
    BY <1>18 DEF LetGo, PCs, HoldPC
  <1>19. CASE BackObj(t)
    BY <1>19 DEF BackObj, PCs, HoldPC
  <1>20. CASE EndJob(t)
    BY <1>20, <1>e, ResetJobFacts DEF EndJob
  <1>21. CASE EndAsyncJob(t)
    BY <1>21, <1>e, ResetAsyncJobFacts DEF EndAsyncJob
  <1>22. CASE Unlock(t)
    BY <1>22 DEF Unlock, Return, DropDriverIfKept, PCs
  <1>23. CASE RemoveUnlock(t)
    BY <1>23 DEF RemoveUnlock, PCs, LeavePC
  <1>24. CASE Unlist(t)
    <2>1. listed' \in BOOLEAN
      BY <1>24 DEF Unlist
    <2>2. /\ refs' \in Int
          /\ pc' \in [Threads -> PCs]
          /\ \A u \in Threads \ {t} : pc'[u] = pc[u]
          /\ pc[t] = "unlist"
      BY <1>24 DEF Unlist, PCs, LeavePC
    <2> QED
      BY <1>24, <2>1, <2>2 DEF Unlist
  <1>25. CASE UnlockDriver(t)
    BY <1>25 DEF UnlockDriver, Return, DropDriverIfKept, PCs
  <1> HIDE DEF TypeOK, Go
  <1> QED
    BY <1>1, <1>2, <1>3, <1>4, <1>5, <1>6, <1>7, <1>8, <1>9, <1>10, <1>11, <1>12, <1>13, <1>14, <1>15, <1>16, <1>17, <1>18, <1>19, <1>20, <1>21, <1>22, <1>23, <1>24, <1>25 DEF Step

\* ... and so does every step of the system.
LEMMA NextType == TypeOK /\ [Next]_vars => TypeOK'
  <1> SUFFICES ASSUME TypeOK, [Next]_vars PROVE TypeOK'
    OBVIOUS
  <1>1. ASSUME NEW t \in Threads, Enter(t) PROVE TypeOK'
    BY <1>1 DEF Enter, TypeOK, Go, PCs
  <1>2. ASSUME NEW t \in Threads, Timeout(t) PROVE TypeOK'
    BY <1>2 DEF Timeout, TypeOK, Go, PCs, WaitPC
  <1>3. ASSUME NEW t \in Threads, SpuriousWakeup(t) PROVE TypeOK'
    BY <1>3 DEF SpuriousWakeup, TypeOK
  <1>4. CASE UNCHANGED vars
    BY <1>4 DEF vars, TypeOK
  <1> QED
    BY <1>1, <1>2, <1>3, <1>4, StepType DEF Next, AllDone

\* Type correctness: the variables keep their types, and a thread is in the
\* wait set of a condition only while it is asleep on it.
THEOREM TypeCorrect == Spec => []TypeOK
  BY InitType, NextType, PTL DEF Spec

(***************************************************************************)
(* The exclusion invariants.                                               *)
(***************************************************************************)

\* Every step keeps a thread's place and its call in agreement: only asynchronous
\* calls let go of both locks, only ...WithDriver calls take the driver lock again.
LEMMA StepShape ==
  ASSUME JobInv, NEW t \in Threads, Step(t)
  PROVE  CallShape'
  <1> USE DEF JobInv, TypeOK, CallShape, PCs, QueuedPC, HoldPC, LoopPC, WaitPC, ErrorPC, LeavePC
  <1>t. \A u \in Threads : call[u] \in CallTypes =>
          /\ call[u].job \in {"async", "none"} => call[u].withDriver
          /\ call[u].removes => call[u].withDriver
    BY CallAssumption
  <1>1. CASE LockDriver(t)
    BY <1>1, <1>t DEF LockDriver, Go
  <1>2. CASE FindMissing(t)
    BY <1>2, <1>t DEF FindMissing, Return, Go
  <1>3. CASE Find(t)
    BY <1>3, <1>t DEF Find, Go
  <1>4. CASE BeginNoClock(t)
    BY <1>4, <1>t DEF BeginNoClock, Go
  <1>5. CASE Begin(t)
    BY <1>5, <1>t DEF Begin, DropDriverIfKept, Go
  <1>6. CASE CheckLimit(t)
    BY <1>6, <1>t DEF CheckLimit, Go
  <1>7. CASE AsyncLoop(t)
    BY <1>7, <1>t DEF AsyncLoop, Go
  <1>8. CASE CondLoop(t)
    BY <1>8, <1>t DEF CondLoop, Go
  <1>9. CASE Wake(t)
    BY <1>9, <1>t DEF Wake, Go
  <1>10. CASE AfterTimeout(t)
    BY <1>10, <1>t DEF AfterTimeout, Go
  <1>11. CASE Start(t)
    BY <1>11, <1>t DEF Start, Go
  <1>12. CASE RelockDriver(t)
    BY <1>12, <1>t DEF RelockDriver, Go
  <1>13. CASE RelockObj(t)
    BY <1>13, <1>t DEF RelockObj, Go
  <1>14. CASE Error(t)
    BY <1>14, <1>t DEF Error, Go
  <1>15. CASE ErrorWithDriver(t)
    BY <1>15, <1>t DEF ErrorWithDriver, Go
  <1>16. CASE ErrorRelockObj(t)
    BY <1>16, <1>t DEF ErrorRelockObj, Go
  <1>17. CASE Failed(t)
    BY <1>17, <1>t DEF Failed, Return, DropDriverIfKept, Go
  <1>18. CASE LetGo(t)
    BY <1>18, <1>t DEF LetGo, Go
  <1>19. CASE BackObj(t)
    BY <1>19, <1>t DEF BackObj, Go
  <1>20. CASE EndJob(t)
    BY <1>20, <1>t DEF EndJob, AfterUnref, Go
  <1>21. CASE EndAsyncJob(t)
    BY <1>21, <1>t DEF EndAsyncJob, AfterUnref, Go
  <1>22. CASE Unlock(t)
    BY <1>22, <1>t DEF Unlock, Return, DropDriverIfKept, Go
  <1>23. CASE RemoveUnlock(t)
    BY <1>23, <1>t DEF RemoveUnlock, Go
  <1>24. CASE Unlist(t)
    BY <1>24, <1>t DEF Unlist, Go
  <1>25. CASE UnlockDriver(t)
    BY <1>25, <1>t DEF UnlockDriver, Return, DropDriverIfKept, Go
  <1> HIDE DEF JobInv, TypeOK, CallShape
  <1> QED
    BY <1>1, <1>2, <1>3, <1>4, <1>5, <1>6, <1>7, <1>8, <1>9, <1>10, <1>11, <1>12, <1>13, <1>14, <1>15, <1>16, <1>17, <1>18, <1>19, <1>20, <1>21, <1>22, <1>23, <1>24, <1>25 DEF Step

\* Every step keeps the locks with the threads whose code runs under them.
LEMMA StepLocks ==
  ASSUME JobInv, NEW t \in Threads, Step(t)
  PROVE  LocksHeld'
  <1> USE DEF JobInv, TypeOK, LocksHeld, CallShape, HoldsDriver, ObjPC, DriverPC, KeptDriverPC, LoopPC, PCs
  <1>t. \A u \in Threads : call[u] \in CallTypes =>
          /\ call[u].job \in {"async", "none"} => call[u].withDriver
          /\ call[u].removes => call[u].withDriver
    BY CallAssumption
  <1>1. CASE LockDriver(t)
    BY <1>1, ThreadAssumption DEF LockDriver, Go
  <1>2. CASE FindMissing(t)
    BY <1>2, ThreadAssumption DEF FindMissing, Return, Go
  <1>3. CASE Find(t)
    BY <1>3, ThreadAssumption, <1>t DEF Find, Go
  <1>4. CASE BeginNoClock(t)
    BY <1>4, ThreadAssumption DEF BeginNoClock, Go
  <1>5. CASE Begin(t)
    BY <1>5, ThreadAssumption DEF Begin, DropDriverIfKept, Go
  <1>6. CASE CheckLimit(t)
    BY <1>6, ThreadAssumption DEF CheckLimit, Go
  <1>7. CASE AsyncLoop(t)
    BY <1>7, ThreadAssumption DEF AsyncLoop, Go
  <1>8. CASE CondLoop(t)
    BY <1>8, ThreadAssumption DEF CondLoop, Go
  <1>9. CASE Wake(t)
    BY <1>9, ThreadAssumption DEF Wake, Go
  <1>10. CASE AfterTimeout(t)
    BY <1>10, ThreadAssumption DEF AfterTimeout, Go
  <1>11. CASE Start(t)
    BY <1>11, ThreadAssumption DEF Start, Go
  <1>12. CASE RelockDriver(t)
    BY <1>12, ThreadAssumption DEF RelockDriver, Go
  <1>13. CASE RelockObj(t)
    BY <1>13, ThreadAssumption DEF RelockObj, Go
  <1>14. CASE Error(t)
    BY <1>14, ThreadAssumption DEF Error, Go
  <1>15. CASE ErrorWithDriver(t)
    BY <1>15, ThreadAssumption DEF ErrorWithDriver, Go
  <1>16. CASE ErrorRelockObj(t)
    BY <1>16, ThreadAssumption DEF ErrorRelockObj, Go
  <1>17. CASE Failed(t)
    BY <1>17, ThreadAssumption DEF Failed, Return, DropDriverIfKept, Go
  <1>18. CASE LetGo(t)
    BY <1>18, ThreadAssumption, <1>t DEF LetGo, Go
  <1>19. CASE BackObj(t)
    BY <1>19, ThreadAssumption DEF BackObj, Go
  <1>20. CASE EndJob(t)
    BY <1>20, ThreadAssumption, <1>t DEF EndJob, AfterUnref, Go
  <1>21. CASE EndAsyncJob(t)
    BY <1>21, ThreadAssumption, <1>t DEF EndAsyncJob, AfterUnref, Go
  <1>22. CASE Unlock(t)
    BY <1>22, ThreadAssumption DEF Unlock, Return, DropDriverIfKept, Go
  <1>23. CASE RemoveUnlock(t)
    BY <1>23, ThreadAssumption DEF RemoveUnlock, Go
  <1>24. CASE Unlist(t)
    BY <1>24, ThreadAssumption DEF Unlist, Go
  <1>25. CASE UnlockDriver(t)
    BY <1>25, ThreadAssumption DEF UnlockDriver, Return, DropDriverIfKept, Go
  <1> HIDE DEF JobInv, TypeOK, LocksHeld
  <1> QED
    BY <1>1, <1>2, <1>3, <1>4, <1>5, <1>6, <1>7, <1>8, <1>9, <1>10, <1>11, <1>12, <1>13, <1>14, <1>15, <1>16, <1>17, <1>18, <1>19, <1>20, <1>21, <1>22, <1>23, <1>24, <1>25 DEF Step

\* What BeginJobInternal tested before "start" stays true until the job starts:
\* the object lock is held from the test on.
LEMMA StepStart ==
  ASSUME JobInv, NEW t \in Threads, Step(t)
  PROVE  StartAllowed'
  <1> USE DEF JobInv, TypeOK, StartAllowed, LocksHeld, ObjPC, LoopPC, PCs
  <1>1. CASE LockDriver(t)
    BY <1>1, ThreadAssumption DEF LockDriver, Go
  <1>2. CASE FindMissing(t)
    BY <1>2, ThreadAssumption DEF FindMissing, Return, Go
  <1>3. CASE Find(t)
    BY <1>3, ThreadAssumption DEF Find, Go
  <1>4. CASE BeginNoClock(t)
    BY <1>4, ThreadAssumption DEF BeginNoClock, Go
  <1>5. CASE Begin(t)
    BY <1>5, ThreadAssumption DEF Begin, DropDriverIfKept, Go
  <1>6. CASE CheckLimit(t)
    BY <1>6, ThreadAssumption DEF CheckLimit, Go
  <1>7. CASE AsyncLoop(t)
    BY <1>7, ThreadAssumption DEF AsyncLoop, Go
  <1>8. CASE CondLoop(t)
    BY <1>8, ThreadAssumption DEF CondLoop, Go
  <1>9. CASE Wake(t)
    BY <1>9, ThreadAssumption DEF Wake, Go
  <1>10. CASE AfterTimeout(t)
    BY <1>10, ThreadAssumption DEF AfterTimeout, Go
  <1>11. CASE Start(t)
    BY <1>11, ThreadAssumption, ResetJobFacts, ResetAsyncJobFacts, SetMaskFacts DEF Start, Go
  <1>12. CASE RelockDriver(t)
    BY <1>12, ThreadAssumption DEF RelockDriver, Go
  <1>13. CASE RelockObj(t)
    BY <1>13, ThreadAssumption, ResetJobFacts, ResetAsyncJobFacts, SetMaskFacts DEF RelockObj, Go
  <1>14. CASE Error(t)
    BY <1>14, ThreadAssumption DEF Error, Go
  <1>15. CASE ErrorWithDriver(t)
    BY <1>15, ThreadAssumption DEF ErrorWithDriver, Go
  <1>16. CASE ErrorRelockObj(t)
    BY <1>16, ThreadAssumption DEF ErrorRelockObj, Go
  <1>17. CASE Failed(t)
    BY <1>17, ThreadAssumption DEF Failed, Return, DropDriverIfKept, Go
  <1>18. CASE LetGo(t)
    BY <1>18, ThreadAssumption DEF LetGo, Go
  <1>19. CASE BackObj(t)
    BY <1>19, ThreadAssumption DEF BackObj, Go
  <1>20. CASE EndJob(t)
    BY <1>20, ThreadAssumption, ResetJobFacts, ResetAsyncJobFacts, SetMaskFacts DEF EndJob, AfterUnref, Go
  <1>21. CASE EndAsyncJob(t)
    BY <1>21, ThreadAssumption, ResetJobFacts, ResetAsyncJobFacts, SetMaskFacts DEF EndAsyncJob, AfterUnref, Go
  <1>22. CASE Unlock(t)
    BY <1>22, ThreadAssumption DEF Unlock, Return, DropDriverIfKept, Go
  <1>23. CASE RemoveUnlock(t)
    BY <1>23, ThreadAssumption DEF RemoveUnlock, Go
  <1>24. CASE Unlist(t)
    BY <1>24, ThreadAssumption DEF Unlist, Go
  <1>25. CASE UnlockDriver(t)
    BY <1>25, ThreadAssumption DEF UnlockDriver, Return, DropDriverIfKept, Go
  <1> HIDE DEF JobInv, TypeOK, StartAllowed
  <1> QED
    BY <1>1, <1>2, <1>3, <1>4, <1>5, <1>6, <1>7, <1>8, <1>9, <1>10, <1>11, <1>12, <1>13, <1>14, <1>15, <1>16, <1>17, <1>18, <1>19, <1>20, <1>21, <1>22, <1>23, <1>24, <1>25 DEF Step

\* Only the start and the end of a job change who holds one.
JobsKept == /\ job'.active = job.active /\ job'.owner = job.owner
            /\ job'.asyncJob = job.asyncJob /\ job'.asyncOwner = job.asyncOwner
            /\ \A u \in Threads : (pc'[u] \in HoldPC) <=> (pc[u] \in HoldPC)
            /\ \A u \in Threads : pc[u] \in HoldPC => call'[u] = call[u]

\* The steps that neither start nor end a job leave the recorded owners, and the
\* set of threads that hold one, as they were.
LEMMA StepKeepsJobs ==
  ASSUME JobInv, NEW t \in Threads, Step(t),
         ~Start(t), ~EndJob(t), ~EndAsyncJob(t)
  PROVE  JobsKept
  <1> USE DEF JobInv, TypeOK, JobsKept, HoldPC, PCs
  <1>1. CASE LockDriver(t)
    BY <1>1 DEF LockDriver, Go
  <1>2. CASE FindMissing(t)
    BY <1>2 DEF FindMissing, Return, Go
  <1>3. CASE Find(t)
    BY <1>3 DEF Find, Go
  <1>4. CASE BeginNoClock(t)
    BY <1>4 DEF BeginNoClock, Go
  <1>5. CASE Begin(t)
    BY <1>5 DEF Begin, DropDriverIfKept, Go
  <1>6. CASE CheckLimit(t)
    BY <1>6 DEF CheckLimit, Go
  <1>7. CASE AsyncLoop(t)
    BY <1>7 DEF AsyncLoop, Go
  <1>8. CASE CondLoop(t)
    BY <1>8 DEF CondLoop, Go
  <1>9. CASE Wake(t)
    BY <1>9 DEF Wake, Go
  <1>10. CASE AfterTimeout(t)
    BY <1>10 DEF AfterTimeout, Go
  <1>12. CASE RelockDriver(t)
    BY <1>12 DEF RelockDriver, Go
  <1>13. CASE RelockObj(t)
    BY <1>13, SetMaskFacts DEF RelockObj, Go
  <1>14. CASE Error(t)
    BY <1>14 DEF Error, Go
  <1>15. CASE ErrorWithDriver(t)
    BY <1>15 DEF ErrorWithDriver, Go
  <1>16. CASE ErrorRelockObj(t)
    BY <1>16 DEF ErrorRelockObj, Go
  <1>17. CASE Failed(t)
    BY <1>17 DEF Failed, Return, DropDriverIfKept, Go
  <1>18. CASE LetGo(t)
    BY <1>18 DEF LetGo, Go
  <1>19. CASE BackObj(t)
    BY <1>19 DEF BackObj, Go
  <1>22. CASE Unlock(t)
    BY <1>22 DEF Unlock, Return, DropDriverIfKept, Go
  <1>23. CASE RemoveUnlock(t)
    BY <1>23 DEF RemoveUnlock, Go
  <1>24. CASE Unlist(t)
    BY <1>24 DEF Unlist, Go
  <1>25. CASE UnlockDriver(t)
    BY <1>25 DEF UnlockDriver, Return, DropDriverIfKept, Go
  <1> HIDE DEF JobInv, TypeOK, JobsKept
  <1> QED
    BY <1>1, <1>2, <1>3, <1>4, <1>5, <1>6, <1>7, <1>8, <1>9, <1>10, <1>12, <1>13, <1>14, <1>15, <1>16, <1>17, <1>18, <1>19, <1>22, <1>23, <1>24, <1>25 DEF Step

\* Every step keeps the normal job with its one owner.
LEMMA StepNormal ==
  ASSUME JobInv, NEW t \in Threads, Step(t)
  PROVE  NormalJobHasOneOwner'
  <1> USE DEF JobInv, TypeOK, NormalJobHasOneOwner, HoldsNormalJob
  <1>t. /\ call[t].job \in Jobs \cup {"async", "none"}
        /\ "none" \notin Jobs /\ "async" \notin Jobs
        /\ "start" \notin HoldPC
    BY CallTyping DEF Jobs, HoldPC
  <1>1. CASE Start(t)
    <2>0. /\ job.active = "none" /\ pc[t] = "start" /\ call' = call
          /\ pc' = [pc EXCEPT ![t] = IF call[t].withDriver THEN "relockDriver" ELSE "holding"]
      BY <1>1 DEF Start, StartAllowed, Go
    <2>1. \A u \in Threads : ~HoldsNormalJob(u)
      BY <2>0
    <2>2. CASE call[t].job = "async"
      <3>1. job'.active = "none"
        BY <1>1, <2>0, <2>2, ResetJobFacts, ResetAsyncJobFacts DEF Start, JobRecords
      <3> QED
        BY <2>0, <2>1, <2>2, <3>1, <1>t
    <2>3. CASE call[t].job # "async"
      <3>1. job'.active = call[t].job /\ job'.owner = t
        BY <1>1, <2>3, ResetJobFacts DEF Start, JobRecords
      <3>2. call[t].job \in Jobs
        BY <1>t, <2>0, <2>3 DEF CallShape, QueuedPC, LoopPC
      <3>3. HoldsNormalJob(t)'
        BY <2>0, <3>2 DEF HoldPC
      <3> QED
        BY <2>0, <2>1, <3>1, <3>2, <3>3, <1>t
    <2> QED
      BY <2>2, <2>3
  <1>2. CASE EndJob(t)
    <2>1. job'.active = "none"
      BY <1>2, ResetJobFacts DEF EndJob
    <2>2. /\ pc[t] = "holding" /\ call' = call /\ pc'[t] \notin HoldPC
          /\ \A u \in Threads \ {t} : pc'[u] = pc[u]
          /\ HoldsNormalJob(t)
      BY <1>2, <1>t DEF EndJob, AfterUnref, Go, HoldPC, CallShape, QueuedPC
    <2> QED
      BY <2>1, <2>2
  <1>3. CASE EndAsyncJob(t)
    <2>1. job'.active = job.active /\ job'.owner = job.owner
      BY <1>3, ResetAsyncJobFacts DEF EndAsyncJob
    <2>2. /\ call' = call /\ pc'[t] \notin HoldPC /\ call[t].job = "async"
          /\ \A u \in Threads \ {t} : pc'[u] = pc[u]
      BY <1>3 DEF EndAsyncJob, AfterUnref, Go, HoldPC, CallShape
    <2> QED
      BY <2>1, <2>2, <1>t
  <1>4. CASE ~Start(t) /\ ~EndJob(t) /\ ~EndAsyncJob(t)
    BY <1>4, StepKeepsJobs DEF JobsKept
  <1> QED
    BY <1>1, <1>2, <1>3, <1>4

\* Every step keeps the asynchronous job with its one owner.
LEMMA StepAsync ==
  ASSUME JobInv, NEW t \in Threads, Step(t)
  PROVE  AsyncJobHasOneOwner'
  <1> USE DEF JobInv, TypeOK, AsyncJobHasOneOwner, HoldsAsyncJob
  <1>t. /\ call[t].asyncJob \in AsyncJobs \cup {"none"}
        /\ (call[t].job = "async") <=> (call[t].asyncJob # "none")
        /\ "async" \notin Jobs /\ "start" \notin HoldPC
    BY CallTyping DEF Jobs, HoldPC
  <1>1. CASE Start(t)
    <2>0. /\ pc[t] = "start" /\ call' = call
          /\ pc' = [pc EXCEPT ![t] = IF call[t].withDriver THEN "relockDriver" ELSE "holding"]
      BY <1>1 DEF Start, Go
    <2>1. pc'[t] \in HoldPC /\ ~HoldsAsyncJob(t)
      BY <2>0, <1>t DEF HoldPC
    <2>2. CASE call[t].job = "async"
      <3>1. job.asyncJob = "none"
        BY <2>0, <2>2, <1>t DEF StartAllowed, NestedJobAllowed, JobRecords
      <3>2. job'.asyncJob = call[t].asyncJob /\ job'.asyncOwner = t
        BY <1>1, <2>2, ResetJobFacts, ResetAsyncJobFacts DEF Start, JobRecords
      <3> QED
        BY <2>0, <2>1, <2>2, <3>1, <3>2, <1>t
    <2>3. CASE call[t].job # "async"
      <3>1. job'.asyncJob = job.asyncJob /\ job'.asyncOwner = job.asyncOwner
        BY <1>1, <2>3, ResetJobFacts DEF Start, JobRecords
      <3> QED
        BY <2>0, <2>1, <2>3, <3>1
    <2> QED
      BY <2>2, <2>3
  <1>2. CASE EndJob(t)
    <2>1. job'.asyncJob = job.asyncJob /\ job'.asyncOwner = job.asyncOwner
      BY <1>2, ResetJobFacts DEF EndJob
    <2>2. /\ call' = call /\ pc'[t] \notin HoldPC /\ call[t].job # "async"
          /\ \A u \in Threads \ {t} : pc'[u] = pc[u]
      BY <1>2 DEF EndJob, AfterUnref, Go, HoldPC
    <2> QED
      BY <2>1, <2>2
  <1>3. CASE EndAsyncJob(t)
    <2>1. job'.asyncJob = "none"
      BY <1>3, ResetAsyncJobFacts DEF EndAsyncJob
    <2>2. /\ call' = call /\ pc'[t] \notin HoldPC /\ HoldsAsyncJob(t)
          /\ \A u \in Threads \ {t} : pc'[u] = pc[u]
      BY <1>3 DEF EndAsyncJob, AfterUnref, Go, HoldPC, CallShape
    <2> QED
      BY <2>1, <2>2
  <1>4. CASE ~Start(t) /\ ~EndJob(t) /\ ~EndAsyncJob(t)
    BY <1>4, StepKeepsJobs DEF JobsKept
  <1> QED
    BY <1>1, <1>2, <1>3, <1>4

\* The exclusion invariant holds of a domain nobody works on.
LEMMA InitInv == Init => JobInv
  <1> SUFFICES ASSUME Init PROVE JobInv
    OBVIOUS
  <1>1. TypeOK
    BY InitType
  <1>2. /\ \A t \in Threads : pc[t] = "idle"
        /\ job.active = "none" /\ job.asyncJob = "none"
    BY DEF Init
  <1>3. CallShape
    BY <1>2 DEF CallShape, QueuedPC, LoopPC, WaitPC, HoldPC
  <1>4. LocksHeld
    BY <1>2 DEF LocksHeld, HoldsDriver, ObjPC, LoopPC, DriverPC, KeptDriverPC
  <1>5. StartAllowed
    BY <1>2 DEF StartAllowed
  <1>6. NormalJobHasOneOwner /\ AsyncJobHasOneOwner
    BY <1>2 DEF NormalJobHasOneOwner, AsyncJobHasOneOwner, HoldsNormalJob, HoldsAsyncJob, HoldPC
  <1> QED
    BY <1>1, <1>3, <1>4, <1>5, <1>6 DEF JobInv

\* A call that arrives, and a sleep that ends, are outside everything JobInv
\* speaks of: neither thread holds a lock, a reference or a job there.
LEMMA QuietInv ==
  ASSUME JobInv, NEW t \in Threads,
         Enter(t) \/ Timeout(t) \/ SpuriousWakeup(t)
  PROVE  JobInv'
  <1>1. TypeOK'
    BY NextType DEF JobInv, Next
  <1>2. /\ driverLock' = driverLock /\ objLock' = objLock /\ job' = job
        /\ \A u \in Threads \ {t} : pc'[u] = pc[u] /\ call'[u] = call[u]
        /\ \/ pc[t] = "idle" /\ pc'[t] = "lockDriver" /\ call'[t] \in CallTypes
           \/ /\ pc[t] \in {"waitCond", "waitAsync"}
              /\ pc'[t] \in {pc[t], "timedOut"} /\ call'[t] = call[t]
    BY DEF Enter, Timeout, SpuriousWakeup, JobInv, TypeOK, Go
  <1> DEFINE Quiet == {"idle", "lockDriver", "waitCond", "waitAsync", "timedOut"}
  <1>3. pc[t] \in Quiet /\ pc'[t] \in Quiet
    BY <1>2
  <1>4. CallShape'
    BY <1>2 DEF JobInv, CallShape, QueuedPC, LoopPC, WaitPC, HoldPC
  <1>5. LocksHeld'
    BY <1>2, <1>3 DEF JobInv, LocksHeld, HoldsDriver, ObjPC, LoopPC, DriverPC, KeptDriverPC
  <1>6. StartAllowed'
    BY <1>2, <1>3 DEF JobInv, StartAllowed
  <1>7. pc[t] \notin HoldPC /\ pc'[t] \notin HoldPC
    BY <1>3 DEF HoldPC
  <1>8. NormalJobHasOneOwner' /\ AsyncJobHasOneOwner'
    BY <1>2, <1>7 DEF JobInv, NormalJobHasOneOwner, AsyncJobHasOneOwner, HoldsNormalJob, HoldsAsyncJob
  <1> QED
    BY <1>1, <1>4, <1>5, <1>6, <1>8 DEF JobInv

\* The exclusion invariant is inductive.
LEMMA NextInv == JobInv /\ [Next]_vars => JobInv'
  <1> SUFFICES ASSUME JobInv, [Next]_vars PROVE JobInv'
    OBVIOUS
  <1>1. ASSUME NEW t \in Threads, Step(t) PROVE JobInv'
    <2>1. TypeOK'
      BY <1>1, StepType DEF JobInv
    <2> QED
      BY <1>1, <2>1, StepShape, StepLocks, StepStart, StepNormal, StepAsync DEF JobInv
  <1>2. CASE UNCHANGED vars
    <2>1. TypeOK'
      BY <1>2, NextType DEF JobInv
    <2> QED
      BY <1>2, <2>1 DEF vars, JobInv, CallShape, LocksHeld, HoldsDriver, StartAllowed,
         NormalJobHasOneOwner, AsyncJobHasOneOwner, HoldsNormalJob, HoldsAsyncJob
  <1> QED
    BY <1>1, <1>2, QuietInv DEF Next, AllDone

\* JobInv is an invariant: it is inductive.
THEOREM JobInvariant == Spec => []JobInv
  BY InitInv, NextInv, PTL DEF Spec

\* Two threads never hold normal jobs on the domain at once, and the job
\* structure names the one that does.
THEOREM NormalJobExclusion == Spec => []NormalJobHasOneOwner
  <1>1. JobInv => NormalJobHasOneOwner
    BY DEF JobInv
  <1> QED
    BY <1>1, JobInvariant, PTL

\* SAVE, DUMP, RESTORE and the migrations of one domain exclude each other.
THEOREM AsyncJobExclusion == Spec => []AsyncJobHasOneOwner
  <1>1. JobInv => AsyncJobHasOneOwner
    BY DEF JobInv
  <1> QED
    BY <1>1, JobInvariant, PTL

\* BeginJob and EndJob keep the job structure true to the threads: both of these.
THEOREM JobExclusion == Spec => []JobsHaveOneOwner
  <1>1. JobInv => JobsHaveOneOwner
    BY DEF JobInv, JobsHaveOneOwner
  <1> QED
    BY <1>1, JobInvariant, PTL

(***************************************************************************)
(* The job locks implement the abstract job slots.                         *)
(***************************************************************************)
NormalSlot == {<<t, call[t].job>> : t \in {u \in Threads : HoldsNormalJob(u)}}
AsyncSlot == {<<t, call[t].asyncJob>> : t \in {u \in Threads : HoldsAsyncJob(u)}}

\* The slots that the threads' places define are the ones the job structure
\* records.
Recorded ==
  /\ NormalSlot = IF job.active = "none" THEN {} ELSE {<<job.owner, job.active>>}
  /\ AsyncSlot = IF job.asyncJob = "none" THEN {} ELSE {<<job.asyncOwner, job.asyncJob>>}

\* The slots of the refinement mapping are what the job structure records.
LEMMA SlotsAreRecorded == JobInv => Recorded
  <1> SUFFICES ASSUME JobInv PROVE Recorded
    OBVIOUS
  <1>1. {u \in Threads : HoldsNormalJob(u)} = IF job.active = "none" THEN {} ELSE {job.owner}
    BY DEF JobInv, NormalJobHasOneOwner
  <1>2. {u \in Threads : HoldsAsyncJob(u)} = IF job.asyncJob = "none" THEN {} ELSE {job.asyncOwner}
    BY DEF JobInv, AsyncJobHasOneOwner
  <1>3. job.active # "none" => call[job.owner].job = job.active
    BY DEF JobInv, NormalJobHasOneOwner
  <1>4. job.asyncJob # "none" => call[job.asyncOwner].asyncJob = job.asyncJob
    BY DEF JobInv, AsyncJobHasOneOwner
  <1> QED
    BY <1>1, <1>2, <1>3, <1>4 DEF Recorded, NormalSlot, AsyncSlot

\* ... in the next state as well.
LEMMA SlotsAreRecordedNext == JobInv' => Recorded'
  BY SlotsAreRecorded, PTL

\* What each step does to the job structure.
LEMMA JobSteps ==
  ASSUME JobInv, NEW t \in Threads, Step(t)
  PROVE  \/ Start(t) \/ EndJob(t) \/ EndAsyncJob(t)
         \/ /\ job' = job
         \/ \E a : job' = SetAsyncJobMask(job, MaskFor(a))
  BY DEF Step, LockDriver, FindMissing, Find, BeginNoClock, Begin, CheckLimit, AsyncLoop,
     CondLoop, Wake, AfterTimeout, RelockDriver, RelockObj, Error, ErrorWithDriver,
     ErrorRelockObj, Failed, LetGo, BackObj, Unlock, RemoveUnlock, Unlist, UnlockDriver

\* Every step of a thread maps to a step of the abstract slots or to a stutter.
LEMMA StepRefines ==
  ASSUME JobInv, JobInv', NEW t \in Threads, Step(t)
  PROVE  [Slots!Next]_(Slots!slots)
  <1>1. /\ NormalSlot = IF job.active = "none" THEN {} ELSE {<<job.owner, job.active>>}
        /\ AsyncSlot = IF job.asyncJob = "none" THEN {} ELSE {<<job.asyncOwner, job.asyncJob>>}
    BY SlotsAreRecorded DEF Recorded
  <1>2. /\ NormalSlot' = IF job'.active = "none" THEN {} ELSE {<<job'.owner, job'.active>>}
        /\ AsyncSlot' = IF job'.asyncJob = "none" THEN {} ELSE {<<job'.asyncOwner, job'.asyncJob>>}
    BY SlotsAreRecordedNext DEF Recorded, NormalSlot, AsyncSlot
  <1>3. /\ job \in JobRecords /\ job' \in JobRecords
    BY DEF JobInv, TypeOK
  <1>4. CASE Start(t)
    <2>1. job.active = "none" /\ NestedJobAllowed(job, call[t].job)
      BY <1>4 DEF JobInv, StartAllowed, Start
    <2>2. CASE call[t].job = "async"
      <3>1. job' = [ResetAsyncJob(ResetJob(job))
                      EXCEPT !.asyncJob = call[t].asyncJob, !.asyncOwner = t]
        BY <1>4, <2>2 DEF Start
      <3>2. /\ job'.active = "none" /\ job'.asyncJob = call[t].asyncJob
            /\ job'.asyncOwner = t /\ job'.mask = DefaultJobMask
        BY <1>3, <3>1, ResetJobFacts, ResetAsyncJobFacts DEF JobRecords
      <3>3. job.asyncJob = "none"
        BY <1>3, <2>1, <2>2 DEF NestedJobAllowed, JobRecords, Jobs
      <3>4. call[t].asyncJob \in AsyncJobs
        BY <2>2, CallTyping DEF JobInv, TypeOK
      <3>5. Slots!StartAsync(t, call[t].asyncJob)
        BY <1>1, <1>2, <2>1, <3>2, <3>3, <3>4
           DEF Slots!StartAsync, NormalSlot, AsyncSlot, AsyncJobs
      <3> QED
        BY <3>4, <3>5 DEF Slots!Next, Slots!StartAsync
    <2>3. CASE call[t].job # "async"
      <3>1. job' = [ResetJob(job) EXCEPT !.active = call[t].job, !.owner = t]
        BY <1>4, <2>3 DEF Start
      <3>2. /\ job'.active = call[t].job /\ job'.owner = t
            /\ job'.asyncJob = job.asyncJob /\ job'.asyncOwner = job.asyncOwner
            /\ job'.mask = job.mask
        BY <1>3, <3>1, ResetJobFacts DEF JobRecords
      <3>3. call[t].job \in Jobs
        BY <1>4, <2>3, CallTyping DEF Start, JobInv, TypeOK, CallShape, QueuedPC, LoopPC
      <3>4. Slots!StartNormal(t, call[t].job)
        BY <1>1, <1>2, <2>1, <3>2, <3>3
           DEF Slots!StartNormal, NestedJobAllowed, NormalSlot, AsyncSlot, Jobs
      <3> QED
        BY <3>3, <3>4 DEF Slots!Next, Slots!StartNormal
    <2> QED
      BY <2>2, <2>3
  <1>5. CASE EndJob(t)
    <2>1. /\ job'.active = "none" /\ job'.asyncJob = job.asyncJob
          /\ job'.asyncOwner = job.asyncOwner /\ job'.mask = job.mask
      BY <1>3, <1>5, ResetJobFacts DEF EndJob
    <2> QED
      BY <1>1, <1>2, <2>1 DEF Slots!Next, Slots!EndNormal, Slots!slots, NormalSlot, AsyncSlot
  <1>6. CASE EndAsyncJob(t)
    <2>1. /\ job'.asyncJob = "none" /\ job'.active = job.active
          /\ job'.owner = job.owner /\ job'.mask = DefaultJobMask
      BY <1>3, <1>6, ResetAsyncJobFacts DEF EndAsyncJob
    <2>2. HoldsAsyncJob(t)
      BY <1>6 DEF EndAsyncJob, JobInv, CallShape, HoldsAsyncJob, HoldPC
    <2>3. AsyncSlot # {}
      BY <2>2 DEF AsyncSlot
    <2> QED
      BY <1>1, <1>2, <2>1, <2>3 DEF Slots!Next, Slots!EndAsync, NormalSlot, AsyncSlot
  <1>7. CASE job' = job
    BY <1>1, <1>2, <1>7 DEF Slots!slots, NormalSlot, AsyncSlot
  <1>8. CASE \E a : job' = SetAsyncJobMask(job, MaskFor(a))
    <2>1. /\ job'.active = job.active /\ job'.owner = job.owner
          /\ job'.asyncJob = job.asyncJob /\ job'.asyncOwner = job.asyncOwner
          /\ job.asyncJob = "none" => job'.mask = job.mask
      BY <1>3, <1>8, SetMaskFacts
    <2>2. job'.mask \subseteq Jobs
      BY <1>3 DEF JobRecords
    <2> QED
      BY <1>1, <1>2, <2>1, <2>2
         DEF Slots!Next, Slots!SetMask, Slots!slots, NormalSlot, AsyncSlot
  <1> QED
    BY <1>4, <1>5, <1>6, <1>7, <1>8, JobSteps

\* The steps outside the job code map to a stutter.
LEMMA QuietRefines ==
  ASSUME JobInv, JobInv', job' = job
  PROVE  [Slots!Next]_(Slots!slots)
  <1>1. /\ NormalSlot = IF job.active = "none" THEN {} ELSE {<<job.owner, job.active>>}
        /\ AsyncSlot = IF job.asyncJob = "none" THEN {} ELSE {<<job.asyncOwner, job.asyncJob>>}
    BY SlotsAreRecorded DEF Recorded
  <1>2. /\ NormalSlot' = IF job'.active = "none" THEN {} ELSE {<<job'.owner, job'.active>>}
        /\ AsyncSlot' = IF job'.asyncJob = "none" THEN {} ELSE {<<job'.asyncOwner, job'.asyncJob>>}
    BY SlotsAreRecordedNext DEF Recorded, NormalSlot, AsyncSlot
  <1> QED
    BY <1>1, <1>2 DEF Slots!slots, NormalSlot, AsyncSlot

\* The job locks implement the abstract job slots of module JobSlots: a normal
\* job starts only on a free normal slot that the asynchronous job's mask lets
\* it have, an asynchronous job only on an idle domain, and a slot is freed by
\* the end of its job alone.
THEOREM JobLocksImplementSlots == Spec => ImplementsSlots
  <1>1. Init => Slots!Init
    <2> SUFFICES ASSUME Init PROVE Slots!Init
      OBVIOUS
    <2>1. \A t \in Threads : ~HoldsNormalJob(t) /\ ~HoldsAsyncJob(t)
      BY DEF Init, HoldsNormalJob, HoldsAsyncJob, HoldPC
    <2> QED
      BY <2>1 DEF Slots!Init, Init
  <1>2. JobInv /\ JobInv' /\ [Next]_vars => [Slots!Next]_(Slots!slots)
    <2> SUFFICES ASSUME JobInv, JobInv', [Next]_vars
                 PROVE  [Slots!Next]_(Slots!slots)
      OBVIOUS
    <2>1. ASSUME NEW t \in Threads, Enter(t) \/ Timeout(t) \/ SpuriousWakeup(t)
          PROVE  job' = job
      BY <2>1 DEF Enter, Timeout, SpuriousWakeup
    <2>2. UNCHANGED vars => job' = job
      BY DEF vars
    <2> QED
      BY <2>1, <2>2, StepRefines, QuietRefines DEF Next, AllDone
  <1> QED
    BY <1>1, <1>2, JobInvariant, PTL DEF Spec, ImplementsSlots, Slots!Spec

(***************************************************************************)
(* The count of queued calls, the count of references, that nobody works on *)
(* a freed object, and that the limit on queued jobs holds.                *)
(***************************************************************************)
\* How the number of threads in a set of places changes when one thread moves.
LEMMA CountMove ==
  ASSUME NEW f \in [Threads -> PCs], NEW t \in Threads, NEW p \in PCs, NEW P,
         NEW g, g = [f EXCEPT ![t] = p]
  PROVE  LET A == {u \in Threads : f[u] \in P}
             B == {u \in Threads : g[u] \in P}
         IN  /\ Cardinality(A) \in Nat
             /\ Cardinality(B) \in Nat
             /\ f[t] \in P => Cardinality(A) > 0
             /\ ((f[t] \in P) <=> (p \in P)) => Cardinality(B) = Cardinality(A)
             /\ f[t] \in P /\ p \notin P => Cardinality(B) = Cardinality(A) - 1
             /\ f[t] \notin P /\ p \in P => Cardinality(B) = Cardinality(A) + 1
  <1> DEFINE A == {u \in Threads : f[u] \in P}
             B == {u \in Threads : g[u] \in P}
  <1>1. IsFiniteSet(A) /\ IsFiniteSet(B)
    BY FS_Subset, ThreadAssumption
  <1>2. Cardinality(A) \in Nat /\ Cardinality(B) \in Nat
    BY <1>1, FS_CardinalityType
  <1>3. f[t] \in P => Cardinality(A) > 0
    BY <1>1, <1>2, FS_EmptySet
  <1>4. ((f[t] \in P) <=> (p \in P)) => A = B
    OBVIOUS
  <1>5. f[t] \in P /\ p \notin P => B = A \ {t} /\ t \in A
    OBVIOUS
  <1>6. f[t] \notin P /\ p \in P => B = A \cup {t} /\ t \notin A
    OBVIOUS
  <1> QED
    BY <1>1, <1>2, <1>3, <1>4, <1>5, <1>6, FS_AddElement, FS_RemoveElement

\* The same of a step that moves thread t to place p, for jobs_queued ...
LEMMA QueuedMove ==
  ASSUME TypeOK, NEW t \in Threads, NEW p \in PCs, Go(t, p)
  PROVE  /\ Cardinality(Queued) \in Nat
         /\ ((pc[t] \in QueuedPC) <=> (p \in QueuedPC)) => Cardinality(Queued') = Cardinality(Queued)
         /\ pc[t] \in QueuedPC /\ p \notin QueuedPC => Cardinality(Queued') = Cardinality(Queued) - 1
         /\ pc[t] \notin QueuedPC /\ p \in QueuedPC => Cardinality(Queued') = Cardinality(Queued) + 1
  <1>1. pc \in [Threads -> PCs] /\ pc' = [pc EXCEPT ![t] = p]
    BY DEF TypeOK, Go
  <1>2. Queued = {u \in Threads : pc[u] \in QueuedPC} /\ Queued' = {u \in Threads : pc'[u] \in QueuedPC}
    BY DEF Queued
  <1> QED
    BY <1>1, <1>2, CountMove

\* ... and for the references.
LEMMA ReferrersMove ==
  ASSUME TypeOK, NEW t \in Threads, NEW p \in PCs, Go(t, p)
  PROVE  /\ Cardinality(Referrers) \in Nat
         /\ pc[t] \in RefPC => Cardinality(Referrers) > 0
         /\ ((pc[t] \in RefPC) <=> (p \in RefPC)) => Cardinality(Referrers') = Cardinality(Referrers)
         /\ pc[t] \in RefPC /\ p \notin RefPC => Cardinality(Referrers') = Cardinality(Referrers) - 1
         /\ pc[t] \notin RefPC /\ p \in RefPC => Cardinality(Referrers') = Cardinality(Referrers) + 1
  <1>1. pc \in [Threads -> PCs] /\ pc' = [pc EXCEPT ![t] = p]
    BY DEF TypeOK, Go
  <1>2. Referrers = {u \in Threads : pc[u] \in RefPC} /\ Referrers' = {u \in Threads : pc'[u] \in RefPC}
    BY DEF Referrers
  <1> QED
    BY <1>1, <1>2, CountMove

\* Every step keeps jobs_queued equal to the calls it counts.
LEMMA StepQueueCount ==
  ASSUME CountInv, NEW t \in Threads, Step(t)
  PROVE  QueueCountExact'
  <1> USE DEF CountInv, JobInv, QueueCountExact, QueuedPC, PCs, LoopPC, WaitPC, HoldPC, ErrorPC, LeavePC
  <1>t. TypeOK /\ jobsQueued \in Int /\ clockFailures \in Nat
    BY DEF TypeOK
  <1>1. CASE LockDriver(t)
    BY <1>1, <1>t, QueuedMove DEF LockDriver
  <1>2. CASE FindMissing(t)
    BY <1>2, <1>t, QueuedMove DEF FindMissing, Return
  <1>3. CASE Find(t)
    BY <1>3, <1>t, QueuedMove DEF Find
  <1>4. CASE BeginNoClock(t)
    BY <1>4, <1>t, QueuedMove DEF BeginNoClock
  <1>5. CASE Begin(t)
    BY <1>5, <1>t, QueuedMove DEF Begin, DropDriverIfKept
  <1>6. CASE CheckLimit(t)
    BY <1>6, <1>t, QueuedMove DEF CheckLimit
  <1>7. CASE AsyncLoop(t)
    BY <1>7, <1>t, QueuedMove DEF AsyncLoop
  <1>8. CASE CondLoop(t)
    BY <1>8, <1>t, QueuedMove DEF CondLoop
  <1>9. CASE Wake(t)
    BY <1>9, <1>t, QueuedMove DEF Wake
  <1>10. CASE AfterTimeout(t)
    BY <1>10, <1>t, QueuedMove DEF AfterTimeout
  <1>11. CASE Start(t)
    BY <1>11, <1>t, QueuedMove DEF Start
  <1>12. CASE RelockDriver(t)
    BY <1>12, <1>t, QueuedMove DEF RelockDriver
  <1>13. CASE RelockObj(t)
    BY <1>13, <1>t, QueuedMove DEF RelockObj
  <1>14. CASE Error(t)
    BY <1>14, <1>t, QueuedMove DEF Error
  <1>15. CASE ErrorWithDriver(t)
    BY <1>15, <1>t, QueuedMove DEF ErrorWithDriver
  <1>16. CASE ErrorRelockObj(t)
    BY <1>16, <1>t, QueuedMove DEF ErrorRelockObj
  <1>17. CASE Failed(t)
    BY <1>17, <1>t, QueuedMove DEF Failed, Return, DropDriverIfKept
  <1>18. CASE LetGo(t)
    BY <1>18, <1>t, QueuedMove DEF LetGo
  <1>19. CASE BackObj(t)
    BY <1>19, <1>t, QueuedMove DEF BackObj
  <1>20. CASE EndJob(t)
    BY <1>20, <1>t, QueuedMove DEF EndJob, AfterUnref
  <1>21. CASE EndAsyncJob(t)
    BY <1>21, <1>t, QueuedMove DEF EndAsyncJob, AfterUnref
  <1>22. CASE Unlock(t)
    BY <1>22, <1>t, QueuedMove DEF Unlock, Return, DropDriverIfKept
  <1>23. CASE RemoveUnlock(t)
    BY <1>23, <1>t, QueuedMove DEF RemoveUnlock
  <1>24. CASE Unlist(t)
    BY <1>24, <1>t, QueuedMove DEF Unlist
  <1>25. CASE UnlockDriver(t)
    BY <1>25, <1>t, QueuedMove DEF UnlockDriver, Return, DropDriverIfKept
  <1> HIDE DEF CountInv, JobInv, QueueCountExact
  <1> QED
    BY <1>1, <1>2, <1>3, <1>4, <1>5, <1>6, <1>7, <1>8, <1>9, <1>10, <1>11, <1>12, <1>13, <1>14, <1>15, <1>16, <1>17, <1>18, <1>19, <1>20, <1>21, <1>22, <1>23, <1>24, <1>25 DEF Step

\* Every step keeps the reference count equal to the references.
LEMMA StepRefCount ==
  ASSUME CountInv, NEW t \in Threads, Step(t)
  PROVE  RefCountExact'
  <1> USE DEF CountInv, JobInv, RefCountExact, RefPC, QueuedPC, LockedIsAlive, PCs, LoopPC, WaitPC, HoldPC, ErrorPC, LeavePC
  <1>t. TypeOK /\ refs \in Int /\ listed \in BOOLEAN
    BY DEF TypeOK
  <1>1. CASE LockDriver(t)
    BY <1>1, <1>t, ReferrersMove DEF LockDriver
  <1>2. CASE FindMissing(t)
    BY <1>2, <1>t, ReferrersMove DEF FindMissing, Return
  <1>3. CASE Find(t)
    BY <1>3, <1>t, ReferrersMove DEF Find
  <1>4. CASE BeginNoClock(t)
    BY <1>4, <1>t, ReferrersMove DEF BeginNoClock
  <1>5. CASE Begin(t)
    BY <1>5, <1>t, ReferrersMove DEF Begin, DropDriverIfKept
  <1>6. CASE CheckLimit(t)
    BY <1>6, <1>t, ReferrersMove DEF CheckLimit
  <1>7. CASE AsyncLoop(t)
    BY <1>7, <1>t, ReferrersMove DEF AsyncLoop
  <1>8. CASE CondLoop(t)
    BY <1>8, <1>t, ReferrersMove DEF CondLoop
  <1>9. CASE Wake(t)
    BY <1>9, <1>t, ReferrersMove DEF Wake
  <1>10. CASE AfterTimeout(t)
    BY <1>10, <1>t, ReferrersMove DEF AfterTimeout
  <1>11. CASE Start(t)
    BY <1>11, <1>t, ReferrersMove DEF Start
  <1>12. CASE RelockDriver(t)
    BY <1>12, <1>t, ReferrersMove DEF RelockDriver
  <1>13. CASE RelockObj(t)
    BY <1>13, <1>t, ReferrersMove DEF RelockObj
  <1>14. CASE Error(t)
    BY <1>14, <1>t, ReferrersMove DEF Error
  <1>15. CASE ErrorWithDriver(t)
    BY <1>15, <1>t, ReferrersMove DEF ErrorWithDriver
  <1>16. CASE ErrorRelockObj(t)
    BY <1>16, <1>t, ReferrersMove DEF ErrorRelockObj
  <1>17. CASE Failed(t)
    BY <1>17, <1>t, ReferrersMove DEF Failed, Return, DropDriverIfKept
  <1>18. CASE LetGo(t)
    BY <1>18, <1>t, ReferrersMove DEF LetGo
  <1>19. CASE BackObj(t)
    BY <1>19, <1>t, ReferrersMove DEF BackObj
  <1>20. CASE EndJob(t)
    BY <1>20, <1>t, ReferrersMove DEF EndJob, AfterUnref
  <1>21. CASE EndAsyncJob(t)
    BY <1>21, <1>t, ReferrersMove DEF EndAsyncJob, AfterUnref
  <1>22. CASE Unlock(t)
    BY <1>22, <1>t, ReferrersMove DEF Unlock, Return, DropDriverIfKept
  <1>23. CASE RemoveUnlock(t)
    BY <1>23, <1>t, ReferrersMove DEF RemoveUnlock
  <1>24. CASE Unlist(t)
    BY <1>24, <1>t, ReferrersMove DEF Unlist
  <1>25. CASE UnlockDriver(t)
    BY <1>25, <1>t, ReferrersMove DEF UnlockDriver, Return, DropDriverIfKept
  <1> HIDE DEF CountInv, JobInv, RefCountExact
  <1> QED
    BY <1>1, <1>2, <1>3, <1>4, <1>5, <1>6, <1>7, <1>8, <1>9, <1>10, <1>11, <1>12, <1>13, <1>14, <1>15, <1>16, <1>17, <1>18, <1>19, <1>20, <1>21, <1>22, <1>23, <1>24, <1>25 DEF Step

\* Every step keeps the object alive for a thread that has it locked without a
\* reference of its own.
LEMMA StepAlive ==
  ASSUME CountInv, NEW t \in Threads, Step(t)
  PROVE  LockedIsAlive'
  <1> DEFINE Away == PCs \ {"begin", "unlock", "remove", "unlist"}
  <1>t. TypeOK /\ refs \in Int /\ listed \in BOOLEAN /\ Cardinality(Referrers) \in Nat
    <2>1. Cardinality(Referrers) \in Nat
      BY FS_Subset, FS_CardinalityType, ThreadAssumption DEF Referrers
    <2> QED
      BY <2>1 DEF CountInv, JobInv, TypeOK
  <1>a. \A u \in Threads : /\ pc[u] \in {"begin", "unlock"} => refs > 0
                           /\ pc[u] \in {"remove", "unlist"} => listed
    BY DEF CountInv, LockedIsAlive
  \* Nobody else stands where LockedIsAlive speaks of refs while t has the
  \* object, or may have it.
  <1>o. objLock \in {NoThread, t} =>
          \A u \in Threads \ {t} : pc[u] \notin {"begin", "unlock"}
    BY ThreadAssumption DEF CountInv, JobInv, LocksHeld, ObjPC
  <1>d. pc[t] = "unlist" => \A u \in Threads \ {t} : pc[u] \notin {"remove", "unlist"}
    BY DEF CountInv, JobInv, LocksHeld, HoldsDriver, DriverPC
  <1>h. pc[t] \in {"holding", "done", "error"} => objLock = t
    BY DEF CountInv, JobInv, LocksHeld, ObjPC
  <1>q. ASSUME refs' >= refs, listed' = listed, NEW p \in Away, Go(t, p)
        PROVE  LockedIsAlive'
    <2>1. \A u \in Threads : pc'[u] = pc[u] \/ pc'[u] \in Away
      BY <1>q, <1>t DEF Go, TypeOK
    <2>2. refs' \in Int
      BY <1>t, StepType DEF TypeOK
    <2> QED
      BY <1>q, <1>t, <1>a, <2>1, <2>2 DEF LockedIsAlive
  <1>1. CASE LockDriver(t) \/ FindMissing(t) \/ BeginNoClock(t) \/ Begin(t)
    BY <1>1, <1>q, <1>t DEF LockDriver, FindMissing, BeginNoClock, Begin, Return,
       PCs, LoopPC, ErrorPC
  <1>2. CASE CheckLimit(t) \/ AsyncLoop(t) \/ CondLoop(t) \/ Wake(t) \/ AfterTimeout(t)
    BY <1>2, <1>q, <1>t DEF CheckLimit, AsyncLoop, CondLoop, Wake, AfterTimeout,
       PCs, LoopPC, WaitPC, ErrorPC
  <1>3. CASE Start(t)
    <2>1. CASE call[t].withDriver
      BY <1>3, <2>1, <1>q, <1>t DEF Start, PCs, HoldPC
    <2>2. CASE ~call[t].withDriver
      BY <1>3, <2>2, <1>q, <1>t DEF Start, PCs, HoldPC
    <2> QED
      BY <2>1, <2>2
  <1>4. CASE RelockDriver(t)
    BY <1>4, <1>q, <1>t DEF RelockDriver, PCs, HoldPC, ErrorPC
  <1>5. CASE RelockObj(t)
    <2>1. refs' = refs /\ listed' = listed /\ Go(t, "holding")
      BY <1>5 DEF RelockObj
    <2> QED
      BY <2>1, <1>q, <1>t DEF PCs, HoldPC
  <1>12. CASE LetGo(t) \/ BackObj(t)
    BY <1>12, <1>q, <1>t DEF LetGo, BackObj, PCs, HoldPC
  <1>6. CASE ErrorWithDriver(t) \/ Failed(t) \/ Unlock(t) \/ UnlockDriver(t)
    BY <1>6, <1>q, <1>t
       DEF ErrorWithDriver, Failed, Unlock, UnlockDriver, Return, PCs, ErrorPC, LeavePC
  <1>7. CASE Find(t)
    <2>1. refs > 0 /\ refs' = refs /\ listed /\ listed' = listed
      BY <1>7, <1>t DEF Find, CountInv, RefCountExact
    <2>2. \A u \in Threads \ {t} : pc'[u] = pc[u]
      BY <1>7, <1>t DEF Find, Go, TypeOK
    <2> QED
      BY <1>a, <2>1, <2>2 DEF LockedIsAlive
  <1>8. CASE EndJob(t) \/ EndAsyncJob(t)
    <2>1. /\ refs' = refs - 1 /\ listed' = listed /\ objLock = t
          /\ \/ refs # 1 /\ pc' = [pc EXCEPT ![t] = IF call[t].removes /\ listed THEN "remove" ELSE "unlock"]
             \/ pc' = [pc EXCEPT ![t] = "unlockDriver"]
      BY <1>8, <1>h DEF EndJob, EndAsyncJob, AfterUnref, Go
    <2>2. refs > 0
      <3>1. pc[t] \in RefPC
        BY <1>8 DEF EndJob, EndAsyncJob, RefPC, QueuedPC, HoldPC
      <3>2. t \in Referrers
        BY <3>1 DEF Referrers
      <3>3. Cardinality(Referrers) > 0
        BY <1>t, <3>2, FS_Subset, FS_EmptySet, ThreadAssumption DEF Referrers
      <3> QED
        BY <1>t, <3>3 DEF CountInv, RefCountExact
    <2>3. \A u \in Threads \ {t} : pc'[u] = pc[u]
      BY <2>1, <1>t DEF TypeOK
    <2>4. pc'[t] \in {"remove", "unlist"} => listed
      BY <2>1, <1>t DEF TypeOK
    <2>5. pc'[t] \in {"begin", "unlock"} => refs' > 0
      BY <2>1, <2>2, <1>t DEF TypeOK
    <2> QED
      BY <1>a, <1>o, <2>1, <2>3, <2>4, <2>5 DEF LockedIsAlive
  <1>9. CASE Error(t) \/ ErrorRelockObj(t)
    <2>1. listed' = listed /\ objLock \in {NoThread, t} /\ pc' = [pc EXCEPT ![t] = "failed"]
      BY <1>9, <1>h DEF Error, ErrorRelockObj, Go
    <2>2. pc'[t] = "failed" /\ \A u \in Threads \ {t} : pc'[u] = pc[u]
      BY <2>1, <1>t DEF TypeOK
    <2> QED
      BY <1>a, <1>o, <2>1, <2>2 DEF LockedIsAlive
  <1>10. CASE RemoveUnlock(t)
    <2>1. /\ pc[t] = "remove" /\ pc'[t] = "unlist" /\ refs' = refs /\ listed' = listed
          /\ \A u \in Threads \ {t} : pc'[u] = pc[u]
      BY <1>10, <1>t DEF RemoveUnlock, Go, TypeOK
    <2> QED
      BY <1>a, <2>1 DEF LockedIsAlive
  <1>11. CASE Unlist(t)
    <2>1. /\ pc[t] = "unlist" /\ pc'[t] = "unlockDriver" /\ objLock = NoThread
          /\ \A u \in Threads \ {t} : pc'[u] = pc[u]
      BY <1>11, <1>t DEF Unlist, Go, TypeOK
    <2> QED
      BY <1>o, <1>d, <2>1 DEF LockedIsAlive
  <1> QED
    BY <1>1, <1>2, <1>3, <1>4, <1>5, <1>6, <1>7, <1>8, <1>9, <1>10, <1>11, <1>12 DEF Step

\* The counting invariant holds of a domain nobody works on.
LEMMA InitCount == Init => CountInv
  <1> SUFFICES ASSUME Init PROVE CountInv
    OBVIOUS
  <1>1. /\ \A t \in Threads : pc[t] = "idle"
        /\ refs = 1 /\ listed = TRUE /\ jobsQueued = 0 /\ clockFailures = 0
    BY DEF Init
  <1>2. Queued = {} /\ Referrers = {}
    BY <1>1 DEF Queued, Referrers, QueuedPC, RefPC, LoopPC, WaitPC, HoldPC
  <1>3. QueueCountExact /\ RefCountExact
    BY <1>1, <1>2, FS_EmptySet DEF QueueCountExact, RefCountExact
  <1>4. LockedIsAlive
    BY <1>1 DEF LockedIsAlive
  <1> QED
    BY <1>3, <1>4, InitInv DEF CountInv

\* A call that arrives, and a sleep that ends, change neither count.
LEMMA QuietCount ==
  ASSUME CountInv, NEW t \in Threads,
         Enter(t) \/ Timeout(t) \/ SpuriousWakeup(t)
  PROVE  CountInv'
  <1>1. JobInv'
    BY QuietInv DEF CountInv
  <1>2. /\ refs' = refs /\ listed' = listed /\ jobsQueued' = jobsQueued
        /\ clockFailures' = clockFailures
        /\ \A u \in Threads \ {t} : pc'[u] = pc[u]
        /\ \/ pc[t] = "idle" /\ pc'[t] = "lockDriver"
           \/ pc[t] \in {"waitCond", "waitAsync"} /\ pc'[t] \in {pc[t], "timedOut"}
    BY DEF Enter, Timeout, SpuriousWakeup, CountInv, JobInv, TypeOK, Go
  <1>3. Queued' = Queued /\ Referrers' = Referrers
    BY <1>2 DEF Queued, Referrers, RefPC, QueuedPC, LoopPC, WaitPC, HoldPC
  <1>4. QueueCountExact' /\ RefCountExact'
    BY <1>2, <1>3 DEF CountInv, QueueCountExact, RefCountExact
  <1>5. LockedIsAlive'
    BY <1>2 DEF CountInv, LockedIsAlive
  <1> QED
    BY <1>1, <1>4, <1>5 DEF CountInv

\* The counting invariant is inductive, with the exclusion invariant.
LEMMA NextCount == CountInv /\ [Next]_vars => CountInv'
  <1> SUFFICES ASSUME CountInv, [Next]_vars PROVE CountInv'
    OBVIOUS
  <1>0. JobInv'
    BY NextInv DEF CountInv
  <1>1. ASSUME NEW t \in Threads, Step(t) PROVE CountInv'
    BY <1>0, <1>1, StepQueueCount, StepRefCount, StepAlive DEF CountInv
  <1>2. CASE UNCHANGED vars
    BY <1>0, <1>2 DEF vars, CountInv, QueueCountExact, RefCountExact, Queued, Referrers, LockedIsAlive
  <1> QED
    BY <1>1, <1>2, QuietCount DEF Next, AllDone

\* CountInv is an invariant: both counts of the object are exact and a thread that
\* relies on another's reference can do so.
THEOREM CountInvariant == Spec => []CountInv
  BY InitCount, NextCount, PTL DEF Spec

\* jobs_queued counts the calls between its increment and its decrement, and
\* one more for each call that found no time of day.
THEOREM QueueCountCorrect == Spec => []QueueCountExact
  <1>1. CountInv => QueueCountExact
    BY DEF CountInv
  <1> QED
    BY <1>1, CountInvariant, PTL

\* The reference count is exact: one for the domain list, one for each call
\* between its virDomainObjRef and its virDomainObjUnref.
THEOREM RefCountCorrect == Spec => []RefCountExact
  <1>1. CountInv => RefCountExact
    BY DEF CountInv
  <1> QED
    BY <1>1, CountInvariant, PTL

\* Nobody works on a freed object: not a call that waits, holds a job, or has
\* the object locked inside the API or to take it off the list.
THEOREM NobodyUsesFreedObject == Spec => []NoUseAfterFree
  <1>1. CountInv => NoUseAfterFree
    <2> SUFFICES ASSUME CountInv, NEW t \in Threads, UsesObject(t) PROVE refs > 0
      BY DEF NoUseAfterFree
    <2>1. refs \in Int /\ Cardinality(Referrers) \in Nat
      BY FS_Subset, FS_CardinalityType, ThreadAssumption DEF Referrers, CountInv, JobInv, TypeOK
    <2>2. CASE pc[t] \in RefPC
      <3>1. t \in Referrers
        BY <2>2 DEF Referrers
      <3>2. Cardinality(Referrers) > 0
        BY <2>1, <3>1, FS_Subset, FS_EmptySet, ThreadAssumption DEF Referrers
      <3> QED
        BY <2>1, <3>2 DEF CountInv, RefCountExact
    <2>3. CASE pc[t] \in {"begin", "unlock"}
      BY <2>3 DEF CountInv, LockedIsAlive
    <2>4. CASE pc[t] \in {"remove", "unlist"}
      BY <2>1, <2>4 DEF CountInv, LockedIsAlive, RefCountExact
    <2> QED
      BY <2>2, <2>3, <2>4 DEF UsesObject, ObjPC, RefPC, QueuedPC, HoldPC, LoopPC
  <1> QED
    BY <1>1, CountInvariant, PTL

(***************************************************************************)
(* The limit on queued jobs.                                               *)
(***************************************************************************)
\* The calls that have passed the test at retry, and have not been sent back.
PassedPC == {"asyncLoop", "condLoop", "start"} \cup WaitPC \cup HoldPC
Passed == {t \in Threads : pc[t] \in PassedPC}

\* The inductive form of the limit.
LimitInv == MaxQueued > 0 => Cardinality(Passed) <= MaxQueued

\* A step to a place that is not beyond the test, or from one that is.
LEMMA PassedMove ==
  ASSUME TypeOK, NEW t \in Threads, NEW p \in PCs, Go(t, p),
         p \in PassedPC => pc[t] \in PassedPC
  PROVE  Passed' \subseteq Passed
  BY DEF TypeOK, Go, Passed

\* A step of a thread lets no call pass the test, or lets one pass while the
\* count of queued calls is within the limit.
LEMMA StepPassed ==
  ASSUME CountInv, NEW t \in Threads, Step(t)
  PROVE  \/ Passed' \subseteq Passed
         \/ Passed' \subseteq Queued /\ (MaxQueued > 0 => jobsQueued <= MaxQueued)
  <1> USE DEF PassedPC, PCs, LoopPC, WaitPC, HoldPC, ErrorPC, LeavePC
  <1>t. TypeOK /\ jobsQueued \in Int
    BY DEF CountInv, JobInv, TypeOK
  <1>1. CASE LockDriver(t) \/ FindMissing(t) \/ Find(t) \/ BeginNoClock(t) \/ Begin(t)
    BY <1>1, <1>t, PassedMove DEF LockDriver, FindMissing, Find, BeginNoClock, Begin, Return
  <1>2. CASE CheckLimit(t)
    <2>1. CASE OverLimit
      BY <1>2, <2>1, <1>t, PassedMove DEF CheckLimit
    <2>2. CASE ~OverLimit
      <3>1. MaxQueued > 0 => jobsQueued <= MaxQueued
        BY <2>2, <1>t, NumberAssumption DEF OverLimit
      <3>2. Passed' \subseteq Queued
        BY <1>2, <1>t DEF CheckLimit, Go, TypeOK, Passed, Queued, QueuedPC
      <3> QED
        BY <3>1, <3>2
    <2> QED
      BY <2>1, <2>2
  <1>3. CASE AsyncLoop(t) \/ CondLoop(t)
    BY <1>3, <1>t, PassedMove DEF AsyncLoop, CondLoop
  <1>4. CASE Wake(t) \/ AfterTimeout(t)
    BY <1>4, <1>t, PassedMove DEF Wake, AfterTimeout
  <1>5. CASE Start(t)
    <2>1. pc[t] = "start" /\ (Go(t, "relockDriver") \/ Go(t, "holding"))
      BY <1>5 DEF Start
    <2> QED
      BY <2>1, <1>t, PassedMove
  <1>6. CASE RelockDriver(t)
    BY <1>6, <1>t, PassedMove DEF RelockDriver
  <1>7. CASE RelockObj(t) \/ LetGo(t) \/ BackObj(t)
    <2>1. pc[t] \in HoldPC /\ \E p \in HoldPC : Go(t, p)
      BY <1>7 DEF RelockObj, LetGo, BackObj
    <2> QED
      BY <2>1, <1>t, PassedMove
  <1>8. CASE Error(t) \/ ErrorWithDriver(t) \/ ErrorRelockObj(t) \/ Failed(t)
    BY <1>8, <1>t, PassedMove DEF Error, ErrorWithDriver, ErrorRelockObj, Failed, Return
  <1>9. CASE EndJob(t) \/ EndAsyncJob(t)
    <2>1. \E p \in LeavePC : Go(t, p)
      BY <1>9 DEF EndJob, EndAsyncJob, AfterUnref
    <2> QED
      BY <2>1, <1>t, PassedMove
  <1>10. CASE Unlock(t) \/ RemoveUnlock(t) \/ Unlist(t) \/ UnlockDriver(t)
    BY <1>10, <1>t, PassedMove DEF Unlock, RemoveUnlock, Unlist, UnlockDriver, Return
  <1> QED
    BY <1>1, <1>2, <1>3, <1>4, <1>5, <1>6, <1>7, <1>8, <1>9, <1>10 DEF Step

\* The limit holds of the calls that passed the test: when one more passes, all
\* of them are counted in jobs_queued, which the test has just looked at.
LEMMA NextLimit == CountInv /\ LimitInv /\ [Next]_vars => LimitInv'
  <1> SUFFICES ASSUME CountInv, LimitInv, [Next]_vars, MaxQueued > 0
               PROVE  Cardinality(Passed') <= MaxQueued
    BY DEF LimitInv
  <1>1. /\ IsFiniteSet(Passed) /\ IsFiniteSet(Queued)
        /\ Cardinality(Passed) \in Nat /\ Cardinality(Queued) \in Nat
    BY FS_Subset, FS_CardinalityType, ThreadAssumption DEF Passed, Queued
  <1>2. MaxQueued \in Nat /\ jobsQueued \in Int /\ clockFailures \in Nat
    BY NumberAssumption DEF CountInv, JobInv, TypeOK
  <1>3. CASE Passed' \subseteq Passed
    <2>1. Cardinality(Passed') \in Nat /\ Cardinality(Passed') <= Cardinality(Passed)
      BY <1>1, <1>3, FS_Subset, FS_CardinalityType
    <2> QED
      BY <1>1, <1>2, <2>1 DEF LimitInv
  <1>4. CASE Passed' \subseteq Queued /\ jobsQueued <= MaxQueued
    <2>1. Cardinality(Passed') \in Nat /\ Cardinality(Passed') <= Cardinality(Queued)
      BY <1>1, <1>4, FS_Subset, FS_CardinalityType
    <2>2. Cardinality(Queued) <= jobsQueued
      BY <1>1, <1>2 DEF CountInv, QueueCountExact
    <2> QED
      BY <1>1, <1>2, <1>4, <2>1, <2>2
  <1>5. ASSUME NEW t \in Threads, Enter(t) \/ Timeout(t) \/ SpuriousWakeup(t)
        PROVE  Passed' \subseteq Passed
    <2>1. \A u \in Threads : pc'[u] = pc[u] \/ (pc[u] = "idle" /\ pc'[u] = "lockDriver")
                                           \/ (pc[u] \in WaitPC /\ pc'[u] = "timedOut")
      BY <1>5 DEF Enter, Timeout, SpuriousWakeup, CountInv, JobInv, TypeOK, Go, WaitPC
    <2> QED
      BY <2>1 DEF Passed, PassedPC, WaitPC, HoldPC
  <1>6. CASE UNCHANGED vars
    BY <1>3, <1>6 DEF vars, Passed
  <1> QED
    BY <1>3, <1>4, <1>5, <1>6, StepPassed DEF Next, AllDone

\* max_queued limits the calls that wait for a job or hold one, through any
\* number of retries: there are never more of them than the limit allows.
THEOREM LimitCorrect == Spec => []LimitHolds
  <1>1. Init => LimitInv
    <2> SUFFICES ASSUME Init, MaxQueued > 0 PROVE Cardinality(Passed) <= MaxQueued
      BY DEF LimitInv
    <2>1. Passed = {}
      BY DEF Init, Passed, PassedPC, WaitPC, HoldPC
    <2> QED
      BY <2>1, FS_EmptySet, NumberAssumption
  <1>2. LimitInv => LimitHolds
    <2> SUFFICES ASSUME LimitInv, MaxQueued > 0
                 PROVE  Cardinality({t \in Threads : pc[t] \in HoldPC \cup WaitPC}) <= MaxQueued
      BY DEF LimitHolds
    <2> DEFINE W == {t \in Threads : pc[t] \in HoldPC \cup WaitPC}
    <2>1. W \subseteq Passed
      BY DEF Passed, PassedPC
    <2>2. IsFiniteSet(Passed) /\ Cardinality(Passed) \in Nat
      BY FS_Subset, FS_CardinalityType, ThreadAssumption DEF Passed
    <2>3. Cardinality(W) \in Nat /\ Cardinality(W) <= Cardinality(Passed)
      BY <2>1, <2>2, FS_Subset, FS_CardinalityType
    <2>4. MaxQueued \in Nat /\ Cardinality(Passed) <= MaxQueued
      BY NumberAssumption DEF LimitInv
    <2> QED
      BY <2>2, <2>3, <2>4
  <1> QED
    BY <1>1, <1>2, NextLimit, CountInvariant, PTL DEF Spec
=============================================================================
