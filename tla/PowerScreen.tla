----------------------------- MODULE PowerScreen -----------------------------
(***************************************************************************)
(* The screen in Android's PowerManagerService: what wake locks, user      *)
(* activity, time-outs and the power button make of the power state, the   *)
(* fade of the backlight, and the queue of screen notifications that tells *)
(* the window policy (and through it the keyguard) what happened.          *)
(*                                                                         *)
(* Everything guarded by mLocks is one record, and a step is a critical    *)
(* section of mLocks.  Three threads run: callers of the service, the      *)
(* thread of mHandler (time-outs, notifications, broadcast results) and    *)
(* the thread of mScreenOffHandler (the fade).                             *)
(***************************************************************************)
EXTENDS Integers, Sequences

CONSTANTS
  Locks,     \* wake locks of applications
  Flags,     \* the flags each is made with
  MaxCalls   \* bound: calls into the service

ASSUME PowerAssumption ==
  /\ Flags \in [Locks -> [level : {"dim", "bright"}, wakes : BOOLEAN, after : BOOLEAN]]
  /\ MaxCalls \in Nat

VARIABLES
  s,           \* what mLocks guards: a record of States
  handler,     \* what the thread of mHandler is in the middle of
  broadcasts,  \* screen broadcasts sent whose result has not come
  heard,       \* the last notification the policy got
  calls

vars == <<s, handler, broadcasts, heard, calls>>

(***************************************************************************)
(* A power state is its set of bits: SCREEN_ON_BIT and SCREEN_BRIGHT_BIT.  *)
(***************************************************************************)
Level == [off |-> {}, dim |-> {"on"}, bright |-> {"on", "bright"}]
Stages == DOMAIN Level
Powers == SUBSET {"on", "bright"}
\* The brightness updateLightsLocked wants for it.  The override takes the place
\* of the preferred brightness as it is: 0 is BRIGHTNESS_OFF.
LevelName(p, zero) ==
  IF "bright" \in p THEN (IF zero THEN "off" ELSE "bright") ELSE IF "on" \in p THEN "dim" ELSE "off"

\* OFF_BECAUSE_OF_USER and OFF_BECAUSE_OF_TIMEOUT, the first more significant.
User == 1
TimedOut == 2
NoReason == -1
Notifications == [on : BOOLEAN, why : {NoReason, User, TimedOut}]

States ==
  [user : Powers,       \* mUserState
   wake : Powers,       \* mWakeLockState
   power : Powers,      \* mPowerState
   panel : BOOLEAN,     \* Power.setScreenState
   target : Stages \cup {"unset"},  \* mScreenBrightness.targetValue
   animating : BOOLEAN, \* mScreenBrightness.animating
   posted : BOOLEAN,    \* mScreenBrightness is posted to mScreenOffHandler
   animates : BOOLEAN,  \* mAnimateScreenLights
   zero : BOOLEAN,     \* mScreenBrightnessOverride is 0
   zeroed : BOOLEAN,   \* history: it was 0 since the screen was last turned on
   halted : BOOLEAN,   \* history: a backlight call stopped the last fade of a screen turned off
   reason : {User, TimedOut},  \* mScreenOffReason
   owed : BOOLEAN,      \* mStillNeedSleepNotification
   queue : Seq(Notifications),  \* mBroadcastQueue, mBroadcastWhy
   count : Int,         \* mBroadcastWakeLock.mCount
   tasks : Nat,         \* mNotificationTasks posted to mHandler
   held : [Locks -> {"free", "activated", "deactivated"}],  \* mLocks
   timer : BOOLEAN,     \* mTimeoutTask is posted
   next : Stages \cup {"none"}]  \* mTimeoutTask.nextState

(***************************************************************************)
(* The screen notification queue.                                          *)
(***************************************************************************)
\* A bug: three entries are let in before the queue is collapsed.
SendLate(st, on, why) ==
  [st EXCEPT !.owed = @ /\ on, !.count = @ + 1, !.tasks = @ + 1,
             !.queue = IF Len(@) = 3 THEN <<[on |-> on, why |-> why]>>
                       ELSE Append(@, [on |-> on, why |-> why])]

\* A bug: the collapse of a pair releases nothing.
SendKeepsLock(st, on, why) ==
  LET q == Append(st.queue, [on |-> on, why |-> why])
  IN  IF Len(q) = 2 /\ ~on THEN [st EXCEPT !.owed = FALSE, !.queue = <<>>]
      ELSE [st EXCEPT !.owed = @ /\ on, !.tasks = @ + 1,
                      !.count = IF Len(q) = 3 THEN @ - 1 ELSE @ + 1,
                      !.queue = IF Len(q) = 3 THEN <<q[3]>> ELSE q]

\* A bug: the collapse keeps the first of the three.
SendKeepsFirst(st, on, why) ==
  LET q == Append(st.queue, [on |-> on, why |-> why])
  IN  IF Len(q) = 2 /\ ~on THEN [st EXCEPT !.owed = FALSE, !.queue = <<>>, !.count = @ - 1]
      ELSE [st EXCEPT !.owed = @ /\ on, !.tasks = @ + 1,
                      !.count = IF Len(q) = 3 THEN @ - 1 ELSE @ + 1,
                      !.queue = IF Len(q) = 3 THEN <<q[1]>> ELSE q]

\* sendNotificationLocked.  A third entry takes the place of all three; an off
\* in second place takes itself and the first away.
Send(st, on, why) ==
  LET q    == Append(st.queue, [on |-> on, why |-> why])
      sent == [st EXCEPT !.owed = @ /\ on]
      post(r) == [r EXCEPT !.count = @ + 1, !.tasks = @ + 1]
  IN  IF Len(q) = 3
        THEN post([sent EXCEPT !.count = @ - 2,
                     !.queue = <<[on |-> on,
                                  why |-> IF ~on /\ q[1].why > why THEN why ELSE q[1].why]>>])
      ELSE IF Len(q) = 2 /\ ~on
        THEN [sent EXCEPT !.count = @ - 1, !.queue = <<>>]
      ELSE post([sent EXCEPT !.queue = q])

\* screenOffFinishedAnimatingLocked.
ScreenOffFinished(st, why) == Send([st EXCEPT !.panel = FALSE, !.reason = why], FALSE, why)

(***************************************************************************)
(* The power state.                                                        *)
(***************************************************************************)
\* A bug: a fade under way is not given a new target.
SetTargetBusy(st, l) ==
  IF st.target = l \/ st.animating THEN st
  ELSE [st EXCEPT !.target = l, !.animating = TRUE, !.posted = TRUE]

\* setTargetLocked.
SetTarget(st, l) ==
  IF st.target = l THEN st
  ELSE [st EXCEPT !.target = l, !.animating = TRUE, !.posted = TRUE]

TurningOff(st) == st.animating /\ st.target = "off"

TurnOn(st) ==
  LET told == IF st.owed THEN Send(st, FALSE, User) ELSE st
  IN  Send([told EXCEPT !.panel = TRUE, !.power = @ \cup {"on"},
                        !.zeroed = told.zero, !.halted = FALSE], TRUE, NoReason)

TurnOff(st, why) ==
  LET dark == [st EXCEPT !.power = @ \ {"on"}, !.reason = why]
  IN  IF dark.animating THEN dark ELSE ScreenOffFinished(dark, why)

\* setPowerState.
SetPowerState(st, new, why) ==
  LET lit == [SetTarget(st, LevelName(new, st.zero)) EXCEPT
                !.power = (@ \cap {"on"}) \cup (new \cap {"bright"})]
  IN  IF new = st.power THEN st
      ELSE IF "on" \in new \ st.power THEN TurnOn(lit)
      ELSE IF "on" \in st.power \ new THEN TurnOff(lit, why)
      ELSE lit

\* setScreenBrightnessOverride; one positive brightness is as good as another.
SetBrightnessOverride(st, zero) ==
  LET set == [st EXCEPT !.zero = zero, !.zeroed = @ \/ (zero /\ "on" \in st.power)]
  IN  IF "on" \in st.power THEN SetTarget(set, LevelName(st.power, zero)) ELSE set

\* setBacklightBrightness: never 0, and reached at once, whatever fade is under way.
SetBacklight(st) ==
  [st EXCEPT !.target = "unset", !.animating = FALSE,
             !.halted = @ \/ (TurningOff(st) /\ "on" \notin st.power)]

\* The state setPowerState is to set with noChangeLights.
KeepLights(st, new) == (new \ {"bright"}) \cup (st.power \cap {"bright"})

(***************************************************************************)
(* Wake locks, user activity, time-outs.                                   *)
(***************************************************************************)
GatherState(held) == UNION {Level[Flags[l].level] : l \in {k \in Locks : held[k] = "activated"}}

\* reactivateScreenLocksLocked.
Reactivate(st) ==
  LET held == [l \in Locks |-> IF st.held[l] = "free" THEN "free" ELSE "activated"]
  IN  [st EXCEPT !.held = held, !.wake = GatherState(held)]

SetTimeout(st, stage) == [st EXCEPT !.timer = TRUE, !.next = stage]

\* userActivity, once it is allowed and no older than mLastEventTime: ignored
\* while the screen is turning off.
UserActivity(st, noChangeLights, stage) ==
  LET r   == [Reactivate(st) EXCEPT !.user = @ \cup Level["bright"]]
      new == r.user \cup r.wake
  IN  IF TurningOff(st) THEN st
      ELSE SetTimeout(SetPowerState(r, IF noChangeLights THEN KeepLights(r, new) ELSE new, User),
                      stage)

\* forceUserActivityLocked: the fade is cancelled first.
ForceUserActivity(st) ==
  UserActivity([st EXCEPT !.animating = @ /\ ~TurningOff(st)], FALSE, "bright")

GoToSleep(st, why) ==
  LET asleep == [st EXCEPT
                   !.held = [l \in Locks |-> IF @[l] = "free" THEN "free" ELSE "deactivated"],
                   !.wake = Level["off"], !.user = Level["off"], !.owed = TRUE]
  IN  [SetPowerState(asleep, Level["off"], why) EXCEPT !.timer = FALSE, !.next = "none"]

\* acquireWakeLockLocked for a screen lock: without ACQUIRE_CAUSES_WAKEUP it is
\* to turn the screen no more on than it is.
Acquire(st, l) ==
  LET listed == [st EXCEPT !.held[l] = IF @ = "free" THEN "activated" ELSE @]
      taken  == IF Flags[l].wakes THEN Reactivate(listed)
                ELSE [listed EXCEPT !.wake = (st.user \cup @) \cap GatherState(listed.held)]
  IN  SetPowerState(taken, taken.wake \cup taken.user, TimedOut)

\* A bug: the state gathered from the locks is not gathered again.
ReleaseStale(st, l, active) ==
  LET freed == [st EXCEPT !.held[l] = "free"]
      after == IF Flags[l].after /\ active THEN UserActivity(freed, FALSE, "bright") ELSE freed
  IN  SetPowerState(after, after.wake \cup after.user, TimedOut)

\* releaseWakeLockLocked; active is whether user activity is allowed just now.
Release(st, l, active) ==
  LET held == [st.held EXCEPT ![l] = "free"]
      freed == [st EXCEPT !.held = held, !.wake = GatherState(held)]
      after == IF Flags[l].after /\ active THEN UserActivity(freed, FALSE, "bright") ELSE freed
  IN  SetPowerState(after, after.wake \cup after.user, TimedOut)

\* A bug: the time-out does not look at the wake locks.
TimeoutAlone(st, dims) ==
  LET over == [st EXCEPT !.user = Level[st.next]]
      set  == SetPowerState(over, over.user, TimedOut)
  IN  IF st.next = "none" THEN st
      ELSE IF st.next = "off" THEN set
      ELSE SetTimeout(set, IF st.next = "bright" /\ dims THEN "dim" ELSE "off")

\* TimeoutTask.run; dims is whether mDimDelay leaves room for a dim stage.
Timeout(st, dims) ==
  LET over == [st EXCEPT !.user = Level[st.next]]
      set  == SetPowerState(over, over.user \cup over.wake, TimedOut)
  IN  IF st.next = "none" THEN st
      ELSE IF st.next = "off" THEN set
      ELSE SetTimeout(set, IF st.next = "bright" /\ dims THEN "dim" ELSE "off")

\* BrightnessState.run on its last step.
FinishFade(st) ==
  LET still == [st EXCEPT !.animating = FALSE, !.posted = FALSE,
                          !.target = IF st.animates THEN @ ELSE "unset"]
  IN  IF st.target = "off" /\ (st.animating \/ ~st.animates)
        THEN ScreenOffFinished(still, st.reason)
        ELSE still

(***************************************************************************)
(* The system after boot: the screen is on and the policy knows.           *)
(***************************************************************************)
Idle == [doing |-> "idle"]
Looping == [doing |-> "loop"]
InTimeout == [doing |-> "timeout"]
Telling(n) == [doing |-> "tell", entry |-> n]

Init ==
  /\ \E animates \in BOOLEAN :
       s = [user |-> Level["bright"], wake |-> Level["off"], power |-> Level["bright"],
            panel |-> TRUE, target |-> "bright", animating |-> FALSE, posted |-> FALSE,
            animates |-> animates, zero |-> FALSE, zeroed |-> FALSE, halted |-> FALSE,
            reason |-> User, owed |-> FALSE, queue |-> <<>>, count |-> 0, tasks |-> 0,
             held |-> [l \in Locks |-> "free"],
            timer |-> TRUE, next |-> "bright"]
  /\ handler = Idle
  /\ broadcasts = 0
  /\ heard = "on"
  /\ calls = 0

(***************************************************************************)
(* Calls into the service.                                                 *)
(***************************************************************************)
Serve ==
  /\ calls < MaxCalls
  /\ calls' = calls + 1
  /\ UNCHANGED <<handler, broadcasts, heard>>

CallUserActivity ==
  /\ Serve
  /\ \/ \E noChangeLights \in BOOLEAN : s' = UserActivity(s, noChangeLights, "bright")
     \/ \E stage \in Stages : s' = UserActivity(s, FALSE, stage)  \* clearUserActivityTimeout

\* The charger is plugged in or out; the call is the service's own, and permitted.
CallForceUserActivity == Serve /\ s' = ForceUserActivity(s)

CallGoToSleep == Serve /\ \E why \in {User, TimedOut} : s' = GoToSleep(s, why)

CallAcquire == Serve /\ \E l \in Locks : s' = Acquire(s, l)

CallRelease ==
  /\ Serve
  /\ \E l \in Locks, active \in BOOLEAN : s.held[l] # "free" /\ s' = Release(s, l, active)

\* An override that stays what it was changes nothing.
CallSetBrightnessOverride ==
  /\ Serve
  /\ \E zero \in BOOLEAN : ~(zero /\ s.zero) /\ s' = SetBrightnessOverride(s, zero)

CallSetBacklight == Serve /\ s' = SetBacklight(s)

(***************************************************************************)
(* The thread of mHandler.                                                 *)
(***************************************************************************)
\* mTimeoutTask is taken off the message queue; it may have to wait for mLocks,
\* and what it then finds in nextState may be newer than itself.
TimerFires ==
  /\ handler = Idle
  /\ s.timer
  /\ s' = [s EXCEPT !.timer = FALSE]
  /\ handler' = InTimeout
  /\ UNCHANGED <<broadcasts, heard, calls>>

TimeoutRuns ==
  /\ handler = InTimeout
  /\ \E dims \in BOOLEAN : s' = Timeout(s, dims)
  /\ handler' = Idle
  /\ UNCHANGED <<broadcasts, heard, calls>>

\* mNotificationTask: takes the first entry of the queue under mLocks ...
TakeNotification ==
  /\ \/ /\ handler = Idle /\ s.tasks > 0
        /\ s' = [s EXCEPT !.tasks = @ - 1, !.queue = IF @ = <<>> THEN @ ELSE Tail(@)]
     \/ handler = Looping /\ s' = [s EXCEPT !.queue = IF @ = <<>> THEN @ ELSE Tail(@)]
  /\ handler' = IF s.queue = <<>> THEN Idle ELSE Telling(Head(s.queue))
  /\ UNCHANGED <<broadcasts, heard, calls>>

\* ... and tells the policy without it; the broadcast wake lock is released when
\* the broadcast's result comes, or now if the system is not ready for any.
TellPolicy ==
  /\ handler.doing = "tell"
  /\ heard' = IF handler.entry.on THEN "on" ELSE "off"
  /\ \/ broadcasts' = broadcasts + 1 /\ UNCHANGED s
     \/ s' = [s EXCEPT !.count = @ - 1] /\ UNCHANGED broadcasts
  /\ handler' = Looping
  /\ UNCHANGED calls

\* mScreenOnBroadcastDone, mScreenOffBroadcastDone.
BroadcastDone ==
  /\ handler = Idle
  /\ broadcasts > 0
  /\ broadcasts' = broadcasts - 1
  /\ s' = [s EXCEPT !.count = @ - 1]
  /\ UNCHANGED <<handler, heard, calls>>

\* The thread of mScreenOffHandler; the earlier steps of a fade change nothing here.
FadeEnds ==
  /\ s.posted
  /\ s' = FinishFade(s)
  /\ UNCHANGED <<handler, broadcasts, heard, calls>>

Call ==
  \/ CallUserActivity \/ CallForceUserActivity \/ CallGoToSleep
  \/ CallAcquire \/ CallRelease
  \/ CallSetBrightnessOverride \/ CallSetBacklight

Handle == TimerFires \/ TimeoutRuns \/ TakeNotification \/ TellPolicy \/ BroadcastDone

Next == Call \/ Handle \/ FadeEnds

\* The two threads go on; time-outs pass.
Fairness == WF_vars(Handle) /\ WF_vars(FadeEnds)

Spec == Init /\ [][Next]_vars /\ Fairness

(***************************************************************************)
(* Properties.                                                             *)
(***************************************************************************)
\* The types of the variables; between two critical sections mBroadcastQueue
\* has at most two of its three places taken.
TypeOK ==
  /\ s \in States
  /\ Len(s.queue) <= 2
  /\ handler \in {Idle, Looping, InTimeout} \cup {Telling(n) : n \in Notifications}
  /\ broadcasts \in Nat
  /\ heard \in {"on", "off"}
  /\ calls \in 0 .. MaxCalls

\* The broadcast wake lock, which keeps the CPU running until everybody was
\* told, is held once for each notification queued, being told or broadcast,
\* however the queue was collapsed meanwhile; its count is never negative.
BroadcastLockExact ==
  s.count = Len(s.queue) + (IF handler.doing = "tell" THEN 1 ELSE 0) + broadcasts

\* Nothing is under way that could still tell the policy something.
Settled == s.queue = <<>> /\ handler.doing \notin {"tell", "loop"} /\ ~TurningOff(s)

\* A policy that has nothing more to hear knows of a screen that is on and lit:
\* the collapsing of the queue never drops an "on".
OnIsTold == Settled /\ "on" \in s.power /\ s.panel => heard = "on"

\* The panel is dark only when the power state says so, and a screen that is to
\* be off is dark or fading: a fade that ends late never darkens a screen that
\* was turned on again.  Two calls the power state knows nothing of are the only
\* exceptions: an override of 0 fades a bright screen to off, which then stays
\* dark until it is turned on again, and a backlight set during the fade of a
\* screen turned off leaves it lit until it is.
PanelFollowsState ==
  LET lit == "on" \in s.power \/ TurningOff(s)
  IN  (s.panel => lit \/ s.halted) /\ (lit => s.panel \/ s.zeroed)

\* "..screen will stay on during this section..": a time-out does not turn the
\* screen off while a screen lock that sleep has not overridden is held.
LockKeepsScreenOn ==
  [][handler = InTimeout /\ handler' = Idle /\ "on" \in s.power /\ "on" \notin s'.power
       => GatherState(s.held) = {}]_vars

\* Left alone and with no active screen lock, the screen goes off, unless a
\* backlight set during its last fade left it lit: no sequence of locks, wake-ups
\* and sleeps loses the time-out that would do it.
IdleScreenGoesOff ==
  (calls = MaxCalls /\ GatherState(s.held) = {}) ~> (~s.panel \/ s.halted)

\* screenOffFinishedAnimatingLocked says that sendNotificationLocked "can ...
\* handle being called multiple times in the same state", and setPowerState that
\* "the notification that it's going to sleep" is always sent "so the keyguard
\* goes on": when all is settled the policy heard last what the screen is.
PolicyAgrees == Settled /\ ~s.halted /\ ~s.zeroed => (heard = "on" <=> "on" \in s.power)

\* PowerManager's "Normal wake locks don't actually turn on the illumination":
\* neither their release nor their acquisition turns the screen on, unless the
\* flags of the lock say so.
NormalLocksTurnNothingOn ==
  [][\A l \in Locks :
       (s.held[l] = "free") # (s'.held[l] = "free") /\ ~Flags[l].wakes /\ ~Flags[l].after
         /\ "on" \notin s.power
         => "on" \notin s'.power]_vars
=============================================================================
