----------------------------- MODULE PowerSensors -----------------------------
(***************************************************************************)
(* What else turns the screen of PowerManagerService on and off: the       *)
(* proximity sensor during a call, preventScreenOn, and the light sensor   *)
(* that follows the panel; and the poke locks that choose the time-out.    *)
(*                                                                         *)
(* Everything guarded by mLocks is one record, and a step is a critical    *)
(* section of mLocks.  The callbacks of both sensors and the delayed tasks *)
(* run on the thread of mHandler, which has taken one off its queue, where *)
(* it can no longer be removed, before it gets mLocks.                     *)
(***************************************************************************)
EXTENDS Integers, FiniteSets

CONSTANTS
  Locks,      \* PROXIMITY_SCREEN_OFF wake locks
  Permitted,  \* those whose owners have the permission DEVICE_POWER
  Tokens,     \* of poke locks
  MaxLight,   \* the brightest light
  MaxCalls,   \* bound: calls into the service
  MaxChanges  \* bound: changes of what the sensors see

ASSUME SensorsAssumption == Permitted \subseteq Locks /\ {MaxLight, MaxCalls, MaxChanges} \subseteq Nat

VARIABLES
  s,        \* what mLocks guards
  doing,    \* what the thread of mHandler has taken off its queue
  near,     \* something is near the proximity sensor
  ambient,  \* the light there is
  calls, changes

vars == <<s, doing, near, ambient, calls, changes>>

Lights == 0 .. MaxLight
Unknown == -1
Nobody == "none"
Pokes == {"short", "medium"}
User == "user"
TimedOut == "timeout"
Prox == "prox"

States ==
  [power : BOOLEAN,      \* SCREEN_ON_BIT of mPowerState
   panel : BOOLEAN,      \* Power.setScreenState
   fading : BOOLEAN,     \* mScreenBrightness animates to 0
   reason : {User, TimedOut, Prox},  \* mScreenOffReason
   user : BOOLEAN,       \* mUserState
   lock : {"free", "activated", "deactivated"},  \* a lock that wakes the screen
   allowed : BOOLEAN,    \* mUserActivityAllowed
   timer : BOOLEAN,      \* mTimeoutTask is posted
   next : BOOLEAN,       \* mTimeoutTask.nextState is not -1
   held : SUBSET Locks,  \* proximity locks in mLocks
   count : Int,          \* mProximityWakeLockCount
   enabled : BOOLEAN,    \* mProximitySensorEnabled
   active : BOOLEAN,     \* mProximitySensorActive
   pending : {"none", "near", "far"},  \* mProximityPendingValue
   proxTask : BOOLEAN,   \* mProximityTask is posted
   partial : BOOLEAN,    \* mProximityPartialLock is held
   ignored : BOOLEAN,    \* mProxIgnoredBecauseScreenTurnedOff
   prevent : BOOLEAN,    \* mPreventScreenOn
   preventLock : BOOLEAN,\* mPreventScreenOnPartialLock is held
   reenable : BOOLEAN,   \* mForceReenableScreenTask is posted
   lightOn : BOOLEAN,    \* mLightSensorEnabled
   value : Lights \cup {Unknown},    \* mLightSensorValue
   highest : Lights \cup {Unknown},  \* mHighestLightSensorValue
   wanted : Lights \cup {Unknown},   \* mLightSensorPendingValue
   lightTask : BOOLEAN,  \* mAutoBrightnessTask is posted
   lcd : Lights,         \* the light mLightSensorScreenBrightness is for
   docked : BOOLEAN,     \* mIsDocked
   missed : BOOLEAN,     \* a change of light was dropped, and the panel lit since
   proxEvent : BOOLEAN,  \* a sensor has something to tell
   lightEvent : BOOLEAN,
   poked : [Tokens -> Pokes \cup {Nobody}],  \* mPokeLocks
   pokey : SUBSET Pokes, \* mPokey
   delays : Pokes \cup {"long"}]       \* mKeylightDelay, mDimDelay, mScreenOffDelay

(***************************************************************************)
(* The screen.                                                             *)
(***************************************************************************)
\* enableLightSensor: a sensor that is registered tells what it sees.
EnableLight(st, on) ==
  IF st.lightOn = on THEN st
  ELSE [st EXCEPT !.lightOn = on, !.lightEvent = @ \/ on, !.lightTask = @ /\ on]

\* setScreenStateLocked.
SetScreenState(st, on) ==
  LET set == [EnableLight(st, on) EXCEPT !.panel = on, !.missed = @ /\ on]
  IN  IF on THEN set ELSE [set EXCEPT !.value = Unknown, !.highest = Unknown]

\* A bug: the proximity sensor is not looked at.
SetPowerBlind(st, new, why) ==
  IF new = st.power THEN st
  ELSE IF new THEN SetScreenState([st EXCEPT !.power = TRUE, !.fading = FALSE], ~st.prevent)
  ELSE [st EXCEPT !.power = FALSE, !.lightTask = FALSE, !.missed = @ \/ st.lightTask,
                         !.reason = why, !.fading = TRUE]

\* setPowerState: "don't turn on the screen when the proximity sensor lock is
\* held"; off begins with a fade.
SetPower(st, new, why) ==
  LET on == new /\ ~st.active
  IN  IF on = st.power THEN st
      ELSE IF on THEN SetScreenState([st EXCEPT !.power = TRUE, !.fading = FALSE], ~st.prevent)
      ELSE [st EXCEPT !.power = FALSE, !.lightTask = FALSE, !.missed = @ \/ st.lightTask,
                         !.reason = why, !.fading = TRUE]

\* reactivateScreenLocksLocked.
Reactivate(st) ==
  [st EXCEPT !.ignored = FALSE, !.lock = IF @ = "free" THEN "free" ELSE "activated"]

\* userActivity, timely unless it is older than mLastEventTime.  It also ends the
\* wait for the sensor to go negative.
UserActivity(st, timely, allowed, force) ==
  LET seen == [st EXCEPT !.active = @ /\ st.count # 0]
  IN  IF st.fading THEN st
      ELSE IF (timely /\ allowed /\ ~seen.active) \/ force
        THEN SetPower([Reactivate(seen) EXCEPT !.user = TRUE, !.timer = TRUE, !.next = TRUE], TRUE, User)
      ELSE seen

\* forceUserActivityLocked: the fade is cancelled, and then the public userActivity
\* asks whether the caller has DEVICE_POWER.
ForceUserActivity(st, permitted) ==
  LET steady == [st EXCEPT !.fading = FALSE]
  IN  IF permitted THEN UserActivity(steady, TRUE, TRUE, FALSE) ELSE steady

\* goToSleepLocked.
GoToSleep(st, why) ==
  SetPower([st EXCEPT !.lock = IF @ = "free" THEN "free" ELSE "deactivated",
                      !.ignored = @ \/ ~(why = Prox /\ st.held # {}),
                      !.user = FALSE, !.timer = FALSE, !.next = FALSE],
           FALSE, why)

(***************************************************************************)
(* The proximity sensor.                                                   *)
(***************************************************************************)
Enable(st) == IF st.enabled THEN st ELSE [st EXCEPT !.enabled = TRUE, !.proxEvent = TRUE]

\* Bugs: what waits for mProximityTask keeps its wake lock; the screen stays off.
DisableKeepsLock(st, permitted) ==
  LET off == [st EXCEPT !.enabled = FALSE, !.proxTask = FALSE, !.active = FALSE]
  IN  IF ~st.enabled THEN st
      ELSE IF st.active /\ ~st.ignored THEN ForceUserActivity(off, permitted) ELSE off

DisableInTheDark(st, permitted) ==
  IF ~st.enabled THEN st
  ELSE [st EXCEPT !.enabled = FALSE, !.proxTask = FALSE, !.partial = FALSE, !.active = FALSE]

\* disableProximityLockLocked.
Disable(st, permitted) ==
  LET off == [st EXCEPT !.enabled = FALSE, !.proxTask = FALSE, !.partial = FALSE, !.active = FALSE]
  IN  IF ~st.enabled THEN st
      ELSE IF st.active /\ ~st.ignored THEN ForceUserActivity(off, permitted) ELSE off

\* proximityChangedLocked: "disable sensor if we have no listeners left after
\* proximity negative".
ProximityChanged(st, isNear) ==
  LET slept == IF st.ignored THEN st ELSE GoToSleep(st, Prox)
      far   == [st EXCEPT !.active = FALSE]
      woken == IF st.ignored THEN far ELSE ForceUserActivity(far, TRUE)
  IN  IF ~st.enabled THEN st
      ELSE IF isNear THEN [slept EXCEPT !.active = TRUE]
      ELSE IF st.count = 0 THEN Disable(woken, TRUE) ELSE woken

\* mProximityListener: what comes too soon after the last one waits.
ProximitySensed(st, isNear, soon) ==
  LET heard == [st EXCEPT !.proxTask = FALSE]
  IN  IF soon THEN [heard EXCEPT !.pending = IF isNear THEN "near" ELSE "far",
                                 !.proxTask = TRUE, !.partial = TRUE]
      ELSE [ProximityChanged([heard EXCEPT !.pending = "none"], isNear) EXCEPT !.partial = FALSE]

\* mProximityTask.
ProximityTaskRuns(st) ==
  LET told == IF st.pending = "none" THEN st ELSE ProximityChanged(st, st.pending = "near")
  IN  [told EXCEPT !.pending = "none", !.partial = FALSE]

(***************************************************************************)
(* The light sensor.                                                       *)
(***************************************************************************)
\* lightSensorChangedLocked: "do not allow light sensor value to decrease".
LightChanged(st, v) ==
  LET top == IF st.highest < v THEN v ELSE st.highest
  IN  IF ~st.power THEN [st EXCEPT !.missed = TRUE]
      ELSE IF st.value = v THEN [st EXCEPT !.highest = top]
      ELSE [st EXCEPT !.highest = top, !.value = v, !.lcd = IF st.docked THEN v ELSE top]

\* The value is forgotten, and taken again.
Recompute(st) ==
  IF st.value = Unknown THEN st ELSE LightChanged([st EXCEPT !.value = Unknown], st.value)

\* mLightListener: debounced, but when the screen has just been turned on.
LightSensed(st, v, warm) ==
  LET heard == [st EXCEPT !.lightTask = FALSE]
  IN  IF st.fading THEN [st EXCEPT !.missed = TRUE]
      ELSE IF st.value = v THEN [heard EXCEPT !.wanted = Unknown]
      ELSE IF st.value = Unknown \/ warm THEN LightChanged(heard, v)
      ELSE [heard EXCEPT !.wanted = v, !.lightTask = TRUE]

\* mAutoBrightnessTask.
LightTaskRuns(st) ==
  IF st.wanted = Unknown THEN st
  ELSE LightChanged([st EXCEPT !.wanted = Unknown], st.wanted)

(***************************************************************************)
(* preventScreenOn, and poke locks.                                        *)
(***************************************************************************)
\* A bug: the screen is not turned on again.
PreventForgets(st, on) ==
  IF on THEN [st EXCEPT !.prevent = TRUE, !.preventLock = TRUE, !.reenable = TRUE]
  ELSE [st EXCEPT !.prevent = FALSE, !.preventLock = FALSE, !.reenable = FALSE]

Prevent(st, on) ==
  LET free == [st EXCEPT !.prevent = FALSE, !.preventLock = FALSE, !.reenable = FALSE]
  IN  IF on THEN [st EXCEPT !.prevent = TRUE, !.preventLock = TRUE, !.reenable = TRUE]
      ELSE IF ~st.active /\ st.power THEN SetScreenState(free, TRUE)
      ELSE free

\* setScreenOffTimeoutsLocked.
DelaysFor(pokey) ==
  IF "short" \in pokey THEN "short" ELSE IF "medium" \in pokey THEN "medium" ELSE "long"

Pokey(poked) == {poked[t] : t \in Tokens} \ {Nobody}

\* setPokeLock: it looks at this lock's time-out where it means those of all.
SetPokeLock(st, t, p) ==
  LET poked == [st.poked EXCEPT ![t] = p]
      set   == [st EXCEPT !.poked = poked, !.pokey = Pokey(poked)]
  IN  IF st.pokey = {p} \ {Nobody} THEN set
      ELSE [set EXCEPT !.delays = DelaysFor(Pokey(poked)), !.timer = TRUE]

(***************************************************************************)
(* The system after boot.                                                  *)
(***************************************************************************)
Idle == [task |-> "none"]

Init ==
  /\ s = [power |-> TRUE, panel |-> TRUE, fading |-> FALSE, reason |-> User, user |-> TRUE,
          lock |-> "free", allowed |-> TRUE, timer |-> TRUE, next |-> TRUE,
          held |-> {}, count |-> 0, enabled |-> FALSE, active |-> FALSE, pending |-> "none",
          proxTask |-> FALSE, partial |-> FALSE, ignored |-> FALSE,
          prevent |-> FALSE, preventLock |-> FALSE, reenable |-> FALSE,
          lightOn |-> TRUE, value |-> Unknown, highest |-> Unknown, wanted |-> Unknown,
          lightTask |-> FALSE, lcd |-> 0, docked |-> FALSE, missed |-> FALSE,
          proxEvent |-> FALSE, lightEvent |-> TRUE,
          poked |-> [t \in Tokens |-> Nobody], pokey |-> {}, delays |-> "long"]
  /\ doing = Idle
  /\ near = FALSE
  /\ ambient = 0
  /\ calls = 0 /\ changes = 0

(***************************************************************************)
(* Calls into the service.                                                 *)
(***************************************************************************)
Serve ==
  /\ calls < MaxCalls
  /\ calls' = calls + 1
  /\ UNCHANGED <<doing, near, ambient, changes>>

\* A lock may be acquired again: it is counted again, and released once.
CallAcquire ==
  /\ Serve
  /\ \E l \in Locks :
       LET taken == [s EXCEPT !.held = @ \cup {l}, !.count = @ + 1]
       IN  s' = IF taken.count = 1 THEN Enable(taken) ELSE taken

\* With WAIT_FOR_PROXIMITY_NEGATIVE, the sensor stays on while something is near.
\* releaseWakeLock goes on with the identity of its caller, the owner of the lock.
CallRelease ==
  /\ Serve
  /\ \E l \in s.held, wait \in BOOLEAN :
       LET freed == [s EXCEPT !.held = @ \ {l}, !.count = @ - 1]
       IN  s' = IF freed.count # 0 \/ (freed.active /\ wait) THEN freed
                 ELSE Disable(freed, l \in Permitted)

\* A lock with ACQUIRE_CAUSES_WAKEUP.
CallWake ==
  /\ Serve
  /\ s.lock = "free"
  /\ s' = SetPower([Reactivate(s) EXCEPT !.lock = "activated"], TRUE, TimedOut)

CallUnlock ==
  /\ Serve
  /\ s.lock # "free"
  /\ s' = SetPower([s EXCEPT !.lock = "free"], s.user, TimedOut)

CallUserActivity ==
  Serve /\ \E timely, force \in BOOLEAN : s' = UserActivity(s, timely, s.allowed, force)

\* The charger is plugged in, says a broadcast the service itself receives.
CallForceUserActivity == Serve /\ s' = ForceUserActivity(s, TRUE)

\* The keyguard; the countdown begins at the last stage.
CallEnableUserActivity ==
  /\ Serve
  /\ \E enabled \in BOOLEAN : s' = [s EXCEPT !.allowed = enabled,
                                             !.timer = @ \/ ~enabled, !.next = @ \/ ~enabled]

\* It does nothing when it is older than mLastEventTime.
CallGoToSleep == Serve /\ \E timely \in BOOLEAN : s' = IF timely THEN GoToSleep(s, User) ELSE s

CallPrevent == Serve /\ \E on \in BOOLEAN : s' = Prevent(s, on)

CallPoke == Serve /\ \E t \in Tokens, p \in Pokes \cup {Nobody} : s' = SetPokeLock(s, t, p)

\* setKeyboardVisibility: user activity only when the screen is on.
CallKeyboard ==
  /\ Serve
  /\ s' = IF s.power THEN UserActivity(Recompute(s), TRUE, s.allowed, TRUE) ELSE s

\* dockStateChanged; and setScreenBrightnessMode, which changes no dock.
CallDock ==
  /\ Serve
  /\ \E docked \in BOOLEAN :
       LET set == [s EXCEPT !.docked = docked, !.highest = IF docked THEN Unknown ELSE @]
       IN  s' \in {IF s.power THEN Recompute(set) ELSE set, IF s.power THEN Recompute(s) ELSE s}

\* setBacklightBrightness jumps to its target, not to that of a fade.
CallBacklight == Serve /\ s' = [s EXCEPT !.fading = FALSE]

(***************************************************************************)
(* What the sensors see.                                                   *)
(***************************************************************************)
Change ==
  /\ changes < MaxChanges
  /\ changes' = changes + 1
  /\ UNCHANGED <<doing, calls>>

NearChanges ==
  /\ Change
  /\ near' = ~near
  /\ s' = [s EXCEPT !.proxEvent = @ \/ s.enabled]
  /\ UNCHANGED ambient

LightChanges ==
  /\ Change
  /\ ambient' \in Lights \ {ambient}
  /\ s' = [s EXCEPT !.lightEvent = @ \/ s.lightOn]
  /\ UNCHANGED near

(***************************************************************************)
(* The thread of mHandler, and the fade.                                   *)
(***************************************************************************)
Take(task, st) ==
  /\ doing = Idle
  /\ s' = st
  /\ doing' = task
  /\ UNCHANGED <<near, ambient, calls, changes>>

TakeProximity ==
  s.proxEvent /\ Take([task |-> "near", near |-> near], [s EXCEPT !.proxEvent = FALSE])
TakeLight ==
  s.lightEvent /\ Take([task |-> "light", light |-> ambient], [s EXCEPT !.lightEvent = FALSE])
TakeProximityTask == s.proxTask /\ Take([task |-> "mProximityTask"], [s EXCEPT !.proxTask = FALSE])
TakeLightTask == s.lightTask /\ Take([task |-> "mAutoBrightnessTask"], [s EXCEPT !.lightTask = FALSE])
TakeReenable == s.reenable /\ Take([task |-> "mForceReenableScreenTask"], [s EXCEPT !.reenable = FALSE])
TakeTimeout == s.timer /\ Take([task |-> "mTimeoutTask"], [s EXCEPT !.timer = FALSE])

Runs(task, results) ==
  /\ doing.task = task
  /\ s' \in results
  /\ doing' = Idle
  /\ UNCHANGED <<near, ambient, calls, changes>>

RunProximity == Runs("near", {ProximitySensed(s, doing.near, soon) : soon \in BOOLEAN})
RunLight == Runs("light", {LightSensed(s, doing.light, warm) : warm \in BOOLEAN})
RunProximityTask == Runs("mProximityTask", {ProximityTaskRuns(s)})
RunLightTask == Runs("mAutoBrightnessTask", {LightTaskRuns(s)})

\* forceReenableScreen looks at mPreventScreenOn without mLocks.
RunReenable ==
  /\ doing.task = "mForceReenableScreenTask"
  /\ doing' = IF s.prevent THEN [task |-> "forceReenable"] ELSE Idle
  /\ UNCHANGED <<s, near, ambient, calls, changes>>

Reenable == Runs("forceReenable", {Prevent(s, FALSE)})

\* TimeoutTask.run, on its last stage and on an earlier one.
RunTimeout ==
  LET last    == [s EXCEPT !.user = FALSE]
      earlier == [s EXCEPT !.timer = TRUE]
  IN  Runs("mTimeoutTask",
           IF ~s.next THEN {s}
           ELSE {SetPower(last, s.lock = "activated", TimedOut)}
                \cup {SetPower(st, TRUE, TimedOut) : st \in {e \in {earlier} : e.user}})

FadeEnds ==
  /\ s.fading
  /\ s' = SetScreenState([s EXCEPT !.fading = FALSE], FALSE)
  /\ UNCHANGED <<doing, near, ambient, calls, changes>>

Call ==
  \/ CallAcquire \/ CallRelease \/ CallWake \/ CallUnlock \/ CallUserActivity \/ CallForceUserActivity
  \/ CallEnableUserActivity \/ CallGoToSleep \/ CallPrevent \/ CallPoke
  \/ CallKeyboard \/ CallDock \/ CallBacklight

Handle ==
  \/ TakeProximity \/ TakeLight \/ TakeProximityTask \/ TakeLightTask \/ TakeReenable \/ TakeTimeout
  \/ RunProximity \/ RunLight \/ RunProximityTask \/ RunLightTask \/ RunTimeout
  \/ RunReenable \/ Reenable

Next == Call \/ NearChanges \/ LightChanges \/ Handle \/ FadeEnds

Spec == Init /\ [][Next]_vars

(***************************************************************************)
(* Properties.                                                             *)
(***************************************************************************)
\* While the sensor says that something is near, the screen is off or fading,
\* whatever wakes it: a wake lock, the user, a forced activity.
NearIsDark == s.active => ~s.power

\* A screen that the sensor turned off, that nobody has put to sleep since, and
\* nothing near.
Unexplained(st) == ~st.power /\ st.reason = Prox /\ ~st.ignored /\ ~st.active

\* userActivity clears mProximitySensorActive, while the service waits for the sensor
\* with no lock left, before it looks at mUserActivityAllowed and mLastEventTime: what
\* is not allowed, or comes late, lights nothing.
IdlyHeard == CallUserActivity /\ s.active /\ s.count = 0

\* ... and so does the release of the last lock, by an owner without DEVICE_POWER.
Unheeded == CallRelease /\ s.active /\ s'.count = 0 /\ ~(s.held \ s'.held \subseteq Permitted)

\* No order of events and calls leaves the screen dark that way, but those two.
DarkIsExplained ==
  [][Unexplained(s') => Unexplained(s) \/ IdlyHeard \/ Unheeded]_vars

Reenabling == {"mForceReenableScreenTask", "forceReenable"}

\* The CPU is kept awake only for something that is going to run.
CpuMaySleep ==
  /\ s.partial => s.proxTask \/ doing.task = "mProximityTask"
  /\ s.preventLock => s.reenable \/ doing.task \in Reenabling

\* preventScreenOn keeps the screen from being lit, and is always about to be
\* undone: "this prevents a buggy app from disabling the screen forever".
ScreenComesBack ==
  s.power /\ ~s.panel => s.prevent /\ (s.reenable \/ doing.task \in Reenabling)

===============================================================================
