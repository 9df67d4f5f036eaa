------------------------- MODULE PowerSensors_proofs -------------------------
(***************************************************************************)
(* Proofs about PowerSensors: what is near keeps the screen dark, nothing  *)
(* else leaves it dark, and neither of the two wake locks outlives what it *)
(* is held for.  Every critical section of mLocks is a composition of a    *)
(* few operators on the record s; each has a lemma that says what state it *)
(* leaves, and what it does not touch.                                     *)
(***************************************************************************)
EXTENDS PowerSensors, TLAPS

\* The fields of s.
Fields ==
  {"power", "panel", "fading", "reason", "user", "lock", "allowed", "timer", "next", "held",
   "count", "enabled", "active", "pending", "proxTask", "partial", "ignored", "prevent",
   "preventLock", "reenable", "lightOn", "value", "highest", "wanted", "lightTask", "lcd",
   "docked", "missed", "proxEvent", "lightEvent", "poked", "pokey", "delays"}

\* A record with these fields, of which some are looked at.
Record(st) ==
  /\ DOMAIN st = Fields
  /\ {st.power, st.panel, st.fading, st.user, st.active, st.enabled, st.ignored} \subseteq BOOLEAN
  /\ {st.prevent, st.preventLock, st.reenable, st.partial, st.proxTask} \subseteq BOOLEAN

\* A state of the service between two critical sections.  A sensor that is ignored
\* belongs to a screen that was put to sleep and that neither the user nor a lock
\* has asked for since: without that, proximityChangedLocked could find it on.
Almost(st) ==
  /\ Record(st)
  /\ st.active => ~st.power /\ st.enabled
  /\ st.ignored => ~st.user /\ st.lock # "activated"
  /\ st.fading => ~st.power
  /\ st.preventLock = st.prevent
  /\ st.power /\ ~st.panel => st.prevent

Good(st) == Almost(st) /\ (st.ignored => ~st.power)

\* Neither wake lock is taken, and no task they wait for is lost.
Frame(st, new) ==
  /\ new.preventLock = st.preventLock
  /\ new.reenable = st.reenable
  /\ new.partial => st.partial /\ (st.proxTask => new.proxTask)

\* What most critical sections do.
Step(st, new) == Good(new) /\ Frame(st, new) /\ (Unexplained(new) => Unexplained(st))

\* ... when they leave the proximity sensor and the screen's life alone.
Same(st, new) ==
  /\ Frame(st, new)
  /\ new.power = st.power /\ new.reason = st.reason /\ new.ignored = st.ignored
  /\ new.active = st.active /\ new.enabled = st.enabled /\ new.count = st.count

LEMMA SameStep ==
  ASSUME NEW st, NEW new, Good(new), Same(st, new)
  PROVE  Step(st, new)
BY DEF Same, Step, Unexplained

LEMMA FrameOn ==
  ASSUME NEW a, NEW b, NEW c, Frame(a, b), Frame(b, c)
  PROVE  Frame(a, c)
BY DEF Frame

LEMMA StepOn ==
  ASSUME NEW a, NEW b, NEW c, Step(a, b), Step(b, c)
  PROVE  Step(a, c)
BY FrameOn DEF Step

(***************************************************************************)
(* The screen.                                                             *)
(***************************************************************************)
\* setScreenStateLocked touches the panel and the light sensor only.
LEMMA SetScreenStateSame ==
  ASSUME NEW st, Record(st), NEW on \in BOOLEAN
  PROVE  /\ Record(SetScreenState(st, on))
         /\ Same(st, SetScreenState(st, on))
         /\ SetScreenState(st, on).panel = on
         /\ SetScreenState(st, on).fading = st.fading
         /\ SetScreenState(st, on).user = st.user
         /\ SetScreenState(st, on).lock = st.lock
         /\ SetScreenState(st, on).prevent = st.prevent
BY DEF SetScreenState, EnableLight, Record, Fields, Same, Frame

\* setPowerState: a screen with something near stays dark, whatever is asked.  A
\* screen may not be asked for while the sensor is ignored.
LEMMA SetPowerGood ==
  ASSUME NEW st, Almost(st), NEW on \in BOOLEAN, NEW why, on => ~st.ignored
  PROVE  /\ Good(SetPower(st, on, why))
         /\ Frame(st, SetPower(st, on, why))
         /\ SetPower(st, on, why).power <=> on /\ ~st.active
         /\ SetPower(st, on, why).active = st.active
         /\ SetPower(st, on, why).ignored = st.ignored
         /\ SetPower(st, on, why).enabled = st.enabled
         /\ SetPower(st, on, why).count = st.count
         /\ ~SetPower(st, on, why).power =>
              SetPower(st, on, why).reason = IF st.power THEN why ELSE st.reason
<1> DEFINE new == SetPower(st, on, why)
<1> DEFINE up == [st EXCEPT !.power = TRUE, !.fading = FALSE]
<1> DEFINE down == [st EXCEPT !.power = FALSE, !.lightTask = FALSE,
                              !.missed = @ \/ st.lightTask, !.reason = why, !.fading = TRUE]
<1>1. CASE (on /\ ~st.active) = st.power
  BY <1>1 DEF SetPower, Good, Almost, Frame, Record
<1>2. CASE on /\ ~st.active /\ ~st.power
  <2>1. new = SetScreenState(up, ~st.prevent) BY <1>2 DEF SetPower, Almost, Record
  <2>2. /\ Record(up) /\ Frame(st, up) /\ up.power = TRUE /\ up.fading = FALSE
        /\ up.active = st.active /\ up.ignored = st.ignored /\ up.enabled = st.enabled
        /\ up.count = st.count /\ up.reason = st.reason /\ up.prevent = st.prevent
        /\ up.preventLock = st.preventLock
    BY DEF Almost, Record, Fields, Frame
  <2> HIDE DEF up
  <2>3. (~st.prevent) \in BOOLEAN OBVIOUS
  <2>4. /\ Record(new) /\ Same(up, new) /\ new.panel = ~st.prevent /\ new.fading = FALSE
        /\ new.prevent = st.prevent
    BY <2>1, <2>2, <2>3, SetScreenStateSame
  <2> HIDE DEF new
  <2>5. Good(new) BY <1>2, <2>2, <2>4 DEF Good, Almost, Same, Frame, Record
  <2> QED BY <1>2, <2>2, <2>4, <2>5, FrameOn DEF Same, new
<1>3. CASE ~(on /\ ~st.active) /\ st.power
  <2>1. new = down BY <1>3 DEF SetPower, Almost, Record
  <2>2. /\ Record(down) /\ Frame(st, down) /\ down.power = FALSE /\ down.user = st.user
        /\ down.active = st.active /\ down.ignored = st.ignored /\ down.enabled = st.enabled
        /\ down.count = st.count /\ down.reason = why /\ down.lock = st.lock
        /\ down.prevent = st.prevent /\ down.preventLock = st.preventLock
    BY DEF Almost, Record, Fields, Frame
  <2> HIDE DEF down
  <2>3. Good(down) BY <2>2 DEF Good, Almost, Frame
  <2> QED BY <1>3, <2>1, <2>2, <2>3
<1> QED BY <1>1, <1>2, <1>3 DEF Almost, Record

\* ... asked for, when the sensor is not ignored.
LEMMA SetPowerOn ==
  ASSUME NEW st, Good(st), ~st.ignored, NEW why
  PROVE  /\ Good(SetPower(st, TRUE, why))
         /\ Frame(st, SetPower(st, TRUE, why))
         /\ ~Unexplained(SetPower(st, TRUE, why))
         /\ SetPower(st, TRUE, why).enabled = st.enabled
         /\ ~st.active => SetPower(st, TRUE, why).power
<1> DEFINE new == SetPower(st, TRUE, why)
<1>1. Almost(st) /\ TRUE \in BOOLEAN /\ (TRUE => ~st.ignored) BY DEF Good
<1>2. /\ Good(new) /\ Frame(st, new) /\ (new.power <=> ~st.active)
      /\ new.active = st.active /\ new.enabled = st.enabled
  BY <1>1, SetPowerGood
<1> HIDE DEF new
<1> QED BY <1>2 DEF Unexplained, new

\* ... for any reason but the sensor.
LEMMA SetPowerStep ==
  ASSUME NEW st, Good(st), NEW on \in BOOLEAN, NEW why \in {User, TimedOut}, on => ~st.ignored
  PROVE  Step(st, SetPower(st, on, why))
<1> DEFINE new == SetPower(st, on, why)
<1>1. /\ Good(new) /\ Frame(st, new) /\ new.active = st.active /\ new.ignored = st.ignored
      /\ ~new.power => new.reason = IF st.power THEN why ELSE st.reason
  BY SetPowerGood DEF Good
<1>2. why # Prox BY DEF User, TimedOut, Prox
<1> HIDE DEF new
<1>3. Unexplained(new) => Unexplained(st)
  BY <1>1, <1>2 DEF Unexplained
<1> QED BY <1>1, <1>3 DEF Step, new

\* reactivateScreenLocksLocked.
LEMMA ReactivateGood ==
  ASSUME NEW st, Good(st)
  PROVE  /\ Good(Reactivate(st)) /\ Frame(st, Reactivate(st))
         /\ Reactivate(st).ignored = FALSE
         /\ Reactivate(st).active = st.active
         /\ Reactivate(st).enabled = st.enabled
<1> DEFINE new == Reactivate(st)
<1>1. /\ Record(new) /\ Frame(st, new) /\ new.ignored = FALSE
      /\ new.power = st.power /\ new.panel = st.panel /\ new.fading = st.fading
      /\ new.active = st.active /\ new.enabled = st.enabled
      /\ new.prevent = st.prevent /\ new.preventLock = st.preventLock
  BY DEF Reactivate, Good, Almost, Record, Fields, Frame
<1> HIDE DEF new
<1>2. Good(new) BY <1>1 DEF Good, Almost
<1> QED BY <1>1, <1>2 DEF new

\* userActivity lights the screen when it is timely and allowed, or forced, unless
\* something is near; what was dark for the sensor it may leave so with the wait over.
LEMMA UserActivityGood ==
  ASSUME NEW st, Good(st), NEW timely, NEW allowed, NEW force
  PROVE  /\ Good(UserActivity(st, timely, allowed, force))
         /\ Frame(st, UserActivity(st, timely, allowed, force))
         /\ Unexplained(UserActivity(st, timely, allowed, force)) =>
              Unexplained(st) \/ (~(timely /\ allowed) /\ ~force /\ st.active /\ st.count = 0)
         /\ UserActivity(st, timely, allowed, force).enabled = st.enabled
         /\ timely /\ allowed /\ ~st.fading /\ ~st.active => UserActivity(st, timely, allowed, force).power
<1> DEFINE new == UserActivity(st, timely, allowed, force)
<1> DEFINE seen == [st EXCEPT !.active = @ /\ st.count # 0]
<1> DEFINE r == Reactivate(seen)
<1> DEFINE act == [r EXCEPT !.user = TRUE, !.timer = TRUE, !.next = TRUE]
<1>1. /\ Good(seen) /\ Frame(st, seen) /\ seen.count = st.count /\ seen.enabled = st.enabled
      /\ seen.power = st.power /\ seen.reason = st.reason /\ seen.ignored = st.ignored
      /\ seen.active = (st.active /\ st.count # 0)
  BY DEF Good, Almost, Record, Fields, Frame
<1>2. /\ Good(act) /\ Frame(seen, act) /\ act.ignored = FALSE
      /\ act.active = seen.active /\ act.enabled = seen.enabled
  <2> HIDE DEF seen
  <2>1. /\ Good(r) /\ Frame(seen, r) /\ r.ignored = FALSE /\ r.active = seen.active
        /\ r.enabled = seen.enabled
    BY <1>1, ReactivateGood
  <2> HIDE DEF r
  <2>2. /\ Good(act) /\ Frame(r, act) /\ act.ignored = FALSE /\ act.active = r.active
        /\ act.enabled = r.enabled
    BY <2>1 DEF Good, Almost, Record, Fields, Frame
  <2> HIDE DEF act
  <2>3. Frame(seen, act) BY <2>1, <2>2, FrameOn
  <2> QED BY <2>1, <2>2, <2>3
<1>3. new = IF st.fading THEN st
            ELSE IF (timely /\ allowed /\ ~seen.active) \/ force THEN SetPower(act, TRUE, User) ELSE seen
  BY DEF UserActivity
<1> HIDE DEF new, seen, r, act
<1>4. CASE st.fading
  BY <1>3, <1>4 DEF Frame, new
<1>5. CASE ~st.fading /\ ((timely /\ allowed /\ ~seen.active) \/ force)
  <2>1. new = SetPower(act, TRUE, User) BY <1>3, <1>5
  <2>2. /\ Good(new) /\ Frame(act, new) /\ ~Unexplained(new) /\ new.enabled = act.enabled
        /\ ~act.active => new.power
    BY <1>2, <2>1, SetPowerOn
  <2>3. Frame(st, new) BY <1>1, <1>2, <2>2, FrameOn
  <2>4. ~st.active => new.power BY <1>1, <1>2, <2>2
  <2> QED BY <1>1, <1>2, <2>2, <2>3, <2>4 DEF new
<1>6. CASE ~st.fading /\ ~((timely /\ allowed /\ ~seen.active) \/ force)
  <2>1. new = seen BY <1>3, <1>6
  <2>2. Unexplained(new) => Unexplained(st) \/ (~(timely /\ allowed) /\ ~force /\ st.active /\ st.count = 0)
    BY <1>1, <1>6, <2>1 DEF Unexplained
  <2> QED BY <1>1, <1>6, <2>1, <2>2 DEF new
<1> QED BY <1>4, <1>5, <1>6 DEF new

\* forceUserActivityLocked, of a caller that is permitted and unless something is near,
\* lights the screen.
LEMMA ForceUserActivityStep ==
  ASSUME NEW st, Good(st), NEW permitted
  PROVE  /\ Step(st, ForceUserActivity(st, permitted))
         /\ ForceUserActivity(st, permitted).enabled = st.enabled
         /\ permitted /\ ~st.active => ForceUserActivity(st, permitted).power
         /\ ~permitted => /\ ForceUserActivity(st, permitted).held = st.held
                          /\ ForceUserActivity(st, permitted).count = st.count
<1> DEFINE up == [st EXCEPT !.fading = FALSE]
<1> DEFINE new == UserActivity(up, TRUE, TRUE, FALSE)
<1>1. /\ Good(up) /\ Same(st, up) /\ up.fading = FALSE /\ up.held = st.held
  BY DEF Good, Almost, Record, Fields, Same, Frame
<1>2. ForceUserActivity(st, permitted) = IF permitted THEN new ELSE up BY DEF ForceUserActivity
<1> HIDE DEF up
<1>3. /\ Good(new) /\ Frame(up, new)
      /\ Unexplained(new) => Unexplained(up)
      /\ new.enabled = up.enabled
      /\ ~up.active => new.power
  BY <1>1, UserActivityGood
<1> HIDE DEF new
<1>4. Step(up, new) BY <1>3 DEF Step, Unexplained
<1>5. Step(st, up) BY <1>1, SameStep
<1>6. Step(st, new) BY <1>4, <1>5, StepOn
<1> QED BY <1>1, <1>2, <1>3, <1>5, <1>6 DEF Same

\* goToSleepLocked: the screen is dark, and what keeps it so is the reason.
LEMMA GoToSleepGood ==
  ASSUME NEW st, Good(st), NEW why
  PROVE  /\ Good(GoToSleep(st, why))
         /\ Frame(st, GoToSleep(st, why))
         /\ ~GoToSleep(st, why).power
         /\ GoToSleep(st, why).enabled = st.enabled
         /\ why # Prox => ~Unexplained(GoToSleep(st, why))
<1> DEFINE down == [st EXCEPT !.lock = IF @ = "free" THEN "free" ELSE "deactivated",
                              !.ignored = @ \/ ~(why = Prox /\ st.held # {}),
                              !.user = FALSE, !.timer = FALSE, !.next = FALSE]
<1> DEFINE new == SetPower(down, FALSE, why)
<1>1. GoToSleep(st, why) = new BY DEF GoToSleep
<1>2. /\ Almost(down) /\ Frame(st, down) /\ down.enabled = st.enabled
      /\ why # Prox => down.ignored
  BY DEF Good, Almost, Record, Fields, Frame
<1> HIDE DEF down
<1>3. /\ Good(new) /\ Frame(down, new) /\ ~new.power /\ new.enabled = down.enabled
      /\ new.ignored = down.ignored
  BY <1>2, SetPowerGood
<1> HIDE DEF new
<1> QED BY <1>1, <1>2, <1>3, FrameOn DEF Unexplained

(***************************************************************************)
(* The proximity sensor.                                                   *)
(***************************************************************************)
\* disableProximityLockLocked lights a screen that the sensor had turned off, for a
\* caller that is permitted.
LEMMA DisableStep ==
  ASSUME NEW st, Good(st), NEW permitted
  PROVE  /\ Good(Disable(st, permitted)) /\ Frame(st, Disable(st, permitted))
         /\ Unexplained(Disable(st, permitted)) /\ ~Unexplained(st) =>
              /\ ~permitted /\ st.active
              /\ Disable(st, permitted).held = st.held
              /\ Disable(st, permitted).count = st.count
<1> DEFINE new == Disable(st, permitted)
<1> DEFINE off == [st EXCEPT !.enabled = FALSE, !.proxTask = FALSE, !.partial = FALSE, !.active = FALSE]
<1> DEFINE lit == ForceUserActivity(off, permitted)
<1>1. /\ Good(off) /\ Frame(st, off) /\ off.power = st.power /\ off.reason = st.reason
      /\ off.ignored = st.ignored /\ off.active = FALSE /\ off.held = st.held
      /\ off.count = st.count
  BY DEF Good, Almost, Record, Fields, Frame
<1>2. new = IF ~st.enabled THEN st ELSE IF st.active /\ ~st.ignored THEN lit ELSE off
  BY DEF Disable
<1> HIDE DEF off
<1>3. /\ Good(lit) /\ Frame(off, lit) /\ (permitted => lit.power)
      /\ ~permitted => lit.held = off.held /\ lit.count = off.count
  BY <1>1, ForceUserActivityStep DEF Step
<1> HIDE DEF lit
<1>4. Frame(st, lit) BY <1>1, <1>3, FrameOn
<1>5. Frame(st, st) BY DEF Frame
<1> HIDE DEF new
<1>6. Good(new) /\ Frame(st, new) BY <1>1, <1>2, <1>3, <1>4, <1>5
<1>7. CASE st.enabled /\ st.active /\ ~st.ignored
  BY <1>1, <1>2, <1>3, <1>6, <1>7 DEF Unexplained, new
<1>8. CASE ~(st.enabled /\ st.active /\ ~st.ignored)
  BY <1>1, <1>2, <1>6, <1>8 DEF Unexplained, new
<1> QED BY <1>7, <1>8

\* proximityChangedLocked turns the screen off before it says that something is
\* near, and on, or leaves it to who put it to sleep, once nothing is.
LEMMA ProximityChangedStep ==
  ASSUME NEW st, Good(st), NEW isNear
  PROVE  Step(st, ProximityChanged(st, isNear))
<1> DEFINE slept == IF st.ignored THEN st ELSE GoToSleep(st, Prox)
<1> DEFINE down == [slept EXCEPT !.active = TRUE]
<1> DEFINE far == [st EXCEPT !.active = FALSE]
<1> DEFINE lit == ForceUserActivity(far, TRUE)
<1> DEFINE woken == IF st.ignored THEN far ELSE lit
<1> DEFINE free == Disable(woken, TRUE)
<1>1. Step(st, st) BY DEF Step, Frame
<1>2. ProximityChanged(st, isNear) =
        IF ~st.enabled THEN st
        ELSE IF isNear THEN down ELSE IF st.count = 0 THEN free ELSE woken
  BY DEF ProximityChanged
<1>3. st.enabled => Step(st, down)
  <2>1. Good(slept) /\ Frame(st, slept) /\ slept.enabled = st.enabled /\ ~slept.power
    BY GoToSleepGood DEF Good, Frame
  <2> HIDE DEF slept
  <2>2. st.enabled => Good(down)
    BY <2>1 DEF Good, Almost, Record, Fields
  <2>3. Frame(slept, down) /\ down.active
    BY <2>1 DEF Good, Almost, Record, Fields, Frame
  <2> HIDE DEF down
  <2>4. Frame(st, down) BY <2>1, <2>3, FrameOn
  <2> QED BY <2>2, <2>3, <2>4 DEF Step, Unexplained
<1>4. Step(st, woken)
  <2>1. Good(far) /\ Frame(st, far) /\ far.ignored = st.ignored /\ ~far.active
    BY DEF Good, Almost, Record, Fields, Frame
  <2> HIDE DEF far
  <2>2. Good(lit) /\ Frame(far, lit) /\ lit.power
    BY <2>1, ForceUserActivityStep DEF Step
  <2> HIDE DEF lit
  <2>3. Frame(st, lit) BY <2>1, <2>2, FrameOn
  <2> QED BY <2>1, <2>2, <2>3 DEF Step, Unexplained
<1> HIDE DEF woken
<1>5. Step(st, free)
  <2>1. Good(woken) BY <1>4 DEF Step
  <2>2. Step(woken, free) BY <2>1, DisableStep DEF Step
  <2> QED BY <1>4, <2>2, StepOn
<1> HIDE DEF down, free
<1> QED BY <1>1, <1>2, <1>3, <1>4, <1>5

\* The partial lock is held for mProximityTask, and for no other.
Settled(st, new) ==
  /\ Good(new)
  /\ new.preventLock = st.preventLock /\ new.reenable = st.reenable
  /\ new.partial => new.proxTask
  /\ Unexplained(new) => Unexplained(st)

\* mProximityListener.
LEMMA ProximitySensedSettled ==
  ASSUME NEW st, Good(st), NEW isNear, NEW soon
  PROVE  Settled(st, ProximitySensed(st, isNear, soon))
<1> DEFINE new == ProximitySensed(st, isNear, soon)
<1> DEFINE heard == [st EXCEPT !.proxTask = FALSE]
<1> DEFINE word == IF isNear THEN "near" ELSE "far"
<1> DEFINE noted == [heard EXCEPT !.pending = word]
<1> DEFINE later == [noted EXCEPT !.proxTask = TRUE, !.partial = TRUE]
<1> DEFINE none == [heard EXCEPT !.pending = "none"]
<1> DEFINE told == ProximityChanged(none, isNear)
<1> DEFINE now == [told EXCEPT !.partial = FALSE]
<1>1. new = IF soon THEN later ELSE now BY DEF ProximitySensed
<1>2. /\ Good(heard) /\ heard.preventLock = st.preventLock /\ heard.reenable = st.reenable
      /\ Unexplained(heard) => Unexplained(st)
  BY DEF Good, Almost, Record, Fields, Unexplained
<1> HIDE DEF heard, word
<1>3. Settled(st, later)
  <2> DEFINE Like(a, b) ==
        /\ Record(a)
        /\ a.power = b.power /\ a.panel = b.panel /\ a.fading = b.fading /\ a.user = b.user
        /\ a.active = b.active /\ a.lock = b.lock /\ a.enabled = b.enabled /\ a.ignored = b.ignored
        /\ a.prevent = b.prevent /\ a.preventLock = b.preventLock /\ a.reenable = b.reenable
        /\ a.reason = b.reason
  <2>0. Like(noted, heard) BY <1>2 DEF Good, Almost, Record, Fields
  <2> HIDE DEF noted
  <2>1. Like(later, noted) /\ later.proxTask = TRUE BY <2>0 DEF Record, Fields
  <2> HIDE DEF later
  <2>2. Good(later) BY <1>2, <2>0, <2>1 DEF Good, Almost
  <2> QED BY <1>2, <2>0, <2>1, <2>2 DEF Settled, Unexplained
<1>4. Settled(st, now)
  <2>1. /\ Good(none) /\ none.preventLock = heard.preventLock /\ none.reenable = heard.reenable
        /\ Unexplained(none) => Unexplained(heard)
    BY <1>2 DEF Good, Almost, Record, Fields, Unexplained
  <2> HIDE DEF none
  <2>2. Step(none, told) BY <2>1, ProximityChangedStep
  <2>3. /\ Good(told) /\ told.preventLock = none.preventLock /\ told.reenable = none.reenable
        /\ Unexplained(told) => Unexplained(none)
    BY <2>2 DEF Step, Frame
  <2> HIDE DEF told
  <2>4. /\ Good(now) /\ now.preventLock = told.preventLock /\ now.reenable = told.reenable
        /\ Unexplained(now) => Unexplained(told)
        /\ ~now.partial
    BY <2>3 DEF Good, Almost, Record, Fields, Unexplained
  <2> HIDE DEF now
  <2> QED BY <1>2, <2>1, <2>3, <2>4 DEF Settled
<1> HIDE DEF later, now
<1> QED BY <1>1, <1>3, <1>4

\* mProximityTask.
LEMMA ProximityTaskSettled ==
  ASSUME NEW st, Good(st)
  PROVE  Settled(st, ProximityTaskRuns(st))
<1> DEFINE told == IF st.pending = "none" THEN st ELSE ProximityChanged(st, st.pending = "near")
<1> DEFINE new == [told EXCEPT !.pending = "none", !.partial = FALSE]
<1>1. ProximityTaskRuns(st) = new BY DEF ProximityTaskRuns
<1>2. Step(st, told) BY ProximityChangedStep DEF Step, Frame
<1> HIDE DEF told
<1>3. /\ Good(new) /\ new.preventLock = told.preventLock /\ new.reenable = told.reenable
      /\ Unexplained(new) => Unexplained(told)
      /\ ~new.partial
  BY <1>2 DEF Step, Good, Almost, Record, Fields, Unexplained
<1> HIDE DEF new
<1> QED BY <1>1, <1>2, <1>3 DEF Settled, Step, Frame

(***************************************************************************)
(* What the screen and the proximity sensor do not notice.                 *)
(***************************************************************************)
Quiet(st, new) ==
  /\ Record(new)
  /\ new.power = st.power /\ new.panel = st.panel /\ new.fading = st.fading
  /\ new.user = st.user /\ new.lock = st.lock /\ new.reason = st.reason
  /\ new.active = st.active /\ new.enabled = st.enabled /\ new.ignored = st.ignored
  /\ new.prevent = st.prevent /\ new.preventLock = st.preventLock /\ new.reenable = st.reenable
  /\ new.partial = st.partial /\ new.proxTask = st.proxTask

LEMMA QuietStep ==
  ASSUME NEW st, Good(st), NEW new, Quiet(st, new)
  PROVE  Step(st, new)
BY DEF Quiet, Step, Good, Almost, Frame, Unexplained

LEMMA QuietOn ==
  ASSUME NEW a, NEW b, NEW c, Quiet(a, b), Quiet(b, c)
  PROVE  Quiet(a, c)
BY DEF Quiet

\* lightSensorChangedLocked.
LEMMA LightChangedQuiet ==
  ASSUME NEW st, Record(st), NEW v
  PROVE  Quiet(st, LightChanged(st, v))
<1> DEFINE top == IF st.highest < v THEN v ELSE st.highest
<1> DEFINE bright == IF st.docked THEN v ELSE top
<1> HIDE DEF top, bright
<1>1. Quiet(st, [st EXCEPT !.missed = TRUE]) BY DEF Quiet, Record, Fields
<1>2. Quiet(st, [st EXCEPT !.highest = top]) BY DEF Quiet, Record, Fields
<1>3. Quiet(st, [st EXCEPT !.highest = top, !.value = v, !.lcd = bright]) BY DEF Quiet, Record, Fields
<1> QED BY <1>1, <1>2, <1>3 DEF LightChanged, top, bright

LEMMA RecomputeQuiet ==
  ASSUME NEW st, Record(st)
  PROVE  Quiet(st, Recompute(st))
<1> DEFINE forgot == [st EXCEPT !.value = Unknown]
<1>1. Quiet(st, st) BY DEF Quiet
<1>2. Quiet(st, forgot) BY DEF Quiet, Record, Fields
<1> HIDE DEF forgot
<1>3. Quiet(st, LightChanged(forgot, st.value))
  BY <1>2, LightChangedQuiet, QuietOn DEF Quiet
<1> QED BY <1>1, <1>3 DEF Recompute, forgot

\* mLightListener.
LEMMA LightSensedQuiet ==
  ASSUME NEW st, Record(st), NEW v, NEW warm
  PROVE  Quiet(st, LightSensed(st, v, warm))
<1> DEFINE heard == [st EXCEPT !.lightTask = FALSE]
<1>1. Quiet(st, [st EXCEPT !.missed = TRUE]) BY DEF Quiet, Record, Fields
<1>2. Quiet(st, heard) BY DEF Quiet, Record, Fields
<1> HIDE DEF heard
<1>3. Quiet(st, [heard EXCEPT !.wanted = Unknown])
  <2>1. Quiet(heard, [heard EXCEPT !.wanted = Unknown]) BY <1>2 DEF Quiet, Record, Fields
  <2> QED BY <1>2, <2>1, QuietOn
<1>4. Quiet(st, LightChanged(heard, v)) BY <1>2, LightChangedQuiet, QuietOn DEF Quiet
<1>5. Quiet(st, [heard EXCEPT !.wanted = v, !.lightTask = TRUE])
  <2>1. Quiet(heard, [heard EXCEPT !.wanted = v, !.lightTask = TRUE])
    BY <1>2 DEF Quiet, Record, Fields
  <2> QED BY <1>2, <2>1, QuietOn
<1> QED BY <1>1, <1>3, <1>4, <1>5 DEF LightSensed, heard

\* mAutoBrightnessTask.
LEMMA LightTaskQuiet ==
  ASSUME NEW st, Record(st)
  PROVE  Quiet(st, LightTaskRuns(st))
<1> DEFINE taken == [st EXCEPT !.wanted = Unknown]
<1>1. Quiet(st, st) BY DEF Quiet
<1>2. Quiet(st, taken) BY DEF Quiet, Record, Fields
<1> HIDE DEF taken
<1>3. Quiet(st, LightChanged(taken, st.wanted)) BY <1>2, LightChangedQuiet, QuietOn DEF Quiet
<1> QED BY <1>1, <1>3 DEF LightTaskRuns, taken

LEMMA SetPokeLockQuiet ==
  ASSUME NEW st, Record(st), NEW t, NEW p
  PROVE  Quiet(st, SetPokeLock(st, t, p))
<1> DEFINE poked == [st.poked EXCEPT ![t] = p]
<1> DEFINE pokey == Pokey(poked)
<1> DEFINE delays == DelaysFor(pokey)
<1> DEFINE set == [st EXCEPT !.poked = poked, !.pokey = pokey]
<1> DEFINE reset == [set EXCEPT !.delays = delays, !.timer = TRUE]
<1>1. SetPokeLock(st, t, p) = set \/ SetPokeLock(st, t, p) = reset BY DEF SetPokeLock
<1> HIDE DEF poked, pokey, delays
<1>2. Quiet(st, set) BY DEF Quiet, Record, Fields
<1> HIDE DEF set
<1>3. Quiet(set, reset) BY <1>2 DEF Quiet, Record, Fields
<1> HIDE DEF reset
<1> QED BY <1>1, <1>2, <1>3, QuietOn

\* preventScreenOn holds its lock as long as it prevents, with the safeguard posted;
\* when it stops the screen is lit if it is on.
LEMMA PreventGood ==
  ASSUME NEW st, Good(st), NEW on \in BOOLEAN
  PROVE  /\ Good(Prevent(st, on))
         /\ Prevent(st, on).preventLock => Prevent(st, on).reenable
         /\ Prevent(st, on).partial => st.partial /\ (st.proxTask => Prevent(st, on).proxTask)
         /\ Unexplained(Prevent(st, on)) => Unexplained(st)
<1> DEFINE hold == [st EXCEPT !.prevent = TRUE, !.preventLock = TRUE, !.reenable = TRUE]
<1> DEFINE free == [st EXCEPT !.prevent = FALSE, !.preventLock = FALSE, !.reenable = FALSE]
<1> DEFINE lit == SetScreenState(free, TRUE)
<1> DEFINE Alike(a) ==
      /\ Record(a)
      /\ a.power = st.power /\ a.panel = st.panel /\ a.fading = st.fading
      /\ a.user = st.user /\ a.lock = st.lock /\ a.reason = st.reason
      /\ a.active = st.active /\ a.enabled = st.enabled /\ a.ignored = st.ignored
      /\ a.partial = st.partial /\ a.proxTask = st.proxTask
<1> DEFINE Outcome(new) ==
      /\ Good(new)
      /\ new.preventLock => new.reenable
      /\ new.partial => st.partial /\ (st.proxTask => new.proxTask)
      /\ Unexplained(new) => Unexplained(st)
<1>1. Prevent(st, on) = IF on THEN hold ELSE IF ~st.active /\ st.power THEN lit ELSE free
  BY DEF Prevent
<1>2. Outcome(hold)
  <2>1. Alike(hold) BY DEF Good, Almost, Record, Fields
  <2>2. hold.prevent = TRUE /\ hold.preventLock = TRUE /\ hold.reenable = TRUE
    BY DEF Good, Almost, Record, Fields
  <2> HIDE DEF hold
  <2>3. Good(hold) BY <2>1, <2>2 DEF Good, Almost
  <2> QED BY <2>1, <2>2, <2>3 DEF Unexplained
<1>3. Alike(free) BY DEF Good, Almost, Record, Fields
<1>4. free.prevent = FALSE /\ free.preventLock = FALSE BY DEF Good, Almost, Record, Fields
<1> HIDE DEF free
<1>5. ~(~st.active /\ st.power) => Outcome(free)
  <2>1. ~(~st.active /\ st.power) => Good(free) BY <1>3, <1>4 DEF Good, Almost
  <2> QED BY <1>3, <1>4, <2>1 DEF Unexplained
<1>6. ~st.active /\ st.power => Outcome(lit)
  <2>1. /\ Record(lit) /\ Same(free, lit) /\ lit.panel = TRUE /\ lit.fading = free.fading
        /\ lit.user = free.user /\ lit.lock = free.lock /\ lit.prevent = free.prevent
    BY <1>3, SetScreenStateSame
  <2> HIDE DEF lit
  <2>2. ~st.active /\ st.power => Good(lit) BY <1>3, <1>4, <2>1 DEF Good, Almost, Same, Frame
  <2> QED BY <1>3, <1>4, <2>1, <2>2 DEF Unexplained, Same, Frame
<1> HIDE DEF hold, lit, Outcome
<1>7. Outcome(Prevent(st, on)) BY <1>1, <1>2, <1>5, <1>6
<1> QED BY <1>7 DEF Outcome

(***************************************************************************)
(* The system.                                                             *)
(***************************************************************************)
SensorsInv == Good(s) /\ CpuMaySleep

LEMMA SensorsInit == Init => SensorsInv
BY DEF Init, SensorsInv, CpuMaySleep, Good, Almost, Record, Fields, Idle

\* Of most steps it is enough to know that they are a Step of s.
LEMMA StepKeeps ==
  ASSUME SensorsInv, Step(s, s'), doing' = doing \/ doing.task \notin {"mProximityTask"} \cup Reenabling
  PROVE  SensorsInv' /\ (Unexplained(s') => Unexplained(s))
BY DEF SensorsInv, CpuMaySleep, Step, Frame, Reenabling

Safe == SensorsInv' /\ (Unexplained(s') => Unexplained(s))

\* The calls, but the two that may leave the screen dark.
LEMMA CallSafe ==
  ASSUME SensorsInv, Call, ~CallUserActivity, ~CallRelease
  PROVE  Safe
<1> USE DEF Safe, Serve
<1>a. Good(s) /\ Record(s) BY DEF SensorsInv, Good, Almost
<1>1. CASE CallAcquire
  <2>1. PICK l \in Locks :
          s' = LET taken == [s EXCEPT !.held = @ \cup {l}, !.count = @ + 1]
               IN  IF taken.count = 1 THEN Enable(taken) ELSE taken
    BY <1>1 DEF CallAcquire
  <2> DEFINE held == s.held \cup {l}
  <2> DEFINE count == s.count + 1
  <2> DEFINE taken == [s EXCEPT !.held = held, !.count = count]
  <2> HIDE DEF held, count
  <2>2. s' = IF taken.count = 1 THEN Enable(taken) ELSE taken BY <2>1 DEF held, count
  <2>3. Quiet(s, taken) BY <1>a DEF Quiet, Record, Fields
  <2> HIDE DEF taken
  <2>4. Step(s, taken) BY <1>a, <2>3, QuietStep
  <2>5. Step(taken, Enable(taken)) BY <2>4 DEF Enable, Step, Frame, Good, Almost, Record, Fields, Unexplained
  <2>6. Step(s, s') BY <2>2, <2>4, <2>5, StepOn
  <2> QED BY <1>1, <2>6, StepKeeps DEF CallAcquire
<1>2. CASE CallWake
  <2> DEFINE r == Reactivate(s)
  <2> DEFINE woken == [r EXCEPT !.lock = "activated"]
  <2>1. s' = SetPower(woken, TRUE, TimedOut) BY <1>2 DEF CallWake
  <2>2. Good(r) /\ Frame(s, r) /\ r.ignored = FALSE BY <1>a, ReactivateGood
  <2> HIDE DEF r
  <2>3. Good(woken) /\ Frame(r, woken) /\ woken.ignored = FALSE
    BY <2>2 DEF Good, Almost, Record, Fields, Frame
  <2> HIDE DEF woken
  <2>4. Good(s') /\ Frame(woken, s') /\ ~Unexplained(s') BY <2>1, <2>3, SetPowerOn
  <2>5. Step(s, s') BY <2>2, <2>3, <2>4, FrameOn DEF Step
  <2> QED BY <1>2, <2>5, StepKeeps DEF CallWake
<1>3. CASE CallUnlock
  <2> DEFINE free == [s EXCEPT !.lock = "free"]
  <2>1. s' = SetPower(free, s.user, TimedOut) BY <1>3 DEF CallUnlock
  <2>2. Step(s, free) /\ free.ignored = s.ignored
    BY <1>a DEF Step, Good, Almost, Record, Fields, Frame, Unexplained
  <2> HIDE DEF free
  <2>3. s.user \in BOOLEAN /\ (s.user => ~free.ignored) BY <1>a, <2>2 DEF Good, Almost, Record
  <2>4. Step(free, s') BY <2>1, <2>2, <2>3, SetPowerStep DEF Step
  <2>5. Step(s, s') BY <2>2, <2>4, StepOn
  <2> QED BY <1>3, <2>5, StepKeeps DEF CallUnlock
<1>4. CASE CallForceUserActivity
  <2>1. Step(s, s') BY <1>a, <1>4, ForceUserActivityStep DEF CallForceUserActivity
  <2> QED BY <1>4, <2>1, StepKeeps DEF CallForceUserActivity
<1>5. CASE CallEnableUserActivity
  <2>1. PICK enabled \in BOOLEAN :
          s' = [s EXCEPT !.allowed = enabled, !.timer = @ \/ ~enabled, !.next = @ \/ ~enabled]
    BY <1>5 DEF CallEnableUserActivity
  <2> DEFINE timer == s.timer \/ ~enabled
  <2> DEFINE next == s.next \/ ~enabled
  <2>2. s' = [s EXCEPT !.allowed = enabled, !.timer = timer, !.next = next] BY <2>1
  <2> HIDE DEF timer, next
  <2>3. Quiet(s, s') BY <1>a, <2>2 DEF Quiet, Record, Fields
  <2>4. Step(s, s') BY <1>a, <2>3, QuietStep
  <2> QED BY <1>5, <2>4, StepKeeps DEF CallEnableUserActivity
<1>6. CASE CallGoToSleep
  <2>1. User # Prox BY DEF User, Prox
  <2>2. s' = GoToSleep(s, User) \/ s' = s BY <1>6 DEF CallGoToSleep
  <2>3. Step(s, GoToSleep(s, User)) BY <1>a, <2>1, GoToSleepGood DEF Step
  <2>4. Step(s, s) BY <1>a DEF Step, Frame
  <2>5. Step(s, s') BY <2>2, <2>3, <2>4
  <2> QED BY <1>6, <2>5, StepKeeps DEF CallGoToSleep
<1>7. CASE CallPrevent
  <2>1. PICK on \in BOOLEAN : s' = Prevent(s, on) BY <1>7 DEF CallPrevent
  <2>2. /\ Good(s') /\ (s'.preventLock => s'.reenable)
        /\ s'.partial => s.partial /\ (s.proxTask => s'.proxTask)
        /\ Unexplained(s') => Unexplained(s)
    BY <1>a, <2>1, PreventGood
  <2>3. doing' = doing BY <1>7 DEF CallPrevent
  <2> QED BY <2>2, <2>3 DEF SensorsInv, CpuMaySleep
<1>8. CASE CallPoke
  <2>1. PICK t \in Tokens, p \in Pokes \cup {Nobody} : s' = SetPokeLock(s, t, p)
    BY <1>8 DEF CallPoke
  <2>2. Step(s, s') BY <1>a, <2>1, SetPokeLockQuiet, QuietStep
  <2> QED BY <1>8, <2>2, StepKeeps DEF CallPoke
<1>9. CASE CallKeyboard
  <2> DEFINE seen == Recompute(s)
  <2>1. s' = IF s.power THEN UserActivity(seen, TRUE, s.allowed, TRUE) ELSE s
    BY <1>9 DEF CallKeyboard
  <2>2. Step(s, seen) BY <1>a, RecomputeQuiet, QuietStep
  <2> HIDE DEF seen
  <2>3. Step(seen, UserActivity(seen, TRUE, s.allowed, TRUE))
    BY <2>2, UserActivityGood DEF Step
  <2>4. Step(s, s) BY <1>a DEF Step, Frame
  <2>5. Step(s, s') BY <2>1, <2>2, <2>3, <2>4, StepOn
  <2> QED BY <1>9, <2>5, StepKeeps DEF CallKeyboard
<1>10. CASE CallDock
  <2>1. PICK docked \in BOOLEAN :
          LET set == [s EXCEPT !.docked = docked, !.highest = IF docked THEN Unknown ELSE @]
          IN  s' \in {IF s.power THEN Recompute(set) ELSE set, IF s.power THEN Recompute(s) ELSE s}
    BY <1>10 DEF CallDock
  <2> DEFINE highest == IF docked THEN Unknown ELSE s.highest
  <2> DEFINE set == [s EXCEPT !.docked = docked, !.highest = highest]
  <2>2. s' \in {set, Recompute(set), s, Recompute(s)} BY <2>1
  <2> HIDE DEF highest
  <2>3. Quiet(s, set) BY <1>a DEF Quiet, Record, Fields
  <2> HIDE DEF set
  <2>4. Quiet(s, Recompute(set)) BY <2>3, RecomputeQuiet, QuietOn DEF Quiet
  <2>5. Quiet(s, s) /\ Quiet(s, Recompute(s)) BY <1>a, RecomputeQuiet DEF Quiet
  <2>6. Step(s, s') BY <1>a, <2>2, <2>3, <2>4, <2>5, QuietStep
  <2> QED BY <1>10, <2>6, StepKeeps DEF CallDock
<1>11. CASE CallBacklight
  <2>1. Step(s, s')
    BY <1>a, <1>11 DEF CallBacklight, Step, Good, Almost, Record, Fields, Frame, Unexplained
  <2> QED BY <1>11, <2>1, StepKeeps DEF CallBacklight
<1> QED BY <1>1, <1>2, <1>3, <1>4, <1>5, <1>6, <1>7, <1>8, <1>9, <1>10, <1>11 DEF Call

\* releaseWakeLock.
LEMMA ReleaseSafe ==
  ASSUME SensorsInv, CallRelease
  PROVE  SensorsInv' /\ (Unexplained(s') => Unexplained(s) \/ Unheeded)
<1>a. Good(s) /\ Record(s) BY DEF SensorsInv, Good, Almost
<1>1. PICK l \in s.held, wait \in BOOLEAN :
        s' = LET freed == [s EXCEPT !.held = @ \ {l}, !.count = @ - 1]
             IN  IF freed.count # 0 \/ (freed.active /\ wait) THEN freed
                 ELSE Disable(freed, l \in Permitted)
  BY DEF CallRelease
<1> DEFINE held == s.held \ {l}
<1> DEFINE count == s.count - 1
<1> DEFINE freed == [s EXCEPT !.held = held, !.count = count]
<1> DEFINE off == Disable(freed, l \in Permitted)
<1> HIDE DEF count
<1>2. s' = freed \/ (s' = off /\ freed.count = 0) BY <1>1 DEF count
<1>3. Quiet(s, freed) /\ freed.held = held /\ freed.active = s.active
  BY <1>a DEF Quiet, Record, Fields
<1> HIDE DEF freed, held
<1>4. Step(s, freed) BY <1>a, <1>3, QuietStep
<1>5. /\ Good(off) /\ Frame(freed, off)
      /\ Unexplained(off) /\ ~Unexplained(freed) =>
           /\ l \notin Permitted /\ freed.active
           /\ off.held = freed.held /\ off.count = freed.count
  BY <1>4, DisableStep DEF Step
<1> HIDE DEF off
<1>6. Good(s') /\ Frame(s, s') BY <1>2, <1>4, <1>5, FrameOn DEF Step
<1>7. ASSUME Unexplained(s'), ~Unexplained(s)
      PROVE  Unheeded
  <2>1. ~Unexplained(freed) BY <1>4, <1>7 DEF Step
  <2>2. s' = off /\ freed.count = 0 BY <1>2, <1>7, <2>1
  <2>3. l \notin Permitted /\ freed.active /\ s'.held = freed.held /\ s'.count = 0
    BY <1>5, <1>7, <2>1, <2>2
  <2>4. l \in s.held \ s'.held BY <1>3, <2>3 DEF held
  <2> QED BY <1>3, <2>3, <2>4 DEF Unheeded
<1>8. doing' = doing BY DEF CallRelease, Serve
<1> QED BY <1>6, <1>7, <1>8 DEF SensorsInv, CpuMaySleep, Frame

\* What the thread of mHandler takes off its queue it has in hand.
LEMMA TakeSafe ==
  ASSUME SensorsInv,
         \/ TakeProximity \/ TakeLight \/ TakeProximityTask
         \/ TakeLightTask \/ TakeReenable \/ TakeTimeout
  PROVE  Safe
<1> USE DEF Safe, Take
<1>a. Good(s) /\ Record(s) BY DEF SensorsInv, Good, Almost
<1>b. doing = Idle BY DEF TakeProximity, TakeLight, TakeProximityTask, TakeLightTask, TakeReenable, TakeTimeout
<1>c. doing.task \notin {"mProximityTask"} \cup Reenabling BY <1>b DEF Idle, Reenabling
<1>1. CASE TakeProximity \/ TakeLight \/ TakeLightTask \/ TakeTimeout
  <2>1. Quiet(s, s')
    BY <1>a, <1>1 DEF TakeProximity, TakeLight, TakeLightTask, TakeTimeout, Quiet, Record, Fields
  <2> QED BY <1>a, <1>c, <2>1, QuietStep, StepKeeps
<1>2. CASE TakeProximityTask
  <2>1. s' = [s EXCEPT !.proxTask = FALSE] /\ doing' = [task |-> "mProximityTask"]
    BY <1>2 DEF TakeProximityTask
  <2>2. /\ Good(s') /\ s'.preventLock = s.preventLock /\ s'.reenable = s.reenable
        /\ Unexplained(s') => Unexplained(s)
    BY <1>a, <2>1 DEF Good, Almost, Record, Fields, Unexplained
  <2> QED BY <1>c, <2>1, <2>2 DEF SensorsInv, CpuMaySleep
<1>3. CASE TakeReenable
  <2>1. s' = [s EXCEPT !.reenable = FALSE] /\ doing' = [task |-> "mForceReenableScreenTask"]
    BY <1>3 DEF TakeReenable
  <2>2. /\ Good(s') /\ s'.partial = s.partial /\ s'.proxTask = s.proxTask
        /\ Unexplained(s') => Unexplained(s)
    BY <1>a, <2>1 DEF Good, Almost, Record, Fields, Unexplained
  <2> QED BY <1>c, <2>1, <2>2 DEF SensorsInv, CpuMaySleep, Reenabling
<1> QED BY <1>1, <1>2, <1>3

\* What it has in hand, and the end of a fade.
LEMMA RunSafe ==
  ASSUME SensorsInv,
         \/ RunProximity \/ RunLight \/ RunProximityTask \/ RunLightTask
         \/ RunTimeout \/ RunReenable \/ Reenable \/ FadeEnds
  PROVE  Safe
<1> USE DEF Safe, Runs
<1>a. Good(s) /\ Record(s) BY DEF SensorsInv, Good, Almost
<1>1. CASE RunProximity
  <2>1. PICK soon \in BOOLEAN : s' = ProximitySensed(s, doing.near, soon)
    BY <1>1 DEF RunProximity
  <2>2. Settled(s, s') BY <1>a, <2>1, ProximitySensedSettled
  <2>3. doing.task = "near" BY <1>1 DEF RunProximity
  <2> QED BY <2>2, <2>3 DEF Settled, SensorsInv, CpuMaySleep, Reenabling
<1>2. CASE RunProximityTask
  <2>1. s' = ProximityTaskRuns(s) /\ doing.task = "mProximityTask" BY <1>2 DEF RunProximityTask
  <2>2. Settled(s, s') BY <1>a, <2>1, ProximityTaskSettled
  <2> QED BY <2>1, <2>2 DEF Settled, SensorsInv, CpuMaySleep, Reenabling
<1>3. CASE RunLight
  <2>1. (\E warm \in BOOLEAN : s' = LightSensed(s, doing.light, warm)) /\ doing.task = "light"
    BY <1>3 DEF RunLight
  <2>2. Step(s, s') BY <1>a, <2>1, LightSensedQuiet, QuietStep
  <2>3. doing.task \notin {"mProximityTask"} \cup Reenabling BY <2>1 DEF Reenabling
  <2> QED BY <2>2, <2>3, StepKeeps
<1>4. CASE RunLightTask
  <2>1. s' = LightTaskRuns(s) /\ doing.task = "mAutoBrightnessTask" BY <1>4 DEF RunLightTask
  <2>2. Step(s, s') BY <1>a, <2>1, LightTaskQuiet, QuietStep
  <2>3. doing.task \notin {"mProximityTask"} \cup Reenabling BY <2>1 DEF Reenabling
  <2> QED BY <2>2, <2>3, StepKeeps
<1>5. CASE RunTimeout
  <2> DEFINE last == [s EXCEPT !.user = FALSE]
  <2> DEFINE earlier == [s EXCEPT !.timer = TRUE]
  <2>1. /\ \/ s' = s
           \/ s' = SetPower(last, s.lock = "activated", TimedOut)
           \/ earlier.user /\ s' = SetPower(earlier, TRUE, TimedOut)
        /\ doing.task = "mTimeoutTask"
    BY <1>5 DEF RunTimeout
  <2>2. Step(s, last) /\ last.ignored = s.ignored
    BY <1>a DEF Step, Good, Almost, Record, Fields, Frame, Unexplained
  <2>3. Quiet(s, earlier) BY <1>a DEF Quiet, Record, Fields
  <2> HIDE DEF last, earlier
  <2>4. Step(s, SetPower(last, s.lock = "activated", TimedOut))
    <3>1. s.lock = "activated" => ~last.ignored BY <1>a, <2>2 DEF Good, Almost
    <3>2. (s.lock = "activated") \in BOOLEAN OBVIOUS
    <3>3. Step(last, SetPower(last, s.lock = "activated", TimedOut))
      BY <2>2, <3>1, <3>2, SetPowerStep DEF Step
    <3> QED BY <2>2, <3>3, StepOn
  <2>5. earlier.user => Step(s, SetPower(earlier, TRUE, TimedOut))
    <3>1. Step(s, earlier) BY <1>a, <2>3, QuietStep
    <3>2. earlier.user => ~earlier.ignored BY <3>1 DEF Step, Good, Almost
    <3>3. earlier.user => Step(earlier, SetPower(earlier, TRUE, TimedOut))
      BY <3>1, <3>2, SetPowerStep DEF Step
    <3> QED BY <3>1, <3>3, StepOn
  <2>6. Step(s, s') BY <1>a, <2>1, <2>4, <2>5 DEF Step, Frame
  <2>7. doing.task \notin {"mProximityTask"} \cup Reenabling BY <2>1 DEF Reenabling
  <2> QED BY <2>6, <2>7, StepKeeps
<1>6. CASE RunReenable
  <2>1. s' = s /\ doing.task = "mForceReenableScreenTask"
        /\ doing' = IF s.prevent THEN [task |-> "forceReenable"] ELSE Idle
    BY <1>6 DEF RunReenable
  <2>2. s.preventLock = s.prevent BY <1>a DEF Good, Almost
  <2> QED BY <2>1, <2>2 DEF SensorsInv, CpuMaySleep, Reenabling, Good, Almost, Record, Fields, Unexplained
<1>7. CASE Reenable
  <2>1. s' = Prevent(s, FALSE) /\ doing.task = "forceReenable" BY <1>7 DEF Reenable
  <2>2. /\ Good(s') /\ (s'.preventLock => s'.reenable)
        /\ s'.partial => s.partial /\ (s.proxTask => s'.proxTask)
        /\ Unexplained(s') => Unexplained(s)
    BY <1>a, <2>1, PreventGood
  <2> QED BY <2>1, <2>2 DEF SensorsInv, CpuMaySleep
<1>8. CASE FadeEnds
  <2> DEFINE dark == [s EXCEPT !.fading = FALSE]
  <2>1. s' = SetScreenState(dark, FALSE) /\ doing' = doing /\ s.fading BY <1>8 DEF FadeEnds
  <2>2. Record(dark) /\ Step(s, dark) /\ dark.power = s.power
    BY <1>a DEF Step, Good, Almost, Record, Fields, Frame, Unexplained
  <2> HIDE DEF dark
  <2>3. ~dark.power BY <1>a, <2>1, <2>2 DEF Good, Almost
  <2>4. /\ Record(s') /\ Same(dark, s') /\ s'.fading = dark.fading /\ s'.user = dark.user
        /\ s'.lock = dark.lock /\ s'.prevent = dark.prevent
    BY <2>1, <2>2, SetScreenStateSame
  <2>5. Good(s') BY <2>2, <2>3, <2>4 DEF Step, Good, Almost, Same, Frame
  <2>6. Step(s, s') BY <2>2, <2>4, <2>5, SameStep, StepOn
  <2> QED BY <2>1, <2>6, StepKeeps
<1> QED BY <1>1, <1>2, <1>3, <1>4, <1>5, <1>6, <1>7, <1>8

\* Every step keeps the invariant, and leaves the screen dark as DarkIsExplained says.
Dark == Unexplained(s') => Unexplained(s) \/ IdlyHeard \/ Unheeded

LEMMA SensorsNext ==
  ASSUME SensorsInv, [Next]_vars
  PROVE  SensorsInv' /\ Dark
<1>a. Good(s) /\ Record(s) BY DEF SensorsInv, Good, Almost
<1>1. CASE CallUserActivity
  <2>1. /\ \E timely, force \in BOOLEAN : s' = UserActivity(s, timely, s.allowed, force)
        /\ doing' = doing
    BY <1>1 DEF CallUserActivity, Serve
  <2>2. /\ Good(s') /\ Frame(s, s')
        /\ Unexplained(s') => Unexplained(s) \/ (s.active /\ s.count = 0)
    BY <1>a, <2>1, UserActivityGood
  <2>3. SensorsInv' BY <2>1, <2>2 DEF SensorsInv, CpuMaySleep, Frame
  <2> QED BY <1>1, <2>2, <2>3 DEF Dark, IdlyHeard
<1>2. CASE Call /\ ~CallUserActivity
  BY <1>2, CallSafe, ReleaseSafe DEF Safe, Dark
<1>3. CASE NearChanges \/ LightChanges
  <2>1. Quiet(s, s')
    <3> DEFINE told == s.proxEvent \/ s.enabled
    <3> DEFINE seen == s.lightEvent \/ s.lightOn
    <3>1. s' = [s EXCEPT !.proxEvent = told] \/ s' = [s EXCEPT !.lightEvent = seen]
      BY <1>3 DEF NearChanges, LightChanges
    <3> HIDE DEF told, seen
    <3> QED BY <1>a, <3>1 DEF Quiet, Record, Fields
  <2>2. Step(s, s') /\ doing' = doing BY <1>a, <1>3, <2>1, QuietStep DEF NearChanges, LightChanges, Change
  <2> QED BY <2>2, StepKeeps DEF Dark
<1>4. CASE Handle \/ FadeEnds
  BY <1>4, TakeSafe, RunSafe DEF Handle, Safe, Dark
<1>5. CASE UNCHANGED vars
  <2>1. Step(s, s') /\ doing' = doing BY <1>a, <1>5 DEF vars, Step, Frame
  <2> QED BY <2>1, StepKeeps DEF Dark
<1> QED BY <1>1, <1>2, <1>3, <1>4, <1>5 DEF Next, Call

\* The invariant, for any locks and tokens, any lights, any number of calls and changes.
THEOREM SensorsInvariant == Spec => []SensorsInv
<1>1. Init => SensorsInv BY SensorsInit
<1>2. SensorsInv /\ [Next]_vars => SensorsInv' BY SensorsNext
<1> QED BY <1>1, <1>2, PTL DEF Spec

\* While the proximity sensor says that something is near nothing lights the screen:
\* no lock, key, charger or time-out (setPowerState, proximityChangedLocked).
THEOREM NearDark == Spec => []NearIsDark
<1>1. SensorsInv => NearIsDark BY DEF SensorsInv, Good, Almost, NearIsDark
<1> QED BY <1>1, SensorsInvariant, PTL

\* Neither mProximityPartialLock nor mPreventScreenOnPartialLock is held for nothing.
THEOREM CpuSleeps == Spec => []CpuMaySleep
<1>1. SensorsInv => CpuMaySleep BY DEF SensorsInv
<1> QED BY <1>1, SensorsInvariant, PTL

\* A dark panel of a screen that is on is preventScreenOn's, and its safeguard is posted
\* or about to run.
THEOREM PreventEnds == Spec => []ScreenComesBack
<1>1. SensorsInv => ScreenComesBack
  BY DEF SensorsInv, Good, Almost, CpuMaySleep, ScreenComesBack
<1> QED BY <1>1, SensorsInvariant, PTL

\* The sensor's darkness ends with what was near, but for user activity that was not
\* allowed or came late while nobody but the sensor waited, and the release of the last
\* lock by an owner without DEVICE_POWER (userActivity, disableProximityLockLocked).
THEOREM DarkEnds == Spec => DarkIsExplained
<1>1. SensorsInv /\ [Next]_vars => [Dark]_vars BY SensorsNext
<1>2. Spec => [][Dark]_vars BY <1>1, SensorsInvariant, PTL DEF Spec
<1> QED BY <1>2 DEF DarkIsExplained, Dark
=============================================================================
