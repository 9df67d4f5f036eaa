------------------------- MODULE PowerScreen_proofs -------------------------
(***************************************************************************)
(* Proofs about PowerScreen: its types, the balance of the broadcast wake  *)
(* lock, the panel that follows the power state, the screen that is on and *)
(* told, and the lock that keeps it on.  Whatever the service does under   *)
(* mLocks, from a call, from a time-out or from the fade, is followed      *)
(* operator by operator, once for each of these.                           *)
(***************************************************************************)
EXTENDS PowerScreen, SequenceTheorems, TLAPS

\* A state of the service between two critical sections.
Good(st) == st \in States /\ Len(st.queue) <= 2

\* What the broadcast wake lock is held for besides the queue.
Beyond(st) == st.count - Len(st.queue)

\* What a critical section of the service does to the two.
Keeps(st, new) == Good(new) /\ Beyond(new) = Beyond(st)

\* ... when it does not touch the queue at all.
Same(st, new) == new \in States /\ new.queue = st.queue /\ new.count = st.count

OffReasons == {User, TimedOut}
Whys == {NoReason} \cup OffReasons

LEMMA SameKeeps ==
  ASSUME NEW st, Good(st), NEW new, Same(st, new)
  PROVE  Keeps(st, new)
BY DEF Good, Same, Keeps, Beyond

LEMMA KeepsOn ==
  ASSUME NEW a, NEW b, NEW c, Keeps(a, b), Keeps(b, c)
  PROVE  Keeps(a, c)
BY DEF Keeps

(***************************************************************************)
(* The queue.  A critical section changes the count of the broadcast wake  *)
(* lock exactly as it changes the queue's length; only the notification    *)
(* task and the broadcast results change the two apart, one by one.        *)
(***************************************************************************)
\* sendNotificationLocked leaves at most two entries, and its acquire and its
\* releases are the change of the queue's length.
LEMMA SendKeeps ==
  ASSUME NEW st, Good(st), NEW on \in BOOLEAN, NEW why \in Whys
  PROVE  Keeps(st, Send(st, on, why))
<1> DEFINE q == Append(st.queue, [on |-> on, why |-> why])
<1> DEFINE sent == [st EXCEPT !.owed = @ /\ on]
<1> DEFINE post(r) == [r EXCEPT !.count = @ + 1, !.tasks = @ + 1]
<1>1. /\ st.queue \in Seq(Notifications) /\ Len(st.queue) \in Nat /\ Len(st.queue) <= 2
      /\ st.count \in Int
  <2>1. st \in States BY DEF Good
  <2>2. st.queue \in Seq(Notifications) /\ st.count \in Int BY <2>1 DEF States
  <2>3. Len(st.queue) \in Nat BY <2>2
  <2> QED BY <2>2, <2>3 DEF Good
<1>2. /\ q \in Seq(Notifications) /\ Len(q) = Len(st.queue) + 1
  <2>1. [on |-> on, why |-> why] \in Notifications BY DEF Notifications, Whys, OffReasons
  <2> QED BY <1>1, <2>1
<1>3. sent \in States /\ sent.queue = st.queue /\ sent.count = st.count BY DEF Good, States
<1>4. ASSUME NEW r \in States
      PROVE  post(r) \in States /\ post(r).count = r.count + 1 /\ post(r).queue = r.queue
  <2>1. r.count + 1 \in Int /\ r.tasks + 1 \in Nat BY DEF States
  <2> QED BY <2>1 DEF States
<1> HIDE DEF sent, post
<1>5. CASE Len(q) = 3
  <2> DEFINE first == [on |-> on, why |-> IF ~on /\ q[1].why > why THEN why ELSE q[1].why]
  <2> DEFINE c == sent.count - 2
  <2> DEFINE one == <<first>>
  <2> DEFINE r == [sent EXCEPT !.count = c, !.queue = one]
  <2>1. q[1] \in Notifications BY <1>2, <1>5
  <2>2. first \in Notifications BY <2>1 DEF Notifications, Whys, OffReasons
  <2>3. one \in Seq(Notifications) /\ Len(one) = 1 BY <2>2
  <2>4. c \in Int /\ c = st.count - 2 BY <1>1, <1>3
  <2>5. Send(st, on, why) = post(r) BY <1>5 DEF Send, post, sent
  <2> HIDE DEF first, c, one
  <2>6. r \in States /\ r.count = c /\ r.queue = one BY <1>3, <2>3, <2>4 DEF States
  <2> HIDE DEF r
  <2>7. post(r) \in States /\ post(r).count = c + 1 /\ Len(post(r).queue) = 1
    BY <1>4, <2>3, <2>6
  <2> HIDE DEF q
  <2>8. Len(st.queue) + 1 = 3 BY <1>2, <1>5
  <2> QED BY <1>1, <2>4, <2>5, <2>7, <2>8 DEF Keeps, Good, Beyond
<1>6. CASE Len(q) = 2 /\ ~on
  <2> DEFINE c == sent.count - 1
  <2> DEFINE none == <<>>
  <2> DEFINE r == [sent EXCEPT !.count = c, !.queue = none]
  <2>1. none \in Seq(Notifications) /\ Len(none) = 0 OBVIOUS
  <2>2. c \in Int /\ c = st.count - 1 BY <1>1, <1>3
  <2>3. Send(st, on, why) = r BY <1>6 DEF Send, sent
  <2> HIDE DEF c, none
  <2>4. r \in States /\ r.count = c /\ r.queue = none BY <1>3, <2>1, <2>2 DEF States
  <2> HIDE DEF r
  <2> HIDE DEF q
  <2>5. Len(st.queue) + 1 = 2 BY <1>2, <1>6
  <2> QED BY <1>1, <2>1, <2>2, <2>3, <2>4, <2>5 DEF Keeps, Good, Beyond
<1>7. CASE Len(q) # 3 /\ ~(Len(q) = 2 /\ ~on)
  <2> DEFINE r == [sent EXCEPT !.queue = q]
  <2>1. Send(st, on, why) = post(r) BY <1>7 DEF Send, post, sent
  <2> HIDE DEF q
  <2>2. r \in States /\ r.count = st.count /\ r.queue = q BY <1>1, <1>2, <1>3 DEF States
  <2> HIDE DEF r
  <2>3. post(r) \in States /\ post(r).count = st.count + 1 /\ post(r).queue = q BY <1>4, <2>2
  <2>4. Len(q) <= 2 /\ Len(q) = Len(st.queue) + 1 BY <1>1, <1>2, <1>7
  <2> QED BY <1>1, <2>1, <2>3, <2>4 DEF Keeps, Good, Beyond
<1> QED BY <1>5, <1>6, <1>7
\* screenOffFinishedAnimatingLocked.
LEMMA ScreenOffFinishedKeeps ==
  ASSUME NEW st, Good(st), NEW why \in OffReasons
  PROVE  Keeps(st, ScreenOffFinished(st, why))
<1> DEFINE dark == [st EXCEPT !.panel = FALSE, !.reason = why]
<1>1. Same(st, dark) BY DEF Good, Same, States, OffReasons
<1>2. ScreenOffFinished(st, why) = Send(dark, FALSE, why) BY DEF ScreenOffFinished
<1> HIDE DEF dark
<1>3. Keeps(st, dark) BY <1>1, SameKeeps
<1>4. Keeps(dark, Send(dark, FALSE, why)) BY <1>3, SendKeeps DEF Keeps, Whys
<1> QED BY <1>2, <1>3, <1>4, KeepsOn

(***************************************************************************)
(* The power state.                                                        *)
(***************************************************************************)
\* The bits of a stage are a power state, and the brightness wanted for a power
\* state is a stage.
LEMMA Levels ==
  /\ \A l \in Stages : Level[l] \in Powers
  /\ \A p \in Powers : \A zero : LevelName(p, zero) \in Stages
BY DEF Stages, Level, Powers, LevelName

\* setTargetLocked.
LEMMA SetTargetSame ==
  ASSUME NEW st \in States, NEW l \in Stages
  PROVE  Same(st, SetTarget(st, l))
<1>1. CASE st.target = l BY <1>1 DEF Same, SetTarget
<1>2. CASE st.target # l
  <2> DEFINE new == [st EXCEPT !.target = l, !.animating = TRUE, !.posted = TRUE]
  <2>1. SetTarget(st, l) = new BY <1>2 DEF SetTarget
  <2>2. Same(st, new) BY DEF Same, States
  <2> QED BY <2>1, <2>2
<1> QED BY <1>1, <1>2

\* The screen turned on.
LEMMA TurnOnKeeps ==
  ASSUME NEW st, Good(st)
  PROVE  Keeps(st, TurnOn(st))
<1> DEFINE told == IF st.owed THEN Send(st, FALSE, User) ELSE st
<1> DEFINE up == told.power \cup {"on"}
<1> DEFINE lit == [told EXCEPT !.panel = TRUE, !.power = up,
                             !.zeroed = told.zero, !.halted = FALSE]
<1>1. TurnOn(st) = Send(lit, TRUE, NoReason) BY DEF TurnOn
<1>2. Keeps(st, told)
  <2>1. Keeps(st, st) BY DEF Keeps
  <2>2. Keeps(st, Send(st, FALSE, User)) BY SendKeeps DEF Whys, OffReasons
  <2> QED BY <2>1, <2>2
<1> HIDE DEF told
<1>3. up \in Powers BY <1>2 DEF Keeps, Good, States, Powers
<1> HIDE DEF up
<1>4. Same(told, lit) BY <1>2, <1>3 DEF Keeps, Good, Same, States
<1> HIDE DEF lit
<1>5. Keeps(told, lit) BY <1>2, <1>4, SameKeeps DEF Keeps
<1>6. Keeps(lit, Send(lit, TRUE, NoReason)) BY <1>5, SendKeeps DEF Keeps, Whys
<1>7. Keeps(st, lit) BY <1>2, <1>5, KeepsOn
<1> QED BY <1>1, <1>6, <1>7, KeepsOn

\* The screen turned off: at once, or by the fade under way.
LEMMA TurnOffKeeps ==
  ASSUME NEW st, Good(st), NEW why \in OffReasons
  PROVE  Keeps(st, TurnOff(st, why))
<1> DEFINE down == st.power \ {"on"}
<1> DEFINE dark == [st EXCEPT !.power = down, !.reason = why]
<1>1. TurnOff(st, why) = IF dark.animating THEN dark ELSE ScreenOffFinished(dark, why)
  BY DEF TurnOff
<1>2. down \in Powers BY DEF Good, States, Powers
<1> HIDE DEF down
<1>3. Same(st, dark) BY <1>2 DEF Good, Same, States, OffReasons
<1> HIDE DEF dark
<1>4. Keeps(st, dark) BY <1>3, SameKeeps
<1>5. Keeps(dark, ScreenOffFinished(dark, why)) BY <1>4, ScreenOffFinishedKeeps DEF Keeps
<1>6. Keeps(st, ScreenOffFinished(dark, why)) BY <1>4, <1>5, KeepsOn
<1> QED BY <1>1, <1>4, <1>6

\* setPowerState.
LEMMA SetPowerStateKeeps ==
  ASSUME NEW st, Good(st), NEW new \in Powers, NEW why \in OffReasons
  PROVE  Keeps(st, SetPowerState(st, new, why))
<1> DEFINE aimed == SetTarget(st, LevelName(new, st.zero))
<1> DEFINE bits == (aimed.power \cap {"on"}) \cup (new \cap {"bright"})
<1> DEFINE lit == [aimed EXCEPT !.power = bits]
<1>1. Same(st, aimed) BY Levels, SetTargetSame DEF Good
<1>2. SetPowerState(st, new, why) = IF new = st.power THEN st
                                    ELSE IF "on" \in new \ st.power THEN TurnOn(lit)
                                    ELSE IF "on" \in st.power \ new THEN TurnOff(lit, why)
                                    ELSE lit
  BY DEF SetPowerState
<1> HIDE DEF aimed
<1>3. bits \in Powers BY DEF Powers
<1> HIDE DEF bits
<1>4. Same(st, lit) BY <1>1, <1>3 DEF Same, States
<1> HIDE DEF lit
<1>5. Keeps(st, lit) BY <1>4, SameKeeps
<1>6. Keeps(st, st) BY DEF Keeps
<1>7. Keeps(st, TurnOn(lit))
  <2>1. Keeps(lit, TurnOn(lit)) BY <1>5, TurnOnKeeps DEF Keeps
  <2> QED BY <1>5, <2>1, KeepsOn
<1>8. Keeps(st, TurnOff(lit, why))
  <2>1. Keeps(lit, TurnOff(lit, why)) BY <1>5, TurnOffKeeps DEF Keeps
  <2> QED BY <1>5, <2>1, KeepsOn
<1> QED BY <1>2, <1>5, <1>6, <1>7, <1>8

\* setScreenBrightnessOverride.
LEMMA SetBrightnessOverrideSame ==
  ASSUME NEW st \in States, NEW zero \in BOOLEAN
  PROVE  Same(st, SetBrightnessOverride(st, zero))
<1> DEFINE was == st.zeroed \/ (zero /\ "on" \in st.power)
<1> DEFINE set == [st EXCEPT !.zero = zero, !.zeroed = was]
<1> DEFINE l == LevelName(st.power, zero)
<1>1. SetBrightnessOverride(st, zero) = IF "on" \in st.power THEN SetTarget(set, l) ELSE set
  BY DEF SetBrightnessOverride
<1>2. was \in BOOLEAN BY DEF States
<1>3. l \in Stages BY Levels DEF States
<1> HIDE DEF was, l
<1>4. Same(st, set) BY <1>2 DEF Same, States
<1> HIDE DEF set
<1>5. Same(set, SetTarget(set, l)) BY <1>3, <1>4, SetTargetSame DEF Same
<1> QED BY <1>1, <1>4, <1>5 DEF Same

\* setBacklightBrightness.
LEMMA SetBacklightSame ==
  ASSUME NEW st \in States
  PROVE  Same(st, SetBacklight(st))
<1> DEFINE left == st.halted \/ (TurningOff(st) /\ "on" \notin st.power)
<1>1. SetBacklight(st) = [st EXCEPT !.target = "unset", !.animating = FALSE, !.halted = left]
  BY DEF SetBacklight
<1>2. left \in BOOLEAN BY DEF States
<1> HIDE DEF left
<1> QED BY <1>1, <1>2 DEF Same, States

(***************************************************************************)
(* Wake locks, user activity, time-outs.                                   *)
(***************************************************************************)
Held == [Locks -> {"free", "activated", "deactivated"}]

\* gatherState returns a power state.
LEMMA GatherStatePowers == \A held : GatherState(held) \in Powers
<1> SUFFICES ASSUME NEW held PROVE GatherState(held) \in Powers
  OBVIOUS
<1> DEFINE active == {k \in Locks : held[k] = "activated"}
<1>1. \A l \in Locks : Level[Flags[l].level] \subseteq {"on", "bright"}
  BY PowerAssumption DEF Level
<1>2. GatherState(held) = UNION {Level[Flags[l].level] : l \in active} BY DEF GatherState
<1> QED BY <1>1, <1>2 DEF Powers

\* reactivateScreenLocksLocked.
LEMMA ReactivateSame ==
  ASSUME NEW st \in States
  PROVE  Same(st, Reactivate(st))
<1> DEFINE held == [l \in Locks |-> IF st.held[l] = "free" THEN "free" ELSE "activated"]
<1> DEFINE wake == GatherState(held)
<1>1. held \in Held BY DEF Held
<1>2. Reactivate(st) = [st EXCEPT !.held = held, !.wake = wake] BY DEF Reactivate
<1>3. wake \in Powers BY GatherStatePowers
<1> DEFINE new == [st EXCEPT !.held = held, !.wake = wake]
<1> HIDE DEF held, wake
<1>4. new \in States BY <1>1, <1>3 DEF States, Held
<1>5. new.queue = st.queue /\ new.count = st.count BY DEF States
<1> QED BY <1>2, <1>4, <1>5 DEF Same

\* setTimeoutLocked, after another step of the same section.
LEMMA SetTimeoutKeeps ==
  ASSUME NEW st, NEW mid, Keeps(st, mid), NEW stage \in Stages
  PROVE  Keeps(st, SetTimeout(mid, stage))
<1>1. Same(mid, SetTimeout(mid, stage)) BY DEF Keeps, Good, Same, SetTimeout, States
<1>2. Keeps(mid, SetTimeout(mid, stage)) BY <1>1, SameKeeps DEF Keeps
<1> QED BY <1>2, KeepsOn

\* setPowerState, after another step of the same section.
LEMMA ThenSetPowerState ==
  ASSUME NEW st, NEW mid, Keeps(st, mid), NEW new \in Powers, NEW why \in OffReasons
  PROVE  Keeps(st, SetPowerState(mid, new, why))
<1>1. Keeps(mid, SetPowerState(mid, new, why)) BY SetPowerStateKeeps DEF Keeps
<1> QED BY <1>1, KeepsOn

\* userActivity.
LEMMA UserActivityKeeps ==
  ASSUME NEW st, Good(st), NEW noChangeLights \in BOOLEAN, NEW stage \in Stages
  PROVE  Keeps(st, UserActivity(st, noChangeLights, stage))
<1> DEFINE woken == Reactivate(st)
<1> DEFINE user == woken.user \cup Level["bright"]
<1> DEFINE r == [woken EXCEPT !.user = user]
<1> DEFINE new == r.user \cup r.wake
<1> DEFINE wanted == IF noChangeLights THEN KeepLights(r, new) ELSE new
<1>1. UserActivity(st, noChangeLights, stage) =
        IF TurningOff(st) THEN st ELSE SetTimeout(SetPowerState(r, wanted, User), stage)
  BY DEF UserActivity
<1>2. Same(st, woken) BY ReactivateSame DEF Good
<1> HIDE DEF woken
<1>3. user \in Powers BY <1>2 DEF Same, States, Powers, Level
<1> HIDE DEF user
<1>4. Same(st, r) BY <1>2, <1>3 DEF Same, States
<1> HIDE DEF r
<1>5. Keeps(st, r) BY <1>4, SameKeeps
<1>6. r.user \in Powers /\ r.wake \in Powers /\ r.power \in Powers BY <1>4 DEF Same, States
<1>7. wanted \in Powers BY <1>6 DEF KeepLights, Powers
<1> HIDE DEF wanted
<1>8. Keeps(st, SetPowerState(r, wanted, User)) BY <1>5, <1>7, ThenSetPowerState DEF OffReasons
<1>9. Keeps(st, SetTimeout(SetPowerState(r, wanted, User), stage)) BY <1>8, SetTimeoutKeeps
<1>10. Keeps(st, st) BY DEF Keeps
<1> QED BY <1>1, <1>9, <1>10

\* forceUserActivityLocked.
LEMMA ForceUserActivityKeeps ==
  ASSUME NEW st, Good(st)
  PROVE  Keeps(st, ForceUserActivity(st))
<1> DEFINE goes == st.animating /\ ~TurningOff(st)
<1> DEFINE stopped == [st EXCEPT !.animating = goes]
<1>1. ForceUserActivity(st) = UserActivity(stopped, FALSE, "bright") BY DEF ForceUserActivity
<1>2. goes \in BOOLEAN BY DEF Good, States
<1> HIDE DEF goes
<1>3. Same(st, stopped) BY <1>2 DEF Good, Same, States
<1> HIDE DEF stopped
<1>4. Keeps(st, stopped) BY <1>3, SameKeeps
<1>5. "bright" \in Stages BY DEF Stages, Level
<1>6. Keeps(stopped, UserActivity(stopped, FALSE, "bright"))
  BY <1>4, <1>5, UserActivityKeeps DEF Keeps
<1> QED BY <1>1, <1>4, <1>6, KeepsOn

\* goToSleepLocked.
LEMMA GoToSleepKeeps ==
  ASSUME NEW st, Good(st), NEW why \in OffReasons
  PROVE  Keeps(st, GoToSleep(st, why))
<1> DEFINE held == [l \in Locks |-> IF st.held[l] = "free" THEN "free" ELSE "deactivated"]
<1> DEFINE dark == Level["off"]
<1> DEFINE asleep == [st EXCEPT !.held = held, !.wake = dark, !.user = dark, !.owed = TRUE]
<1> DEFINE set == SetPowerState(asleep, dark, why)
<1> DEFINE new == [set EXCEPT !.timer = FALSE, !.next = "none"]
<1>1. GoToSleep(st, why) = new BY DEF GoToSleep
<1>2. held \in Held BY DEF Held
<1>3. dark \in Powers BY DEF Level, Powers
<1> HIDE DEF held, dark
<1>4. Same(st, asleep) BY <1>2, <1>3 DEF Good, Same, States, Held
<1> HIDE DEF asleep
<1>5. Keeps(st, asleep) BY <1>4, SameKeeps
<1>6. Keeps(st, set) BY <1>3, <1>5, ThenSetPowerState
<1> HIDE DEF set
<1>7. Same(set, new) BY <1>6 DEF Keeps, Good, Same, States
<1> HIDE DEF new
<1>8. Keeps(set, new) BY <1>6, <1>7, SameKeeps DEF Keeps
<1> QED BY <1>1, <1>6, <1>8, KeepsOn

\* acquireWakeLockLocked.
LEMMA AcquireKeeps ==
  ASSUME NEW st, Good(st), NEW l \in Locks
  PROVE  Keeps(st, Acquire(st, l))
<1> DEFINE lock == IF st.held[l] = "free" THEN "activated" ELSE st.held[l]
<1> DEFINE held == [st.held EXCEPT ![l] = lock]
<1> DEFINE listed == [st EXCEPT !.held = held]
<1> DEFINE some == (st.user \cup listed.wake) \cap GatherState(listed.held)
<1> DEFINE taken == IF Flags[l].wakes THEN Reactivate(listed) ELSE [listed EXCEPT !.wake = some]
<1> DEFINE wanted == taken.wake \cup taken.user
<1>1. Acquire(st, l) = SetPowerState(taken, wanted, TimedOut) BY DEF Acquire
<1>2. held \in Held BY DEF Good, States, Held
<1> HIDE DEF held
<1>3. Same(st, listed) BY <1>2 DEF Good, Same, States, Held
<1>4. some \in Powers BY GatherStatePowers DEF Powers
<1> HIDE DEF listed, some
<1>5. Same(listed, Reactivate(listed)) BY <1>3, ReactivateSame DEF Same
<1>6. Same(listed, [listed EXCEPT !.wake = some]) BY <1>3, <1>4 DEF Same, States
<1>7. Same(st, taken) BY <1>3, <1>5, <1>6 DEF Same
<1> HIDE DEF taken
<1>8. wanted \in Powers BY <1>7 DEF Same, States, Powers
<1> HIDE DEF wanted
<1>9. Keeps(st, taken) BY <1>7, SameKeeps
<1> QED BY <1>1, <1>8, <1>9, ThenSetPowerState DEF OffReasons

\* releaseWakeLockLocked.
LEMMA ReleaseKeeps ==
  ASSUME NEW st, Good(st), NEW l \in Locks, NEW active \in BOOLEAN
  PROVE  Keeps(st, Release(st, l, active))
<1> DEFINE held == [st.held EXCEPT ![l] = "free"]
<1> DEFINE wake == GatherState(held)
<1> DEFINE freed == [st EXCEPT !.held = held, !.wake = wake]
<1> DEFINE after == IF Flags[l].after /\ active THEN UserActivity(freed, FALSE, "bright") ELSE freed
<1> DEFINE wanted == after.wake \cup after.user
<1>1. Release(st, l, active) = SetPowerState(after, wanted, TimedOut) BY DEF Release
<1>2. held \in Held BY DEF Good, States, Held
<1>3. wake \in Powers BY GatherStatePowers
<1> HIDE DEF held, wake
<1>4. Same(st, freed) BY <1>2, <1>3 DEF Good, Same, States, Held
<1> HIDE DEF freed
<1>5. Keeps(st, freed) BY <1>4, SameKeeps
<1>6. "bright" \in Stages BY DEF Stages, Level
<1>7. Keeps(freed, UserActivity(freed, FALSE, "bright"))
  BY <1>5, <1>6, UserActivityKeeps DEF Keeps
<1>8. Keeps(st, after) BY <1>5, <1>7, KeepsOn
<1> HIDE DEF after
<1>9. wanted \in Powers BY <1>8 DEF Keeps, Good, States, Powers
<1> HIDE DEF wanted
<1> QED BY <1>1, <1>8, <1>9, ThenSetPowerState DEF OffReasons

\* TimeoutTask.run.
LEMMA TimeoutKeeps ==
  ASSUME NEW st, Good(st), NEW dims \in BOOLEAN
  PROVE  Keeps(st, Timeout(st, dims))
<1>1. CASE st.next = "none"
  <2>1. Timeout(st, dims) = st BY <1>1 DEF Timeout
  <2> QED BY <2>1 DEF Keeps
<1>2. CASE st.next # "none"
  <2> DEFINE user == Level[st.next]
  <2> DEFINE over == [st EXCEPT !.user = user]
  <2> DEFINE wanted == over.user \cup over.wake
  <2> DEFINE set == SetPowerState(over, wanted, TimedOut)
  <2> DEFINE stage == IF st.next = "bright" /\ dims THEN "dim" ELSE "off"
  <2>1. Timeout(st, dims) = IF st.next = "off" THEN set ELSE SetTimeout(set, stage)
    BY <1>2 DEF Timeout
  <2>2. st.next \in Stages BY <1>2 DEF Good, States
  <2>3. user \in Powers BY <2>2, Levels
  <2> HIDE DEF user
  <2>4. Same(st, over) BY <2>3 DEF Good, Same, States
  <2> HIDE DEF over
  <2>5. Keeps(st, over) BY <2>4, SameKeeps
  <2>6. wanted \in Powers BY <2>4 DEF Same, States, Powers
  <2> HIDE DEF wanted
  <2>7. Keeps(st, set) BY <2>5, <2>6, ThenSetPowerState DEF OffReasons
  <2> HIDE DEF set
  <2>8. stage \in Stages BY DEF Stages, Level
  <2> HIDE DEF stage
  <2>9. Keeps(st, SetTimeout(set, stage)) BY <2>7, <2>8, SetTimeoutKeeps
  <2> QED BY <2>1, <2>7, <2>9
<1> QED BY <1>1, <1>2

\* The last step of BrightnessState.run.
LEMMA FinishFadeKeeps ==
  ASSUME NEW st, Good(st)
  PROVE  Keeps(st, FinishFade(st))
<1> DEFINE target == IF st.animates THEN st.target ELSE "unset"
<1> DEFINE still == [st EXCEPT !.animating = FALSE, !.posted = FALSE, !.target = target]
<1>1. FinishFade(st) = IF st.target = "off" /\ (st.animating \/ ~st.animates)
                         THEN ScreenOffFinished(still, st.reason) ELSE still
  BY DEF FinishFade
<1>2. target \in Stages \cup {"unset"} BY DEF Good, States
<1> HIDE DEF target
<1>3. Same(st, still) BY <1>2 DEF Good, Same, States
<1> HIDE DEF still
<1>4. Keeps(st, still) BY <1>3, SameKeeps
<1>5. st.reason \in OffReasons BY DEF Good, States, OffReasons
<1>6. Keeps(still, ScreenOffFinished(still, st.reason))
  BY <1>4, <1>5, ScreenOffFinishedKeeps DEF Keeps
<1> QED BY <1>1, <1>4, <1>6, KeepsOn

(***************************************************************************)
(* The steps of the system.                                                *)
(***************************************************************************)
\* Every call is one critical section of the service.
LEMMA CallKeeps ==
  ASSUME TypeOK, Call
  PROVE  Keeps(s, s') /\ UNCHANGED <<handler, broadcasts, heard>> /\ calls' \in 0 .. MaxCalls
<1>1. Good(s) BY DEF TypeOK, Good
<1>2. UNCHANGED <<handler, broadcasts, heard>> /\ calls' \in 0 .. MaxCalls
  <2>1. Serve
    BY DEF Call, CallUserActivity, CallForceUserActivity, CallGoToSleep, CallAcquire, CallRelease,
       CallSetBrightnessOverride, CallSetBacklight
  <2>2. calls \in 0 .. MaxCalls BY DEF TypeOK
  <2> QED BY <2>1, <2>2, PowerAssumption DEF Serve
<1>3. CASE CallUserActivity
  <2>1. "bright" \in Stages BY DEF Stages, Level
  <2> QED BY <1>1, <1>3, <2>1, UserActivityKeeps, <1>2 DEF CallUserActivity
<1>4. CASE CallForceUserActivity BY <1>1, <1>2, <1>4, ForceUserActivityKeeps DEF CallForceUserActivity
<1>5. CASE CallGoToSleep BY <1>1, <1>2, <1>5, GoToSleepKeeps DEF CallGoToSleep, OffReasons
<1>6. CASE CallAcquire BY <1>1, <1>2, <1>6, AcquireKeeps DEF CallAcquire
<1>7. CASE CallRelease BY <1>1, <1>2, <1>7, ReleaseKeeps DEF CallRelease
<1>8. CASE CallSetBrightnessOverride
  <2>1. Same(s, s') BY <1>1, <1>8, SetBrightnessOverrideSame DEF CallSetBrightnessOverride, Good
  <2> QED BY <1>1, <1>2, <2>1, SameKeeps
<1>9. CASE CallSetBacklight
  <2>1. Same(s, s') BY <1>1, <1>9, SetBacklightSame DEF CallSetBacklight, Good
  <2> QED BY <1>1, <1>2, <2>1, SameKeeps
<1> QED BY <1>3, <1>4, <1>5, <1>6, <1>7, <1>8, <1>9 DEF Call

\* The wake lock's count is right in a state reached by a step that keeps both
\* what the lock is held for besides the queue, and who it is held for.
LEMMA KeepsLock ==
  ASSUME TypeOK, BroadcastLockExact, Keeps(s, s'),
         broadcasts' = broadcasts, (handler'.doing = "tell") <=> (handler.doing = "tell")
  PROVE  s' \in States /\ Len(s'.queue) <= 2 /\ BroadcastLockExact'
<1>1. s' \in States /\ Len(s'.queue) <= 2 BY DEF Keeps, Good
<1>2. /\ s'.count \in Int /\ Len(s'.queue) \in Nat
      /\ s.count \in Int /\ Len(s.queue) \in Nat /\ broadcasts \in Nat
  <2>1. s'.queue \in Seq(Notifications) /\ s'.count \in Int BY <1>1 DEF States
  <2>2. s.queue \in Seq(Notifications) /\ s.count \in Int BY DEF TypeOK, States
  <2> QED BY <2>1, <2>2 DEF TypeOK
<1>3. s'.count - Len(s'.queue) = s.count - Len(s.queue) BY DEF Keeps, Beyond
<1>4. CASE handler.doing = "tell"
  <2>1. s.count = Len(s.queue) + 1 + broadcasts BY <1>4 DEF BroadcastLockExact
  <2>2. s'.count = Len(s'.queue) + 1 + broadcasts BY <1>2, <1>3, <2>1
  <2> QED BY <1>1, <1>4, <2>2 DEF BroadcastLockExact
<1>5. CASE handler.doing # "tell"
  <2>1. s.count = Len(s.queue) + 0 + broadcasts BY <1>5 DEF BroadcastLockExact
  <2>2. s'.count = Len(s'.queue) + 0 + broadcasts BY <1>2, <1>3, <2>1
  <2> QED BY <1>1, <1>5, <2>2 DEF BroadcastLockExact
<1> QED BY <1>4, <1>5

\* The thread of mHandler, taking a time-out, a notification or a result.
LEMMA HandleKeeps ==
  ASSUME TypeOK, BroadcastLockExact, Handle
  PROVE  TypeOK' /\ BroadcastLockExact'
<1>1. s \in States /\ Good(s) BY DEF TypeOK, Good
<1>2. s.queue \in Seq(Notifications) /\ s.count \in Int /\ s.tasks \in Nat
  BY <1>1 DEF States
<1>3. CASE TimerFires
  <2>1. Same(s, s') BY <1>1, <1>3 DEF TimerFires, Same, States
  <2>2. Keeps(s, s') BY <1>1, <2>1, SameKeeps
  <2>3. handler.doing # "tell" /\ handler'.doing # "tell"
    BY <1>3 DEF TimerFires, Idle, InTimeout
  <2> QED BY <1>3, <2>2, <2>3, KeepsLock DEF TimerFires, TypeOK
<1>4. CASE TimeoutRuns
  <2>1. Keeps(s, s') BY <1>1, <1>4, TimeoutKeeps DEF TimeoutRuns
  <2>2. handler.doing # "tell" /\ handler'.doing # "tell"
    BY <1>4 DEF TimeoutRuns, Idle, InTimeout
  <2> QED BY <1>4, <2>1, <2>2, KeepsLock DEF TimeoutRuns, TypeOK
<1>5. CASE TakeNotification
  <2> DEFINE rest == IF s.queue = <<>> THEN s.queue ELSE Tail(s.queue)
  <2>1. rest \in Seq(Notifications) BY <1>2
  <2>2. IF s.queue = <<>> THEN Len(rest) = Len(s.queue) ELSE Len(rest) + 1 = Len(s.queue)
    BY <1>2
  <2>3. handler.doing # "tell" BY <1>5 DEF TakeNotification, Idle, Looping
  <2>4. /\ handler' \in {Idle} \cup {Telling(n) : n \in Notifications}
        /\ IF s.queue = <<>> THEN handler'.doing # "tell" ELSE handler'.doing = "tell"
    BY <1>2, <1>5 DEF TakeNotification, Idle, Telling
  <2>5. s' \in States /\ s'.queue = rest /\ s'.count = s.count
    <3>1. CASE s' = [s EXCEPT !.tasks = @ - 1, !.queue = rest] /\ s.tasks > 0
      <4> DEFINE left == s.tasks - 1
      <4>1. left \in Nat BY <1>2, <3>1
      <4> HIDE DEF rest, left
      <4>2. s' = [s EXCEPT !.tasks = left, !.queue = rest] BY <3>1 DEF left
      <4> QED BY <1>1, <2>1, <4>1, <4>2 DEF States
    <3>2. CASE s' = [s EXCEPT !.queue = rest]
      <4> HIDE DEF rest
      <4> QED BY <1>1, <2>1, <3>2 DEF States
    <3> QED BY <1>5, <3>1, <3>2 DEF TakeNotification
  <2> HIDE DEF rest
  <2>6. UNCHANGED <<broadcasts, heard, calls>> BY <1>5 DEF TakeNotification
  <2>7. Len(rest) \in Nat /\ Len(s.queue) \in Nat BY <1>2, <2>1
  <2>8. Len(rest) <= 2 BY <2>2, <2>7 DEF TypeOK
  <2>9. BroadcastLockExact'
    BY <1>2, <2>2, <2>3, <2>4, <2>5, <2>6, <2>7 DEF BroadcastLockExact, TypeOK
  <2> QED BY <2>4, <2>5, <2>6, <2>8, <2>9 DEF TypeOK
<1>6. CASE TellPolicy
  <2>1. handler.doing = "tell" /\ handler'.doing # "tell" /\ handler' = Looping
    BY <1>6 DEF TellPolicy, Looping
  <2>2. heard' \in {"on", "off"} /\ calls' = calls BY <1>6 DEF TellPolicy
  <2>3. CASE broadcasts' = broadcasts + 1 /\ s' = s
    <3>1. TypeOK' BY <2>1, <2>2, <2>3 DEF TypeOK
    <3>2. s.count = Len(s.queue) + 1 + broadcasts BY <2>1 DEF BroadcastLockExact
    <3>3. s.count = Len(s.queue) + 0 + (broadcasts + 1)
      <4>1. Len(s.queue) \in Int /\ broadcasts \in Int BY <1>2 DEF TypeOK
      <4>2. \A i, j \in Int : i + 1 + j = i + 0 + (j + 1) OBVIOUS
      <4> QED BY <3>2, <4>1, <4>2
    <3> QED BY <2>1, <2>3, <3>1, <3>3 DEF BroadcastLockExact
  <2>4. CASE s' = [s EXCEPT !.count = @ - 1] /\ broadcasts' = broadcasts
    <3> DEFINE less == s.count - 1
    <3>1. less \in Int BY <1>2
    <3> HIDE DEF less
    <3>2. s' = [s EXCEPT !.count = less] BY <2>4 DEF less
    <3>3. s' \in States /\ s'.queue = s.queue /\ s'.count = less
      BY <1>1, <3>1, <3>2 DEF States
    <3> QED BY <1>2, <2>1, <2>2, <2>4, <3>3 DEF BroadcastLockExact, TypeOK, less
  <2> QED BY <1>6, <2>3, <2>4 DEF TellPolicy
<1>7. CASE BroadcastDone
  <2> DEFINE less == s.count - 1
  <2>1. less \in Int BY <1>2
  <2> HIDE DEF less
  <2>2. s' = [s EXCEPT !.count = less] BY <1>7 DEF BroadcastDone, less
  <2>3. s' \in States /\ s'.queue = s.queue /\ s'.count = less BY <1>1, <2>1, <2>2 DEF States
  <2>4. broadcasts' \in Nat /\ broadcasts' = broadcasts - 1 BY <1>7 DEF BroadcastDone, TypeOK
  <2>5. UNCHANGED <<handler, heard, calls>> BY <1>7 DEF BroadcastDone
  <2> QED BY <1>2, <2>3, <2>4, <2>5 DEF BroadcastLockExact, TypeOK, less
<1> QED BY <1>3, <1>4, <1>5, <1>6, <1>7 DEF Handle

(***************************************************************************)
(* The theorems.                                                           *)
(***************************************************************************)
Inv == TypeOK /\ BroadcastLockExact

LEMMA InitInv == Init => Inv
<1> SUFFICES ASSUME Init PROVE Inv
  OBVIOUS
<1>1. /\ Level["bright"] \in Powers /\ Level["off"] \in Powers
      /\ "bright" \in Stages
  BY DEF Level, Powers, Stages
<1>2. <<>> \in Seq(Notifications) /\ Len(<<>>) = 0 OBVIOUS
<1>3. s \in States /\ s.queue = <<>> /\ s.count = 0 BY <1>1, <1>2 DEF Init, States
<1>4. handler = Idle /\ broadcasts = 0 /\ heard = "on" /\ calls = 0 BY DEF Init
<1> QED BY <1>2, <1>3, <1>4, PowerAssumption DEF Inv, TypeOK, BroadcastLockExact, Idle

LEMMA NextInv == Inv /\ [Next]_vars => Inv'
<1> SUFFICES ASSUME TypeOK, BroadcastLockExact, [Next]_vars PROVE Inv'
  BY DEF Inv
<1>1. CASE Call
  <2>1. /\ Keeps(s, s') /\ UNCHANGED <<handler, broadcasts, heard>>
        /\ calls' \in 0 .. MaxCalls
    BY <1>1, CallKeeps
  <2> QED BY <2>1, KeepsLock DEF Inv, TypeOK
<1>2. CASE Handle BY <1>2, HandleKeeps DEF Inv
<1>3. CASE FadeEnds
  <2>1. Keeps(s, s') BY <1>3, FinishFadeKeeps DEF FadeEnds, TypeOK, Good
  <2>2. UNCHANGED <<handler, broadcasts, heard, calls>> BY <1>3 DEF FadeEnds
  <2> QED BY <2>1, <2>2, KeepsLock DEF Inv, TypeOK
<1>4. CASE UNCHANGED vars BY <1>4 DEF vars, Inv, TypeOK, BroadcastLockExact
<1> QED BY <1>1, <1>2, <1>3, <1>4 DEF Next

LEMMA SpecInv == Spec => []Inv
<1> QED BY InitInv, NextInv, PTL DEF Spec

\* For any locks and any number of calls, the service's state keeps its types, and
\* sendNotificationLocked always finds a free place in mBroadcastQueue.
THEOREM PowerTypeCorrect == Spec => []TypeOK
<1>1. Inv => TypeOK BY DEF Inv
<1> QED BY <1>1, SpecInv, PTL

\* For any locks and any number of calls, mBroadcastWakeLock is held exactly once
\* for each notification that is queued, being told or broadcast.
THEOREM BroadcastLockCorrect == Spec => []BroadcastLockExact
<1>1. Inv => BroadcastLockExact BY DEF Inv
<1> QED BY <1>1, SpecInv, PTL

(***************************************************************************)
(* The panel follows the power state.  The inductive invariant adds two    *)
(* facts to it: no power state is bright without being on, and a screen    *)
(* that is on, and was under no override of 0 since it was turned on, has  *)
(* a brightness to go to that is not off, so that a fade to off can only   *)
(* end under a screen that is off.                                         *)
(***************************************************************************)
\* What a power state may be, and those of a state.
Shape(p) == p \in Powers /\ ("bright" \in p => "on" \in p)
Shapes(st) == Shape(st.user) /\ Shape(st.wake) /\ Shape(st.power)

\* PanelFollowsState of a state, and what it rests on.
Panel(st) ==
  /\ Shapes(st)
  /\ "on" \in st.power /\ ~st.zeroed => ~st.zero /\ st.target # "off"
  /\ "on" \in st.power => st.panel \/ st.zeroed
  /\ "on" \notin st.power /\ st.panel => TurningOff(st) \/ st.halted
  /\ "on" \notin st.power /\ TurningOff(st) => st.panel \/ st.zeroed

\* A step that leaves alone what Panel is about, what is asked for aside ...
Screen(st, new) ==
  /\ new.power = st.power /\ new.panel = st.panel
  /\ new.target = st.target /\ new.animating = st.animating
  /\ new.zero = st.zero /\ new.zeroed = st.zeroed /\ new.halted = st.halted

\* ... and all of it.
Frame(st, new) == new.user = st.user /\ new.wake = st.wake /\ Screen(st, new)

LEMMA ScreenPanel ==
  ASSUME NEW st, NEW new, Screen(st, new), Panel(st), Shape(new.user), Shape(new.wake)
  PROVE  Panel(new)
BY DEF Screen, Panel, Shapes, TurningOff

LEMMA FramePanel ==
  ASSUME NEW st, NEW new, Frame(st, new), Panel(st)
  PROVE  Panel(new)
BY DEF Frame, Screen, Panel, Shapes, TurningOff

(***************************************************************************)
(* Notifications.                                                          *)
(***************************************************************************)
LEMMA SendFrame ==
  ASSUME NEW st \in States, NEW on, NEW why
  PROVE  Frame(st, Send(st, on, why))
<1> DEFINE q == Append(st.queue, [on |-> on, why |-> why])
<1>1. CASE Len(q) = 3 BY <1>1 DEF Send, Frame, Screen, States
<1>2. CASE Len(q) # 3 /\ Len(q) = 2 /\ ~on BY <1>2 DEF Send, Frame, Screen, States
<1>3. CASE Len(q) # 3 /\ ~(Len(q) = 2 /\ ~on) BY <1>3 DEF Send, Frame, Screen, States
<1> QED BY <1>1, <1>2, <1>3

\* A fade that has reached off, or a screen turned off without one.
LEMMA ScreenOffFinishedPanel ==
  ASSUME NEW st, Good(st), Shapes(st), ~TurningOff(st), "on" \in st.power => st.zeroed,
         NEW why \in OffReasons
  PROVE  Panel(ScreenOffFinished(st, why))
<1> DEFINE dark == [st EXCEPT !.panel = FALSE, !.reason = why]
<1>1. ScreenOffFinished(st, why) = Send(dark, FALSE, why) BY DEF ScreenOffFinished
<1>2. dark \in States BY DEF Good, States, OffReasons
<1>3. Panel(dark) BY DEF Good, States, Panel, Shapes, TurningOff
<1> HIDE DEF dark
<1> QED BY <1>1, <1>2, <1>3, SendFrame, FramePanel

(***************************************************************************)
(* setPowerState.                                                          *)
(***************************************************************************)
LEMMA SetTargetAims ==
  ASSUME NEW st \in States, NEW l
  PROVE  LET new == SetTarget(st, l)
         IN  /\ new.target = l
             /\ new.animating = IF st.target = l THEN st.animating ELSE TRUE
             /\ new.user = st.user /\ new.wake = st.wake
             /\ new.power = st.power /\ new.panel = st.panel
             /\ new.zero = st.zero /\ new.zeroed = st.zeroed /\ new.halted = st.halted
BY DEF SetTarget, States

LEMMA LevelNames ==
  ASSUME NEW p, Shape(p), NEW zero
  PROVE  /\ LevelName(p, zero) \in Stages
         /\ "on" \notin p => LevelName(p, zero) = "off"
         /\ "on" \in p /\ ~zero => LevelName(p, zero) # "off"
BY Levels DEF Shape, LevelName

\* It turns on a screen that is off whatever the fade was about to do, and it
\* keeps the panel right whenever it is right.
LEMMA SetPowerStatePanel ==
  ASSUME NEW st, Good(st), Shapes(st), NEW new, Shape(new), NEW why \in OffReasons,
         Panel(st) \/ ("on" \notin st.power /\ "on" \in new)
  PROVE  Panel(SetPowerState(st, new, why))
<1> DEFINE l == LevelName(new, st.zero)
<1> DEFINE aimed == SetTarget(st, l)
<1> DEFINE bits == (aimed.power \cap {"on"}) \cup (new \cap {"bright"})
<1> DEFINE lit == [aimed EXCEPT !.power = bits]
<1>1. SetPowerState(st, new, why) = IF new = st.power THEN st
                                    ELSE IF "on" \in new \ st.power THEN TurnOn(lit)
                                    ELSE IF "on" \in st.power \ new THEN TurnOff(lit, why)
                                    ELSE lit
  BY DEF SetPowerState
<1>2. /\ l \in Stages /\ ("on" \notin new => l = "off")
      /\ "on" \in new /\ ~st.zero => l # "off"
  BY LevelNames
<1> HIDE DEF l
<1>3. Same(st, aimed) BY <1>2, SetTargetSame DEF Good
<1>4. /\ aimed.target = l
      /\ aimed.animating = IF st.target = l THEN st.animating ELSE TRUE
      /\ aimed.user = st.user /\ aimed.wake = st.wake
      /\ aimed.power = st.power /\ aimed.panel = st.panel
      /\ aimed.zero = st.zero /\ aimed.zeroed = st.zeroed /\ aimed.halted = st.halted
  BY SetTargetAims DEF Good
<1> HIDE DEF aimed
<1>5. bits \in Powers /\ ("on" \in bits <=> "on" \in st.power) /\ ("bright" \in bits <=> "bright" \in new)
  BY <1>4 DEF Powers
<1> HIDE DEF bits
<1>6. Same(st, lit) BY <1>3, <1>5 DEF Same, States
<1>7. Good(lit) BY <1>6, SameKeeps DEF Keeps
<1>8. /\ lit.target = l /\ lit.animating = aimed.animating
      /\ lit.user = st.user /\ lit.wake = st.wake /\ lit.power = bits /\ lit.panel = st.panel
      /\ lit.zero = st.zero /\ lit.zeroed = st.zeroed /\ lit.halted = st.halted
  BY <1>3, <1>4 DEF Same, States
<1> HIDE DEF lit
<1>9. CASE new = st.power BY <1>1, <1>9
<1>10. CASE "on" \in new \ st.power
  <2> DEFINE told == IF lit.owed THEN Send(lit, FALSE, User) ELSE lit
  <2> DEFINE up == told.power \cup {"on"}
  <2> DEFINE shown == [told EXCEPT !.panel = TRUE, !.power = up,
                                 !.zeroed = told.zero, !.halted = FALSE]
  <2>1. SetPowerState(st, new, why) = Send(shown, TRUE, NoReason) BY <1>1, <1>10 DEF TurnOn
  <2>2. told \in States
    <3>1. Keeps(lit, Send(lit, FALSE, User)) BY <1>7, SendKeeps DEF Whys, OffReasons
    <3> QED BY <1>7, <3>1 DEF Keeps, Good
  <2>3. Frame(lit, told)
    <3>1. Frame(lit, lit) BY DEF Frame, Screen
    <3> QED BY <1>7, <3>1, SendFrame DEF Good
  <2> HIDE DEF told
  <2>4. up = bits \cup {"on"} /\ up \in Powers BY <1>5, <1>8, <2>3 DEF Frame, Screen, Powers
  <2> HIDE DEF up
  <2>5. /\ shown \in States /\ shown.panel = TRUE /\ shown.power = up
        /\ shown.user = st.user /\ shown.wake = st.wake /\ shown.target = l
        /\ shown.zero = st.zero /\ shown.zeroed = st.zero
    BY <1>8, <2>2, <2>3, <2>4 DEF Frame, Screen, States
  <2> HIDE DEF shown
  <2>6. Panel(shown) BY <1>2, <1>10, <2>4, <2>5 DEF Panel, Shapes, Shape, TurningOff
  <2> QED BY <2>1, <2>5, <2>6, SendFrame, FramePanel
<1>11. CASE "on" \in st.power \ new
  <2> DEFINE down == lit.power \ {"on"}
  <2> DEFINE dark == [lit EXCEPT !.power = down, !.reason = why]
  <2>1. Panel(st) /\ l = "off" BY <1>2, <1>11
  <2>2. SetPowerState(st, new, why) = IF dark.animating THEN dark ELSE ScreenOffFinished(dark, why)
    BY <1>1, <1>11 DEF TurnOff
  <2>3. down \in Powers /\ "on" \notin down /\ "bright" \notin down
    BY <1>5, <1>8, <1>11 DEF Shape, Powers
  <2> HIDE DEF down
  <2>4. /\ dark.power = down /\ dark.animating = aimed.animating /\ dark.target = "off"
        /\ dark.panel = st.panel /\ dark.user = st.user /\ dark.wake = st.wake
        /\ dark.zeroed = st.zeroed
    BY <1>7, <1>8, <2>1 DEF Good, States
  <2>5. Good(dark)
    <3>1. Same(lit, dark) BY <1>7, <2>3 DEF Good, Same, States, OffReasons
    <3> QED BY <1>7, <3>1, SameKeeps DEF Keeps
  <2> HIDE DEF dark
  <2>6. Shapes(dark) BY <2>1, <2>3, <2>4 DEF Panel, Shapes, Shape
  <2>7. CASE dark.animating
    <3>1. TurningOff(dark) BY <2>4, <2>7 DEF TurningOff
    <3>2. st.panel \/ st.zeroed BY <1>11, <2>1 DEF Panel
    <3>3. Panel(dark) BY <2>3, <2>4, <2>6, <3>1, <3>2 DEF Panel
    <3> QED BY <2>2, <2>7, <3>3
  <2>8. CASE ~dark.animating
    <3>1. ~TurningOff(dark) BY <2>8 DEF TurningOff
    <3>2. Panel(ScreenOffFinished(dark, why))
      BY <2>3, <2>4, <2>5, <2>6, <3>1, ScreenOffFinishedPanel
    <3> QED BY <2>2, <2>8, <3>2
  <2> QED BY <2>7, <2>8
<1>12. CASE new # st.power /\ ~("on" \in new \ st.power) /\ ~("on" \in st.power \ new)
  <2>1. "on" \in new /\ "on" \in st.power BY <1>12 DEF Shape, Shapes, Powers
  <2>2. SetPowerState(st, new, why) = lit BY <1>1, <1>12
  <2> QED BY <1>2, <1>5, <1>8, <2>1, <2>2 DEF Panel, Shapes, Shape, TurningOff
<1> QED BY <1>9, <1>10, <1>11, <1>12

(***************************************************************************)
(* The operations of the service.                                          *)
(***************************************************************************)
\* Power states are gathered, joined and cut without becoming bright but off.
LEMMA ShapeOps ==
  /\ \A l \in Stages : Shape(Level[l])
  /\ \A p, q : Shape(p) /\ Shape(q) => Shape(p \cup q) /\ Shape(p \cap q)
BY DEF Shape, Powers, Level, Stages

LEMMA GatherShape == \A held : Shape(GatherState(held))
<1> SUFFICES ASSUME NEW held PROVE Shape(GatherState(held))
  OBVIOUS
<1> DEFINE active == {k \in Locks : held[k] = "activated"}
<1>1. \A l \in Locks : "on" \in Level[Flags[l].level] BY PowerAssumption DEF Level
<1>2. GatherState(held) = UNION {Level[Flags[l].level] : l \in active} BY DEF GatherState
<1>3. "bright" \in GatherState(held) => "on" \in GatherState(held)
  <2> HAVE "bright" \in GatherState(held)
  <2>1. PICK l \in active : "bright" \in Level[Flags[l].level] BY <1>2
  <2> QED BY <1>1, <1>2, <2>1
<1> QED BY <1>3, GatherStatePowers DEF Shape

\* What reactivateScreenLocksLocked leaves alone, and the shape of what it gathers.
LEMMA ReactivateShape ==
  ASSUME NEW st \in States
  PROVE  /\ Shape(Reactivate(st).wake)
         /\ Reactivate(st).user = st.user
         /\ Screen(st, Reactivate(st))
<1> DEFINE held == [l \in Locks |-> IF st.held[l] = "free" THEN "free" ELSE "activated"]
<1> DEFINE wake == GatherState(held)
<1>1. Reactivate(st) = [st EXCEPT !.held = held, !.wake = wake] BY DEF Reactivate
<1>2. Shape(wake) BY GatherShape
<1> HIDE DEF held, wake
<1> QED BY <1>1, <1>2 DEF Screen, States

\* setTimeoutLocked.
LEMMA SetTimeoutFrame ==
  ASSUME NEW st \in States, NEW stage
  PROVE  Frame(st, SetTimeout(st, stage))
BY DEF Frame, Screen, SetTimeout, States

\* userActivity; the second case is a screen whose fade was just cancelled.
LEMMA UserActivityPanel ==
  ASSUME NEW st, Good(st), Shapes(st), NEW noChangeLights \in BOOLEAN, NEW stage \in Stages,
         Panel(st) \/ ("on" \notin st.power /\ ~TurningOff(st))
  PROVE  Panel(UserActivity(st, noChangeLights, stage))
<1> DEFINE woken == Reactivate(st)
<1> DEFINE user == woken.user \cup Level["bright"]
<1> DEFINE r == [woken EXCEPT !.user = user]
<1> DEFINE new == r.user \cup r.wake
<1> DEFINE wanted == IF noChangeLights THEN KeepLights(r, new) ELSE new
<1> DEFINE set == SetPowerState(r, wanted, User)
<1>1. UserActivity(st, noChangeLights, stage) = IF TurningOff(st) THEN st ELSE SetTimeout(set, stage)
  BY DEF UserActivity
<1>2. CASE TurningOff(st) BY <1>1, <1>2 DEF Panel
<1>3. CASE ~TurningOff(st)
  <2>1. Same(st, woken) BY ReactivateSame DEF Good
  <2>2. Shape(woken.wake) /\ woken.user = st.user /\ Screen(st, woken)
    BY ReactivateShape DEF Good
  <2> HIDE DEF woken
  <2>3. Shape(user) /\ "on" \in user /\ "bright" \in user
    BY <2>2 DEF Shapes, Shape, Powers, Level
  <2> HIDE DEF user
  <2>4. Same(st, r) BY <2>1, <2>3 DEF Same, States, Shape
  <2>5. r.user = user /\ r.wake = woken.wake /\ Screen(st, r)
    BY <2>1, <2>2 DEF Same, Screen, States
  <2> HIDE DEF r
  <2>6. Good(r) BY <2>4, SameKeeps DEF Keeps
  <2>7. Shapes(r) BY <2>2, <2>3, <2>5 DEF Shapes, Screen
  <2>8. Shape(new) /\ "on" \in new BY <2>2, <2>3, <2>5 DEF Shape, Powers
  <2> HIDE DEF new
  <2>9. Shape(wanted) /\ "on" \in wanted
    <3>1. Shape(KeepLights(r, new)) /\ "on" \in KeepLights(r, new)
      BY <2>7, <2>8 DEF KeepLights, Shapes, Shape, Powers
    <3> QED BY <2>8, <3>1
  <2> HIDE DEF wanted
  <2>10. Panel(r) \/ ("on" \notin r.power /\ "on" \in wanted)
    BY <2>2, <2>3, <2>5, <2>9, ScreenPanel DEF Screen
  <2>11. Panel(set) BY <2>6, <2>7, <2>9, <2>10, SetPowerStatePanel DEF OffReasons
  <2>12. set \in States BY <2>6, <2>9, SetPowerStateKeeps DEF Keeps, Good, Shape, OffReasons
  <2> HIDE DEF set
  <2> QED BY <1>1, <1>3, <2>11, <2>12, SetTimeoutFrame, FramePanel
<1> QED BY <1>2, <1>3

\* forceUserActivityLocked: a fade to off that is cancelled is followed by the
\* screen turning on, in the same section.
LEMMA ForceUserActivityPanel ==
  ASSUME NEW st, Good(st), Panel(st)
  PROVE  Panel(ForceUserActivity(st))
<1> DEFINE goes == st.animating /\ ~TurningOff(st)
<1> DEFINE stopped == [st EXCEPT !.animating = goes]
<1>1. ForceUserActivity(st) = UserActivity(stopped, FALSE, "bright") BY DEF ForceUserActivity
<1>2. goes \in BOOLEAN BY DEF Good, States
<1>3. goes = (st.animating /\ st.target # "off") BY DEF TurningOff
<1> HIDE DEF goes
<1>4. /\ Same(st, stopped) /\ stopped.animating = goes
      /\ stopped.user = st.user /\ stopped.wake = st.wake /\ stopped.power = st.power
      /\ stopped.target = st.target /\ stopped.panel = st.panel
      /\ stopped.zero = st.zero /\ stopped.zeroed = st.zeroed
  BY <1>2 DEF Good, Same, States
<1> HIDE DEF stopped
<1>5. Good(stopped) /\ Shapes(stopped) BY <1>4, SameKeeps DEF Keeps, Panel, Shapes
<1>6. "bright" \in Stages BY DEF Stages, Level
<1>7. Panel(stopped) \/ ("on" \notin stopped.power /\ ~TurningOff(stopped))
  BY <1>3, <1>4 DEF Panel, Shapes, TurningOff
<1> QED BY <1>1, <1>5, <1>6, <1>7, UserActivityPanel

\* goToSleepLocked.
LEMMA GoToSleepPanel ==
  ASSUME NEW st, Good(st), Panel(st), NEW why \in OffReasons
  PROVE  Panel(GoToSleep(st, why))
<1> DEFINE held == [l \in Locks |-> IF st.held[l] = "free" THEN "free" ELSE "deactivated"]
<1> DEFINE dark == Level["off"]
<1> DEFINE asleep == [st EXCEPT !.held = held, !.wake = dark, !.user = dark, !.owed = TRUE]
<1> DEFINE set == SetPowerState(asleep, dark, why)
<1> DEFINE new == [set EXCEPT !.timer = FALSE, !.next = "none"]
<1>1. GoToSleep(st, why) = new BY DEF GoToSleep
<1>2. held \in Held BY DEF Held
<1>3. Shape(dark) BY DEF Level, Powers, Shape
<1> HIDE DEF held, dark
<1>4. Same(st, asleep) /\ asleep.user = dark /\ asleep.wake = dark /\ Screen(st, asleep)
  BY <1>2, <1>3 DEF Good, Same, Screen, States, Held, Shape
<1> HIDE DEF asleep
<1>5. Good(asleep) /\ Panel(asleep)
  BY <1>3, <1>4, SameKeeps, ScreenPanel DEF Keeps
<1>6. Panel(set) BY <1>3, <1>5, SetPowerStatePanel DEF Panel
<1>7. set \in States BY <1>3, <1>5, SetPowerStateKeeps DEF Keeps, Good, Shape
<1> HIDE DEF set
<1>8. Frame(set, new) BY <1>7 DEF Frame, Screen, States
<1> QED BY <1>1, <1>6, <1>8, FramePanel

\* acquireWakeLockLocked.
LEMMA AcquirePanel ==
  ASSUME NEW st, Good(st), Panel(st), NEW l \in Locks
  PROVE  Panel(Acquire(st, l))
<1> DEFINE lock == IF st.held[l] = "free" THEN "activated" ELSE st.held[l]
<1> DEFINE held == [st.held EXCEPT ![l] = lock]
<1> DEFINE listed == [st EXCEPT !.held = held]
<1> DEFINE some == (st.user \cup listed.wake) \cap GatherState(listed.held)
<1> DEFINE masked == [listed EXCEPT !.wake = some]
<1> DEFINE woken == Reactivate(listed)
<1> DEFINE taken == IF Flags[l].wakes THEN woken ELSE masked
<1> DEFINE wanted == taken.wake \cup taken.user
<1>1. Acquire(st, l) = SetPowerState(taken, wanted, TimedOut) BY DEF Acquire
<1>2. held \in Held BY DEF Good, States, Held
<1> HIDE DEF held
<1>3. Same(st, listed) /\ Frame(st, listed) BY <1>2 DEF Good, Same, Frame, Screen, States, Held
<1>4. Shape(some) BY <1>3, GatherShape, ShapeOps DEF Frame, Panel, Shapes
<1> HIDE DEF listed, some
<1>5. Same(listed, masked) /\ Panel(masked)
  <2>1. /\ Same(listed, masked) /\ masked.wake = some /\ masked.user = listed.user
        /\ Screen(listed, masked)
    BY <1>3, <1>4 DEF Same, Screen, States, Shape
  <2>2. Panel(listed) BY <1>3, FramePanel
  <2>3. Shape(listed.user) BY <2>2 DEF Panel, Shapes
  <2> QED BY <1>4, <2>1, <2>2, <2>3, ScreenPanel
<1> HIDE DEF masked
<1>6. Same(listed, woken) /\ Panel(woken)
  <2>1. listed \in States BY <1>3 DEF Same
  <2>2. Shape(woken.wake) /\ woken.user = listed.user /\ Screen(listed, woken)
    BY <2>1, ReactivateShape
  <2>3. Same(listed, woken) BY <2>1, ReactivateSame
  <2> HIDE DEF woken
  <2>4. Panel(listed) BY <1>3, FramePanel
  <2>5. Shape(listed.user) BY <2>4 DEF Panel, Shapes
  <2> QED BY <2>2, <2>3, <2>4, <2>5, ScreenPanel
<1> HIDE DEF woken
<1>7. Same(st, taken) /\ Panel(taken) BY <1>3, <1>5, <1>6 DEF Same
<1> HIDE DEF taken
<1>8. Good(taken) BY <1>7, SameKeeps DEF Keeps
<1>9. Shape(wanted) BY <1>7, ShapeOps DEF Panel, Shapes
<1> QED BY <1>1, <1>7, <1>8, <1>9, SetPowerStatePanel DEF Panel, OffReasons

\* releaseWakeLockLocked.
LEMMA ReleasePanel ==
  ASSUME NEW st, Good(st), Panel(st), NEW l \in Locks, NEW active \in BOOLEAN
  PROVE  Panel(Release(st, l, active))
<1> DEFINE held == [st.held EXCEPT ![l] = "free"]
<1> DEFINE wake == GatherState(held)
<1> DEFINE freed == [st EXCEPT !.held = held, !.wake = wake]
<1> DEFINE after == IF Flags[l].after /\ active THEN UserActivity(freed, FALSE, "bright") ELSE freed
<1> DEFINE wanted == after.wake \cup after.user
<1>1. Release(st, l, active) = SetPowerState(after, wanted, TimedOut) BY DEF Release
<1>2. held \in Held BY DEF Good, States, Held
<1>3. Shape(wake) BY GatherShape
<1> HIDE DEF held, wake
<1>4. Same(st, freed) /\ freed.wake = wake /\ freed.user = st.user /\ Screen(st, freed)
  BY <1>2, <1>3 DEF Good, Same, Screen, States, Held, Shape
<1> HIDE DEF freed
<1>5. Good(freed) /\ Panel(freed)
  <2>1. Shape(freed.user) BY <1>4 DEF Panel, Shapes
  <2> QED BY <1>3, <1>4, <2>1, SameKeeps, ScreenPanel DEF Keeps
<1>6. "bright" \in Stages BY DEF Stages, Level
<1>7. Panel(UserActivity(freed, FALSE, "bright"))
  BY <1>5, <1>6, UserActivityPanel DEF Panel
<1>8. Good(UserActivity(freed, FALSE, "bright"))
  BY <1>5, <1>6, UserActivityKeeps DEF Keeps
<1>9. Good(after) /\ Panel(after) BY <1>5, <1>7, <1>8
<1> HIDE DEF after
<1>10. Shape(wanted) BY <1>9, ShapeOps DEF Panel, Shapes
<1> QED BY <1>1, <1>9, <1>10, SetPowerStatePanel DEF Panel, OffReasons

\* TimeoutTask.run.
LEMMA TimeoutPanel ==
  ASSUME NEW st, Good(st), Panel(st), NEW dims \in BOOLEAN
  PROVE  Panel(Timeout(st, dims))
<1>1. CASE st.next = "none" BY <1>1 DEF Timeout
<1>2. CASE st.next # "none"
  <2> DEFINE user == Level[st.next]
  <2> DEFINE over == [st EXCEPT !.user = user]
  <2> DEFINE wanted == over.user \cup over.wake
  <2> DEFINE set == SetPowerState(over, wanted, TimedOut)
  <2> DEFINE stage == IF st.next = "bright" /\ dims THEN "dim" ELSE "off"
  <2>1. Timeout(st, dims) = IF st.next = "off" THEN set ELSE SetTimeout(set, stage)
    BY <1>2 DEF Timeout
  <2>2. st.next \in Stages BY <1>2 DEF Good, States
  <2>3. Shape(user) BY <2>2, ShapeOps
  <2> HIDE DEF user
  <2>4. Same(st, over) /\ over.user = user /\ over.wake = st.wake /\ Screen(st, over)
    BY <2>3 DEF Good, Same, Screen, States, Shape
  <2> HIDE DEF over
  <2>5. Good(over) /\ Panel(over)
    <3>1. Shape(over.wake) BY <2>4 DEF Panel, Shapes
    <3> QED BY <2>3, <2>4, <3>1, SameKeeps, ScreenPanel DEF Keeps
  <2>6. Shape(wanted) BY <2>5, ShapeOps DEF Panel, Shapes
  <2> HIDE DEF wanted
  <2>7. Panel(set) BY <2>5, <2>6, SetPowerStatePanel DEF Panel, OffReasons
  <2>8. set \in States BY <2>5, <2>6, SetPowerStateKeeps DEF Keeps, Good, Shape, OffReasons
  <2> HIDE DEF set, stage
  <2> QED BY <2>1, <2>7, <2>8, SetTimeoutFrame, FramePanel
<1> QED BY <1>1, <1>2

\* The fade ends: to off only under a screen that is off.
LEMMA FinishFadePanel ==
  ASSUME NEW st, Good(st), Panel(st)
  PROVE  Panel(FinishFade(st))
<1> DEFINE target == IF st.animates THEN st.target ELSE "unset"
<1> DEFINE still == [st EXCEPT !.animating = FALSE, !.posted = FALSE, !.target = target]
<1> DEFINE ends == st.target = "off" /\ (st.animating \/ ~st.animates)
<1>1. FinishFade(st) = IF ends THEN ScreenOffFinished(still, st.reason) ELSE still
  BY DEF FinishFade
<1>2. target \in Stages \cup {"unset"} /\ (target = "off" => st.target = "off")
  BY DEF Good, States
<1> HIDE DEF target
<1>3. /\ Same(st, still) /\ still.user = st.user /\ still.wake = st.wake /\ still.power = st.power
      /\ still.target = target /\ still.animating = FALSE /\ still.panel = st.panel
      /\ still.zero = st.zero /\ still.zeroed = st.zeroed /\ still.halted = st.halted
  BY <1>2 DEF Good, Same, States
<1> HIDE DEF still
<1>4. Good(still) /\ Shapes(still) /\ ~TurningOff(still)
  BY <1>3, SameKeeps DEF Keeps, Panel, Shapes, TurningOff
<1>5. CASE ends
  <2>1. "on" \in still.power => still.zeroed BY <1>3, <1>5 DEF Panel
  <2>2. st.reason \in OffReasons BY DEF Good, States, OffReasons
  <2> QED BY <1>1, <1>4, <1>5, <2>1, <2>2, ScreenOffFinishedPanel
<1>6. CASE ~ends
  <2>1. ~TurningOff(st) BY <1>6 DEF TurningOff
  <2>2. "on" \in still.power /\ ~still.zeroed => ~still.zero /\ still.target # "off"
    BY <1>2, <1>3 DEF Panel
  <2> QED BY <1>1, <1>3, <1>4, <1>6, <2>1, <2>2 DEF Panel
<1> QED BY <1>5, <1>6

\* An override of 0 is remembered until the screen is turned on again.
LEMMA SetBrightnessOverridePanel ==
  ASSUME NEW st, Good(st), Panel(st), NEW zero \in BOOLEAN
  PROVE  Panel(SetBrightnessOverride(st, zero))
<1> DEFINE was == st.zeroed \/ (zero /\ "on" \in st.power)
<1> DEFINE set == [st EXCEPT !.zero = zero, !.zeroed = was]
<1> DEFINE l == LevelName(st.power, zero)
<1> DEFINE after == IF "on" \in st.power THEN SetTarget(set, l) ELSE set
<1>1. SetBrightnessOverride(st, zero) = after BY DEF SetBrightnessOverride
<1>2. l \in Stages /\ ("on" \in st.power /\ ~zero => l # "off")
  BY LevelNames DEF Panel, Shapes
<1>3. was = (st.zeroed \/ (zero /\ "on" \in st.power)) OBVIOUS
<1> HIDE DEF was, l
<1>4. /\ set.user = st.user /\ set.wake = st.wake /\ set.power = st.power
      /\ set.panel = st.panel /\ set.target = st.target /\ set.animating = st.animating
      /\ set.zero = zero /\ set.zeroed = was /\ set.halted = st.halted
      /\ set \in States
  <2>1. was \in BOOLEAN BY <1>3 DEF Good, States
  <2> QED BY <2>1 DEF Good, States
<1>5. /\ after.user = st.user /\ after.wake = st.wake /\ after.power = st.power
      /\ after.panel = st.panel /\ after.zero = zero /\ after.zeroed = was
      /\ after.halted = st.halted
      /\ "on" \in st.power => after.target = l
      /\ "on" \notin st.power => after.target = st.target /\ after.animating = st.animating
  <2> HIDE DEF set
  <2>1. CASE "on" \in st.power
    <3> DEFINE aimed == SetTarget(set, l)
    <3>1. /\ aimed.user = set.user /\ aimed.wake = set.wake /\ aimed.power = set.power
          /\ aimed.panel = set.panel /\ aimed.zero = set.zero /\ aimed.zeroed = set.zeroed
          /\ aimed.halted = set.halted /\ aimed.target = l
      <4>1. set \in States BY <1>4
      <4> QED BY <4>1 DEF SetTarget, States
    <3>2. after = aimed BY <2>1
    <3> HIDE DEF aimed, after
    <3> QED BY <1>4, <2>1, <3>1, <3>2
  <2>2. CASE "on" \notin st.power BY <1>4, <2>2
  <2> QED BY <2>1, <2>2
<1> HIDE DEF after
<1> QED BY <1>1, <1>2, <1>3, <1>5 DEF Panel, Shapes, TurningOff

\* A backlight call that stops the last fade of a screen turned off is too.
LEMMA SetBacklightPanel ==
  ASSUME NEW st, Good(st), Panel(st)
  PROVE  Panel(SetBacklight(st))
<1> DEFINE left == st.halted \/ (TurningOff(st) /\ "on" \notin st.power)
<1> DEFINE new == [st EXCEPT !.target = "unset", !.animating = FALSE, !.halted = left]
<1>1. SetBacklight(st) = new BY DEF SetBacklight
<1>2. /\ new.user = st.user /\ new.wake = st.wake /\ new.power = st.power
      /\ new.panel = st.panel /\ new.target = "unset" /\ new.animating = FALSE
      /\ new.zero = st.zero /\ new.zeroed = st.zeroed /\ new.halted = left
  BY DEF Good, States
<1>3. left <=> st.halted \/ (TurningOff(st) /\ "on" \notin st.power) OBVIOUS
<1> HIDE DEF left, new
<1>4. ~TurningOff(new) BY <1>2 DEF TurningOff
<1> QED BY <1>1, <1>2, <1>3, <1>4 DEF Panel, Shapes

(***************************************************************************)
(* The theorem.                                                            *)
(***************************************************************************)
LEMMA InitPanel == Init => Panel(s)
<1> SUFFICES ASSUME Init PROVE Panel(s)
  OBVIOUS
<1>1. /\ s.user = Level["bright"] /\ s.wake = Level["off"] /\ s.power = Level["bright"]
      /\ s.target = "bright" /\ s.animating = FALSE /\ s.panel = TRUE /\ s.zero = FALSE
  BY DEF Init
<1> QED BY <1>1 DEF Panel, Shapes, Shape, Powers, Level, TurningOff

LEMMA NextPanel == Inv /\ Panel(s) /\ [Next]_vars => Panel(s)'
<1> SUFFICES ASSUME Inv, Panel(s), [Next]_vars PROVE Panel(s')
  OBVIOUS
<1>1. s \in States /\ Good(s) BY DEF Inv, TypeOK, Good
<1>2. "bright" \in Stages BY DEF Stages, Level
<1>3. CASE CallUserActivity
  BY <1>1, <1>2, <1>3, UserActivityPanel DEF CallUserActivity, Panel
<1>4. CASE CallForceUserActivity BY <1>1, <1>4, ForceUserActivityPanel DEF CallForceUserActivity
<1>5. CASE CallGoToSleep BY <1>1, <1>5, GoToSleepPanel DEF CallGoToSleep, OffReasons
<1>6. CASE CallAcquire BY <1>1, <1>6, AcquirePanel DEF CallAcquire
<1>7. CASE CallRelease BY <1>1, <1>7, ReleasePanel DEF CallRelease
<1>8. CASE TimerFires
  <2>1. Frame(s, s') BY <1>1, <1>8 DEF TimerFires, Frame, Screen, States
  <2> QED BY <2>1, FramePanel
<1>9. CASE TimeoutRuns BY <1>1, <1>9, TimeoutPanel DEF TimeoutRuns
<1>10. CASE TakeNotification
  <2>1. Frame(s, s') BY <1>1, <1>10 DEF TakeNotification, Frame, Screen, States
  <2> QED BY <2>1, FramePanel
<1>11. CASE TellPolicy
  <2>1. Frame(s, s') BY <1>1, <1>11 DEF TellPolicy, Frame, Screen, States
  <2> QED BY <2>1, FramePanel
<1>12. CASE BroadcastDone
  <2>1. Frame(s, s') BY <1>1, <1>12 DEF BroadcastDone, Frame, Screen, States
  <2> QED BY <2>1, FramePanel
<1>13. CASE FadeEnds BY <1>1, <1>13, FinishFadePanel DEF FadeEnds
<1>14. CASE UNCHANGED vars BY <1>14 DEF vars
<1>15. CASE CallSetBrightnessOverride
  BY <1>1, <1>15, SetBrightnessOverridePanel DEF CallSetBrightnessOverride
<1>16. CASE CallSetBacklight BY <1>1, <1>16, SetBacklightPanel DEF CallSetBacklight
<1> QED BY <1>3, <1>4, <1>5, <1>6, <1>7, <1>8, <1>9, <1>10, <1>11, <1>12, <1>13, <1>14,
           <1>15, <1>16
        DEF Next, Call, Handle

LEMMA SpecPanel == Spec => []Panel(s)
<1>1. Init => Panel(s) BY InitPanel
<1>2. Inv /\ Panel(s) /\ [Next]_vars => Panel(s)' BY NextPanel
<1> QED BY <1>1, <1>2, SpecInv, PTL DEF Spec

\* For any locks and any number of calls, the panel is lit exactly while the power
\* state says on or a fade to off is under way: no fade, time-out or cancelled
\* fade leaves the two apart, only an override of 0 and a backlight set in a fade.
THEOREM PanelCorrect == Spec => []PanelFollowsState
<1>1. Panel(s) => PanelFollowsState BY DEF Panel, PanelFollowsState
<1> QED BY <1>1, SpecPanel, PTL

(***************************************************************************)
(* A screen that is on and lit is told.  Whatever turns it on puts an "on" *)
(* last in the queue, and nothing after it is said of a screen that stays  *)
(* on: the last thing the policy is to hear, or has heard, is the          *)
(* inductive invariant, whatever the queue was collapsed to.               *)
(***************************************************************************)
Shown(st) == "on" \in st.power /\ st.panel

\* The last entry of a queue, if there is one, tells of a screen turned on.
SaysOn(q) == q # <<>> /\ q[Len(q)].on

\* What the policy will have heard last once the entry being told is told.
Told == IF handler.doing = "tell" THEN handler.entry.on ELSE heard = "on"

\* What the policy will have heard last when the queue is empty.
Heard == Shown(s) => SaysOn(s.queue) \/ (s.queue = <<>> /\ Told)

\* What a critical section does to the queue of a screen that it leaves shown.
Tells(st, new) ==
  Shown(new) => (Shown(st) /\ new.queue = st.queue) \/ SaysOn(new.queue)

LEMMA TellsOn ==
  ASSUME NEW a, NEW b, NEW c, Tells(a, b), Tells(b, c)
  PROVE  Tells(a, c)
BY DEF Tells

\* Whatever the queue was collapsed to, an "on" sent is last in it.
LEMMA SendSaysOn ==
  ASSUME NEW st, Good(st), NEW why \in Whys
  PROVE  SaysOn(Send(st, TRUE, why).queue)
<1> DEFINE e == [on |-> TRUE, why |-> why]
<1> DEFINE q == Append(st.queue, e)
<1>1. /\ st.queue \in Seq(Notifications) /\ Len(st.queue) \in Nat /\ st \in States
  <2>1. st \in States BY DEF Good
  <2>2. st.queue \in Seq(Notifications) BY <2>1 DEF States
  <2> QED BY <2>1, <2>2
<1>2. q # <<>> /\ q[Len(q)] = e /\ e.on
  <2>1. e \in Notifications BY DEF Notifications, Whys, OffReasons
  <2>2. e.on OBVIOUS
  <2> HIDE DEF e
  <2>3. Len(q) = Len(st.queue) + 1 BY <1>1, <2>1
  <2>4. q[Len(st.queue) + 1] = e BY <1>1, <2>1
  <2> QED BY <1>1, <2>2, <2>3, <2>4
<1>3. CASE Len(q) = 3
  <2> DEFINE first == [on |-> TRUE, why |-> IF ~TRUE /\ q[1].why > why THEN why ELSE q[1].why]
  <2>1. Send(st, TRUE, why).queue = <<first>> BY <1>1, <1>3 DEF Send, States
  <2>2. first.on OBVIOUS
  <2> HIDE DEF first
  <2>3. <<first>> # <<>> /\ Len(<<first>>) = 1 /\ <<first>>[1] = first OBVIOUS
  <2> QED BY <2>1, <2>2, <2>3 DEF SaysOn
<1>4. CASE Len(q) # 3
  <2>1. Send(st, TRUE, why).queue = q BY <1>1, <1>4 DEF Send, States
  <2> HIDE DEF q, e
  <2> QED BY <1>2, <2>1 DEF SaysOn
<1> QED BY <1>3, <1>4

\* setPowerState, and what else the proofs need to know of what it leaves: the
\* power state is on if and only if it is to be.
LEMMA SetPowerStateTells ==
  ASSUME NEW st, Good(st), NEW new \in Powers, NEW why \in OffReasons
  PROVE  /\ Tells(st, SetPowerState(st, new, why))
         /\ "on" \in SetPowerState(st, new, why).power <=> "on" \in new
<1> DEFINE aimed == SetTarget(st, LevelName(new, st.zero))
<1> DEFINE bits == (aimed.power \cap {"on"}) \cup (new \cap {"bright"})
<1> DEFINE lit == [aimed EXCEPT !.power = bits]
<1>1. SetPowerState(st, new, why) = IF new = st.power THEN st
                                    ELSE IF "on" \in new \ st.power THEN TurnOn(lit)
                                    ELSE IF "on" \in st.power \ new THEN TurnOff(lit, why)
                                    ELSE lit
  BY DEF SetPowerState
<1>2. Same(st, aimed) BY Levels, SetTargetSame DEF Good
<1>3. aimed.power = st.power /\ aimed.panel = st.panel BY SetTargetAims DEF Good
<1> HIDE DEF aimed
<1>4. bits \in Powers /\ ("on" \in bits <=> "on" \in st.power) BY <1>3 DEF Powers
<1> HIDE DEF bits
<1>5. Same(st, lit) /\ lit.power = bits /\ lit.panel = st.panel
  BY <1>2, <1>3, <1>4 DEF Same, States
<1> HIDE DEF lit
<1>6. Good(lit) BY <1>5, SameKeeps DEF Keeps
<1>7. CASE new = st.power BY <1>1, <1>7 DEF Tells, Shown
<1>8. CASE new # st.power /\ "on" \in new \ st.power
  <2> DEFINE told == IF lit.owed THEN Send(lit, FALSE, User) ELSE lit
  <2> DEFINE up == told.power \cup {"on"}
  <2> DEFINE shown == [told EXCEPT !.panel = TRUE, !.power = up,
                                 !.zeroed = told.zero, !.halted = FALSE]
  <2>1. SetPowerState(st, new, why) = Send(shown, TRUE, NoReason) BY <1>1, <1>8 DEF TurnOn
  <2>2. Good(told)
    <3>1. Good(Send(lit, FALSE, User)) BY <1>6, SendKeeps DEF Keeps, Whys, OffReasons
    <3> QED BY <1>6, <3>1
  <2> HIDE DEF told
  <2>3. up \in Powers /\ "on" \in up BY <2>2 DEF Good, States, Powers
  <2> HIDE DEF up
  <2>4. Same(told, shown) /\ shown.power = up BY <2>2, <2>3 DEF Good, Same, States
  <2> HIDE DEF shown
  <2>5. Good(shown) BY <2>2, <2>4, SameKeeps DEF Keeps
  <2>6. SaysOn(Send(shown, TRUE, NoReason).queue)
    <3>1. NoReason \in Whys BY DEF Whys
    <3> QED BY <2>5, <3>1, SendSaysOn
  <2>7. Send(shown, TRUE, NoReason).power = up
    <3>1. shown \in States BY <2>5 DEF Good
    <3>2. Frame(shown, Send(shown, TRUE, NoReason)) BY <3>1, SendFrame
    <3> QED BY <2>4, <3>2 DEF Frame, Screen
  <2> QED BY <1>8, <2>1, <2>3, <2>6, <2>7 DEF Tells, Shown
<1>9. CASE new # st.power /\ "on" \in st.power \ new
  <2> DEFINE down == lit.power \ {"on"}
  <2> DEFINE dark == [lit EXCEPT !.power = down, !.reason = why]
  <2> DEFINE ended == [dark EXCEPT !.panel = FALSE, !.reason = why]
  <2>1. SetPowerState(st, new, why) = IF dark.animating THEN dark ELSE Send(ended, FALSE, why)
    BY <1>1, <1>9 DEF TurnOff, ScreenOffFinished
  <2>2. down \in Powers /\ "on" \notin down BY <1>6 DEF Good, States, Powers
  <2> HIDE DEF down
  <2>3. dark \in States /\ dark.power = down BY <1>6, <2>2 DEF Good, States, OffReasons
  <2> HIDE DEF dark
  <2>4. ended \in States /\ ended.power = down BY <2>3 DEF States, OffReasons
  <2> HIDE DEF ended
  <2>5. Send(ended, FALSE, why).power = down
    <3>1. Frame(ended, Send(ended, FALSE, why)) BY <2>4, SendFrame
    <3> QED BY <2>4, <3>1 DEF Frame, Screen
  <2> QED BY <1>9, <2>1, <2>2, <2>3, <2>5 DEF Tells, Shown
<1>10. CASE new # st.power /\ ("on" \in new <=> "on" \in st.power)
  <2>1. SetPowerState(st, new, why) = lit BY <1>1, <1>10
  <2> QED BY <1>4, <1>5, <1>10, <2>1 DEF Tells, Shown, Same
<1> QED BY <1>7, <1>8, <1>9, <1>10

\* A section that touches neither the queue nor the power state.
LEMMA QuietTells ==
  ASSUME NEW st, NEW new, Same(st, new), Screen(st, new)
  PROVE  Tells(st, new)
BY DEF Same, Screen, Shown, Tells

\* setPowerState, after another step of the same section.
LEMMA ThenSetPowerStateTells ==
  ASSUME NEW st, NEW mid, Good(mid), Tells(st, mid), NEW new \in Powers, NEW why \in OffReasons
  PROVE  Tells(st, SetPowerState(mid, new, why))
<1>1. Tells(mid, SetPowerState(mid, new, why)) BY SetPowerStateTells
<1> QED BY <1>1, TellsOn

\* setTimeoutLocked, after another step of the same section.
LEMMA SetTimeoutTells ==
  ASSUME NEW st, NEW mid, Good(mid), Tells(st, mid), NEW stage
  PROVE  Tells(st, SetTimeout(mid, stage))
<1>1. /\ SetTimeout(mid, stage).queue = mid.queue
      /\ Shown(SetTimeout(mid, stage)) <=> Shown(mid)
  BY DEF Good, SetTimeout, Shown, States
<1> QED BY <1>1 DEF Tells

\* userActivity.
LEMMA UserActivityTells ==
  ASSUME NEW st, Good(st), NEW noChangeLights \in BOOLEAN, NEW stage \in Stages
  PROVE  Tells(st, UserActivity(st, noChangeLights, stage))
<1> DEFINE woken == Reactivate(st)
<1> DEFINE user == woken.user \cup Level["bright"]
<1> DEFINE r == [woken EXCEPT !.user = user]
<1> DEFINE new == r.user \cup r.wake
<1> DEFINE wanted == IF noChangeLights THEN KeepLights(r, new) ELSE new
<1> DEFINE set == SetPowerState(r, wanted, User)
<1>1. UserActivity(st, noChangeLights, stage) = IF TurningOff(st) THEN st ELSE SetTimeout(set, stage)
  BY DEF UserActivity
<1>2. Same(st, woken) /\ Screen(st, woken) BY ReactivateSame, ReactivateShape DEF Good
<1> HIDE DEF woken
<1>3. user \in Powers BY <1>2 DEF Same, States, Powers, Level
<1> HIDE DEF user
<1>4. Same(st, r) /\ Screen(st, r) BY <1>2, <1>3 DEF Same, Screen, States
<1> HIDE DEF r
<1>5. Good(r) /\ Tells(st, r) BY <1>4, SameKeeps, QuietTells DEF Keeps
<1>6. r.user \in Powers /\ r.wake \in Powers /\ r.power \in Powers BY <1>4 DEF Same, States
<1>7. wanted \in Powers BY <1>6 DEF KeepLights, Powers
<1> HIDE DEF wanted
<1>8. Tells(st, set) BY <1>5, <1>7, ThenSetPowerStateTells DEF OffReasons
<1>9. Good(set) BY <1>5, <1>7, SetPowerStateKeeps DEF Keeps, OffReasons
<1> HIDE DEF set
<1>10. Tells(st, SetTimeout(set, stage)) BY <1>8, <1>9, SetTimeoutTells
<1>11. Tells(st, st) BY DEF Tells
<1> QED BY <1>1, <1>10, <1>11

\* forceUserActivityLocked.
LEMMA ForceUserActivityTells ==
  ASSUME NEW st, Good(st)
  PROVE  Tells(st, ForceUserActivity(st))
<1> DEFINE goes == st.animating /\ ~TurningOff(st)
<1> DEFINE stopped == [st EXCEPT !.animating = goes]
<1>1. ForceUserActivity(st) = UserActivity(stopped, FALSE, "bright") BY DEF ForceUserActivity
<1>2. goes \in BOOLEAN BY DEF Good, States
<1> HIDE DEF goes
<1>3. /\ Same(st, stopped) /\ stopped.power = st.power /\ stopped.panel = st.panel
      /\ stopped.queue = st.queue
  BY <1>2 DEF Good, Same, States
<1> HIDE DEF stopped
<1>4. Good(stopped) /\ Tells(st, stopped) BY <1>3, SameKeeps DEF Keeps, Tells, Shown
<1>5. "bright" \in Stages BY DEF Stages, Level
<1>6. Tells(stopped, UserActivity(stopped, FALSE, "bright")) BY <1>4, <1>5, UserActivityTells
<1> QED BY <1>1, <1>4, <1>6, TellsOn

\* goToSleepLocked leaves no screen on.
LEMMA GoToSleepTells ==
  ASSUME NEW st, Good(st), NEW why \in OffReasons
  PROVE  Tells(st, GoToSleep(st, why))
<1> DEFINE held == [l \in Locks |-> IF st.held[l] = "free" THEN "free" ELSE "deactivated"]
<1> DEFINE dark == Level["off"]
<1> DEFINE asleep == [st EXCEPT !.held = held, !.wake = dark, !.user = dark, !.owed = TRUE]
<1> DEFINE set == SetPowerState(asleep, dark, why)
<1> DEFINE new == [set EXCEPT !.timer = FALSE, !.next = "none"]
<1>1. GoToSleep(st, why) = new BY DEF GoToSleep
<1>2. held \in Held BY DEF Held
<1>3. dark \in Powers /\ "on" \notin dark BY DEF Level, Powers
<1> HIDE DEF held, dark
<1>4. Same(st, asleep) BY <1>2, <1>3 DEF Good, Same, States, Held
<1> HIDE DEF asleep
<1>5. Good(asleep) BY <1>4, SameKeeps DEF Keeps
<1>6. "on" \notin set.power BY <1>3, <1>5, SetPowerStateTells
<1>7. set \in States BY <1>3, <1>5, SetPowerStateKeeps DEF Keeps, Good
<1> HIDE DEF set
<1>8. "on" \notin new.power BY <1>6, <1>7 DEF States
<1> QED BY <1>1, <1>8 DEF Tells, Shown

\* acquireWakeLockLocked.
LEMMA AcquireTells ==
  ASSUME NEW st, Good(st), NEW l \in Locks
  PROVE  Tells(st, Acquire(st, l))
<1> DEFINE lock == IF st.held[l] = "free" THEN "activated" ELSE st.held[l]
<1> DEFINE held == [st.held EXCEPT ![l] = lock]
<1> DEFINE listed == [st EXCEPT !.held = held]
<1> DEFINE some == (st.user \cup listed.wake) \cap GatherState(listed.held)
<1> DEFINE masked == [listed EXCEPT !.wake = some]
<1> DEFINE woken == Reactivate(listed)
<1> DEFINE taken == IF Flags[l].wakes THEN woken ELSE masked
<1> DEFINE wanted == taken.wake \cup taken.user
<1>1. Acquire(st, l) = SetPowerState(taken, wanted, TimedOut) BY DEF Acquire
<1>2. held \in Held BY DEF Good, States, Held
<1> HIDE DEF held
<1>3. Same(st, listed) /\ Screen(st, listed) BY <1>2 DEF Good, Same, Screen, States, Held
<1>4. some \in Powers BY GatherStatePowers DEF Powers
<1> HIDE DEF listed, some
<1>5. Same(listed, masked) /\ Screen(listed, masked) BY <1>3, <1>4 DEF Same, Screen, States
<1>6. Same(listed, woken) /\ Screen(listed, woken)
  BY <1>3, ReactivateSame, ReactivateShape DEF Same
<1> HIDE DEF masked, woken
<1>7. Same(st, taken) /\ Screen(st, taken) BY <1>3, <1>5, <1>6 DEF Same, Screen
<1> HIDE DEF taken
<1>8. wanted \in Powers BY <1>7 DEF Same, States, Powers
<1> HIDE DEF wanted
<1>9. Good(taken) /\ Tells(st, taken) BY <1>7, SameKeeps, QuietTells DEF Keeps
<1> QED BY <1>1, <1>8, <1>9, ThenSetPowerStateTells DEF OffReasons

\* releaseWakeLockLocked.
LEMMA ReleaseTells ==
  ASSUME NEW st, Good(st), NEW l \in Locks, NEW active \in BOOLEAN
  PROVE  Tells(st, Release(st, l, active))
<1> DEFINE held == [st.held EXCEPT ![l] = "free"]
<1> DEFINE wake == GatherState(held)
<1> DEFINE freed == [st EXCEPT !.held = held, !.wake = wake]
<1> DEFINE after == IF Flags[l].after /\ active THEN UserActivity(freed, FALSE, "bright") ELSE freed
<1> DEFINE wanted == after.wake \cup after.user
<1>1. Release(st, l, active) = SetPowerState(after, wanted, TimedOut) BY DEF Release
<1>2. held \in Held BY DEF Good, States, Held
<1>3. wake \in Powers BY GatherStatePowers
<1> HIDE DEF held, wake
<1>4. Same(st, freed) /\ Screen(st, freed) BY <1>2, <1>3 DEF Good, Same, Screen, States, Held
<1> HIDE DEF freed
<1>5. Good(freed) /\ Tells(st, freed) BY <1>4, SameKeeps, QuietTells DEF Keeps
<1>6. "bright" \in Stages BY DEF Stages, Level
<1>7. Tells(freed, UserActivity(freed, FALSE, "bright")) BY <1>5, <1>6, UserActivityTells
<1>8. Good(UserActivity(freed, FALSE, "bright")) BY <1>5, <1>6, UserActivityKeeps DEF Keeps
<1>9. Good(after) /\ Tells(st, after) BY <1>5, <1>7, <1>8, TellsOn
<1> HIDE DEF after
<1>10. wanted \in Powers BY <1>9 DEF Good, States, Powers
<1> HIDE DEF wanted
<1> QED BY <1>1, <1>9, <1>10, ThenSetPowerStateTells DEF OffReasons

\* TimeoutTask.run.
LEMMA TimeoutTells ==
  ASSUME NEW st, Good(st), NEW dims \in BOOLEAN
  PROVE  Tells(st, Timeout(st, dims))
<1>1. CASE st.next = "none" BY <1>1 DEF Timeout, Tells
<1>2. CASE st.next # "none"
  <2> DEFINE user == Level[st.next]
  <2> DEFINE over == [st EXCEPT !.user = user]
  <2> DEFINE wanted == over.user \cup over.wake
  <2> DEFINE set == SetPowerState(over, wanted, TimedOut)
  <2> DEFINE stage == IF st.next = "bright" /\ dims THEN "dim" ELSE "off"
  <2>1. Timeout(st, dims) = IF st.next = "off" THEN set ELSE SetTimeout(set, stage)
    BY <1>2 DEF Timeout
  <2>2. user \in Powers BY <1>2, Levels DEF Good, States
  <2> HIDE DEF user
  <2>3. Same(st, over) /\ Screen(st, over) BY <2>2 DEF Good, Same, Screen, States
  <2> HIDE DEF over
  <2>4. Good(over) /\ Tells(st, over) BY <2>3, SameKeeps, QuietTells DEF Keeps
  <2>5. wanted \in Powers BY <2>3 DEF Same, States, Powers
  <2> HIDE DEF wanted
  <2>6. Tells(st, set) BY <2>4, <2>5, ThenSetPowerStateTells DEF OffReasons
  <2>7. Good(set) BY <2>4, <2>5, SetPowerStateKeeps DEF Keeps, OffReasons
  <2> HIDE DEF set, stage
  <2> QED BY <2>1, <2>6, <2>7, SetTimeoutTells
<1> QED BY <1>1, <1>2

\* The fade ends; one to off leaves no screen shown.
LEMMA FinishFadeTells ==
  ASSUME NEW st, Good(st)
  PROVE  Tells(st, FinishFade(st))
<1> DEFINE target == IF st.animates THEN st.target ELSE "unset"
<1> DEFINE still == [st EXCEPT !.animating = FALSE, !.posted = FALSE, !.target = target]
<1> DEFINE dark == [still EXCEPT !.panel = FALSE, !.reason = st.reason]
<1>1. FinishFade(st) = IF st.target = "off" /\ (st.animating \/ ~st.animates)
                         THEN Send(dark, FALSE, st.reason) ELSE still
  BY DEF FinishFade, ScreenOffFinished
<1>2. target \in Stages \cup {"unset"} BY DEF Good, States
<1> HIDE DEF target
<1>3. /\ Same(st, still) /\ still.power = st.power /\ still.panel = st.panel
      /\ still.queue = st.queue
  BY <1>2 DEF Good, Same, States
<1> HIDE DEF still
<1>4. dark \in States /\ dark.panel = FALSE
  <2>1. st.reason \in {User, TimedOut} BY DEF Good, States
  <2> QED BY <1>3, <2>1 DEF Same, States
<1> HIDE DEF dark
<1>5. Send(dark, FALSE, st.reason).panel = FALSE
  <2>1. Frame(dark, Send(dark, FALSE, st.reason)) BY <1>4, SendFrame
  <2> QED BY <1>4, <2>1 DEF Frame, Screen
<1>6. Tells(st, Send(dark, FALSE, st.reason)) BY <1>5 DEF Tells, Shown
<1>7. Tells(st, still) BY <1>3 DEF Tells, Shown
<1> QED BY <1>1, <1>6, <1>7

\* setScreenBrightnessOverride and setBacklightBrightness.
LEMMA BrightnessTells ==
  ASSUME NEW st, Good(st)
  PROVE  /\ \A zero \in BOOLEAN : Tells(st, SetBrightnessOverride(st, zero))
         /\ Tells(st, SetBacklight(st))
<1>1. st \in States BY DEF Good
<1>2. \A zero \in BOOLEAN : /\ SetBrightnessOverride(st, zero).power = st.power
                          /\ SetBrightnessOverride(st, zero).panel = st.panel
  BY <1>1 DEF SetBrightnessOverride, SetTarget, States
<1>3. \A zero \in BOOLEAN : SetBrightnessOverride(st, zero).queue = st.queue
  BY <1>1, SetBrightnessOverrideSame DEF Same
<1>4. /\ SetBacklight(st).power = st.power /\ SetBacklight(st).panel = st.panel
      /\ SetBacklight(st).queue = st.queue
  BY <1>1 DEF SetBacklight, States
<1> QED BY <1>2, <1>3, <1>4 DEF Tells, Shown

\* The last entry of a queue stays the last, or is the one taken.
LEMMA LastLeft ==
  ASSUME NEW q \in Seq(Notifications), q # <<>>, SaysOn(q)
  PROVE  SaysOn(Tail(q)) \/ (Tail(q) = <<>> /\ Head(q).on)
<1> DEFINE rest == Tail(q)
<1>1. /\ rest \in Seq(Notifications) /\ Len(rest) = Len(q) - 1
      /\ \A i \in 1 .. Len(rest) : rest[i] = q[i + 1]
  BY HeadTailProperties
<1>2. Len(q) \in Nat /\ Len(q) # 0 /\ Head(q) = q[1] BY EmptySeq, LenProperties
<1> HIDE DEF rest
<1>3. CASE Len(q) = 1
  <2>1. Len(rest) = 0 BY <1>1, <1>3
  <2>2. rest = <<>> BY <1>1, <2>1, EmptySeq
  <2>3. q[1].on BY <1>3 DEF SaysOn
  <2> QED BY <1>2, <2>2, <2>3 DEF rest
<1>4. CASE Len(q) # 1
  <2>1. Len(rest) \in 1 .. Len(rest) /\ Len(rest) + 1 = Len(q) BY <1>1, <1>2, <1>4
  <2>2. rest[Len(rest)] = q[Len(q)] BY <1>1, <2>1
  <2>3. rest # <<>>
    <3>1. Len(rest) # 0 BY <2>1
    <3> QED BY <3>1, EmptySeq
  <2>4. SaysOn(rest) BY <2>2, <2>3 DEF SaysOn
  <2> QED BY <2>4 DEF rest
<1> QED BY <1>3, <1>4

\* A step that tells nothing itself leaves it right.
LEMMA TellsHeard ==
  ASSUME Heard, Tells(s, s'), UNCHANGED heard,
         handler' = handler \/ (handler.doing # "tell" /\ handler'.doing # "tell")
  PROVE  Heard'
<1>1. Told' <=> Told BY DEF Told
<1> QED BY <1>1 DEF Heard, Tells

LEMMA InitHeard == Init => Heard
BY DEF Init, Heard, Told, Idle

LEMMA NextHeard == Inv /\ Heard /\ [Next]_vars => Heard'
<1> SUFFICES ASSUME Inv, Heard, [Next]_vars PROVE Heard'
  OBVIOUS
<1>1. s \in States /\ Good(s) BY DEF Inv, TypeOK, Good
<1>2. s.queue \in Seq(Notifications) BY <1>1 DEF States
<1>3. "bright" \in Stages BY DEF Stages, Level
<1>4. CASE CallUserActivity
  <2>1. Tells(s, s') BY <1>1, <1>3, <1>4, UserActivityTells DEF CallUserActivity
  <2> QED BY <1>4, <2>1, TellsHeard DEF CallUserActivity, Serve
<1>5. CASE CallForceUserActivity
  <2>1. Tells(s, s') BY <1>1, <1>5, ForceUserActivityTells DEF CallForceUserActivity
  <2> QED BY <1>5, <2>1, TellsHeard DEF CallForceUserActivity, Serve
<1>6. CASE CallGoToSleep
  <2>1. Tells(s, s') BY <1>1, <1>6, GoToSleepTells DEF CallGoToSleep, OffReasons
  <2> QED BY <1>6, <2>1, TellsHeard DEF CallGoToSleep, Serve
<1>7. CASE CallAcquire
  <2>1. Tells(s, s') BY <1>1, <1>7, AcquireTells DEF CallAcquire
  <2> QED BY <1>7, <2>1, TellsHeard DEF CallAcquire, Serve
<1>8. CASE CallRelease
  <2>1. Tells(s, s') BY <1>1, <1>8, ReleaseTells DEF CallRelease
  <2> QED BY <1>8, <2>1, TellsHeard DEF CallRelease, Serve
<1>9. CASE TimerFires
  <2>1. s'.queue = s.queue /\ (Shown(s') <=> Shown(s)) BY <1>1, <1>9 DEF TimerFires, Shown, States
  <2>2. handler.doing # "tell" /\ handler'.doing # "tell" /\ UNCHANGED heard
    BY <1>9 DEF TimerFires, Idle, InTimeout
  <2>3. Tells(s, s') BY <2>1 DEF Tells
  <2> QED BY <2>2, <2>3, TellsHeard
<1>10. CASE TimeoutRuns
  <2>1. Tells(s, s') BY <1>1, <1>10, TimeoutTells DEF TimeoutRuns
  <2>2. handler.doing # "tell" /\ handler'.doing # "tell" /\ UNCHANGED heard
    BY <1>10 DEF TimeoutRuns, Idle, InTimeout
  <2> QED BY <2>1, <2>2, TellsHeard
<1>11. CASE TakeNotification
  <2> DEFINE rest == IF s.queue = <<>> THEN s.queue ELSE Tail(s.queue)
  <2>1. handler.doing # "tell" /\ UNCHANGED heard BY <1>11 DEF TakeNotification, Idle, Looping
  <2>2. s'.queue = rest /\ (Shown(s') <=> Shown(s)) BY <1>1, <1>11 DEF TakeNotification, Shown, States
  <2>3. CASE s.queue = <<>>
    <3>1. handler'.doing # "tell" BY <1>11, <2>3 DEF TakeNotification, Idle
    <3>2. Tells(s, s') BY <2>2, <2>3 DEF Tells
    <3> QED BY <2>1, <3>1, <3>2, TellsHeard
  <2>4. CASE s.queue # <<>>
    <3>1. handler' = Telling(Head(s.queue)) BY <1>11, <2>4 DEF TakeNotification
    <3>2. Told' <=> Head(s.queue).on BY <3>1 DEF Told, Telling
    <3>3. Shown(s') => SaysOn(s.queue) BY <2>2, <2>4 DEF Heard
    <3>4. SaysOn(s.queue) => SaysOn(Tail(s.queue)) \/ (Tail(s.queue) = <<>> /\ Head(s.queue).on)
      BY <1>2, <2>4, LastLeft
    <3> HIDE DEF rest
    <3>5. s'.queue = Tail(s.queue) BY <2>2, <2>4 DEF rest
    <3> QED BY <3>2, <3>3, <3>4, <3>5 DEF Heard
  <2> QED BY <2>3, <2>4
<1>12. CASE TellPolicy
  <2>1. s'.queue = s.queue /\ (Shown(s') <=> Shown(s)) BY <1>1, <1>12 DEF TellPolicy, Shown, States
  <2>2. Told' <=> Told BY <1>12 DEF TellPolicy, Told, Looping
  <2> QED BY <2>1, <2>2 DEF Heard
<1>13. CASE BroadcastDone
  <2>1. s'.queue = s.queue /\ (Shown(s') <=> Shown(s)) BY <1>1, <1>13 DEF BroadcastDone, Shown, States
  <2>2. Tells(s, s') BY <2>1 DEF Tells
  <2> QED BY <1>13, <2>2, TellsHeard DEF BroadcastDone
<1>14. CASE FadeEnds
  <2>1. Tells(s, s') BY <1>1, <1>14, FinishFadeTells DEF FadeEnds
  <2> QED BY <1>14, <2>1, TellsHeard DEF FadeEnds
<1>15. CASE UNCHANGED vars BY <1>15 DEF vars, Heard, Told
<1>16. CASE CallSetBrightnessOverride
  <2>1. Tells(s, s') BY <1>1, <1>16, BrightnessTells DEF CallSetBrightnessOverride
  <2> QED BY <1>16, <2>1, TellsHeard DEF CallSetBrightnessOverride, Serve
<1>17. CASE CallSetBacklight
  <2>1. Tells(s, s') BY <1>1, <1>17, BrightnessTells DEF CallSetBacklight
  <2> QED BY <1>17, <2>1, TellsHeard DEF CallSetBacklight, Serve
<1> QED BY <1>4, <1>5, <1>6, <1>7, <1>8, <1>9, <1>10, <1>11, <1>12, <1>13, <1>14, <1>15,
           <1>16, <1>17
        DEF Next, Call, Handle

\* For any locks and any number of calls, a policy that has nothing more to hear
\* knows of a screen that is on and lit: no collapsing of the queue drops its "on".
THEOREM OnIsAlwaysTold == Spec => []OnIsTold
<1>1. Heard => OnIsTold BY DEF Heard, Told, OnIsTold, Settled, SaysOn, Shown
<1> QED BY <1>1, InitHeard, NextHeard, SpecInv, PTL DEF Spec

(***************************************************************************)
(* A lock keeps the screen on.  Between two sections the power state is on *)
(* exactly when user activity or the wake locks ask for it, a screen that  *)
(* is on is asked for by every active lock, and a time-out that is still   *)
(* to light a screen finds user activity that asks for it.                 *)
(***************************************************************************)
\* The wake locks' power state asks for what the active ones are made for.
Heeds(st) == "on" \in GatherState(st.held) => "on" \in st.wake

\* What mTimeoutTask would make of the user's power state is no more than it is.
Due(st) == "on" \notin st.user => st.next \in {"off", "none"}

Awake(st) ==
  /\ "on" \in st.power <=> "on" \in st.user \cup st.wake
  /\ "on" \in st.power => Heeds(st)
  /\ Due(st)

\* A step that leaves alone what the three are about, the power state aside.
Rests(st, new) ==
  new.user = st.user /\ new.wake = st.wake /\ new.held = st.held /\ new.next = st.next

LEMMA RestsAwake ==
  ASSUME NEW st, NEW new, Rests(st, new), new.power = st.power, Awake(st)
  PROVE  Awake(new)
BY DEF Rests, Awake, Heeds, Due

LEMMA SendRests ==
  ASSUME NEW st \in States, NEW on, NEW why
  PROVE  Rests(st, Send(st, on, why))
<1> DEFINE q == Append(st.queue, [on |-> on, why |-> why])
<1>1. CASE Len(q) = 3 BY <1>1 DEF Send, Rests, States
<1>2. CASE Len(q) # 3 /\ Len(q) = 2 /\ ~on BY <1>2 DEF Send, Rests, States
<1>3. CASE Len(q) # 3 /\ ~(Len(q) = 2 /\ ~on) BY <1>3 DEF Send, Rests, States
<1> QED BY <1>1, <1>2, <1>3

\* setPowerState.
LEMMA SetPowerStateRests ==
  ASSUME NEW st, Good(st), NEW new \in Powers, NEW why \in OffReasons
  PROVE  Rests(st, SetPowerState(st, new, why))
<1> DEFINE aimed == SetTarget(st, LevelName(new, st.zero))
<1> DEFINE bits == (aimed.power \cap {"on"}) \cup (new \cap {"bright"})
<1> DEFINE lit == [aimed EXCEPT !.power = bits]
<1>1. SetPowerState(st, new, why) = IF new = st.power THEN st
                                    ELSE IF "on" \in new \ st.power THEN TurnOn(lit)
                                    ELSE IF "on" \in st.power \ new THEN TurnOff(lit, why)
                                    ELSE lit
  BY DEF SetPowerState
<1>2. Same(st, aimed) BY Levels, SetTargetSame DEF Good
<1>3. Rests(st, aimed) BY DEF Rests, SetTarget, Good, States
<1> HIDE DEF aimed
<1>4. bits \in Powers BY DEF Powers
<1> HIDE DEF bits
<1>5. Same(st, lit) /\ Rests(st, lit) BY <1>2, <1>3, <1>4 DEF Same, Rests, States
<1> HIDE DEF lit
<1>6. Good(lit) BY <1>5, SameKeeps DEF Keeps
<1>7. Rests(lit, TurnOn(lit))
  <2> DEFINE told == IF lit.owed THEN Send(lit, FALSE, User) ELSE lit
  <2> DEFINE up == told.power \cup {"on"}
  <2> DEFINE shown == [told EXCEPT !.panel = TRUE, !.power = up,
                                 !.zeroed = told.zero, !.halted = FALSE]
  <2>1. TurnOn(lit) = Send(shown, TRUE, NoReason) BY DEF TurnOn
  <2>2. told \in States /\ Rests(lit, told)
    <3>1. Good(Send(lit, FALSE, User)) BY <1>6, SendKeeps DEF Keeps, Whys, OffReasons
    <3>2. Rests(lit, Send(lit, FALSE, User)) BY <1>6, SendRests DEF Good
    <3>3. Rests(lit, lit) BY DEF Rests
    <3> QED BY <1>6, <3>1, <3>2, <3>3 DEF Good
  <2> HIDE DEF told
  <2>3. up \in Powers BY <2>2 DEF States, Powers
  <2> HIDE DEF up
  <2>4. shown \in States /\ Rests(lit, shown) BY <2>2, <2>3 DEF Rests, States
  <2> HIDE DEF shown
  <2>5. Rests(shown, Send(shown, TRUE, NoReason)) BY <2>4, SendRests
  <2> QED BY <2>1, <2>4, <2>5 DEF Rests
<1>8. Rests(lit, TurnOff(lit, why))
  <2> DEFINE down == lit.power \ {"on"}
  <2> DEFINE dark == [lit EXCEPT !.power = down, !.reason = why]
  <2> DEFINE ended == [dark EXCEPT !.panel = FALSE, !.reason = why]
  <2>1. TurnOff(lit, why) = IF dark.animating THEN dark ELSE Send(ended, FALSE, why)
    BY DEF TurnOff, ScreenOffFinished
  <2>2. down \in Powers BY <1>6 DEF Good, States, Powers
  <2> HIDE DEF down
  <2>3. dark \in States /\ Rests(lit, dark) BY <1>6, <2>2 DEF Good, Rests, States, OffReasons
  <2> HIDE DEF dark
  <2>4. ended \in States /\ Rests(lit, ended) BY <2>3 DEF Rests, States, OffReasons
  <2> HIDE DEF ended
  <2>5. Rests(ended, Send(ended, FALSE, why)) BY <2>4, SendRests
  <2> QED BY <2>1, <2>3, <2>4, <2>5 DEF Rests
<1>9. Rests(st, st) BY DEF Rests
<1> QED BY <1>1, <1>5, <1>7, <1>8, <1>9 DEF Rests

\* setPowerState with what the user and the wake locks ask for.
LEMMA SetPowerStateAwake ==
  ASSUME NEW st, Good(st), NEW new \in Powers, NEW why \in OffReasons,
         "on" \in new <=> "on" \in st.user \cup st.wake,
         "on" \in new => Heeds(st),
         Due(st)
  PROVE  Awake(SetPowerState(st, new, why))
<1>1. Rests(st, SetPowerState(st, new, why)) BY SetPowerStateRests
<1>2. "on" \in SetPowerState(st, new, why).power <=> "on" \in new BY SetPowerStateTells
<1> QED BY <1>1, <1>2 DEF Rests, Awake, Heeds, Due

\* reactivateScreenLocksLocked, of a state that it leaves well-typed.
LEMMA ReactivateHeeds ==
  ASSUME NEW st \in States
  PROVE  Heeds(Reactivate(st)) /\ Reactivate(st).next = st.next
<1> DEFINE held == [l \in Locks |-> IF st.held[l] = "free" THEN "free" ELSE "activated"]
<1> DEFINE wake == GatherState(held)
<1>1. Reactivate(st) = [st EXCEPT !.held = held, !.wake = wake] BY DEF Reactivate
<1>2. Reactivate(st).held = held /\ Reactivate(st).wake = wake /\ Reactivate(st).next = st.next
  BY <1>1 DEF States
<1> QED BY <1>2 DEF Heeds

\* userActivity: what it does not do is what holds already, and what it does makes
\* the rest hold.
LEMMA UserActivityAwake ==
  ASSUME NEW st, Good(st), Due(st), NEW noChangeLights \in BOOLEAN, NEW stage \in Stages
  PROVE  LET new == UserActivity(st, noChangeLights, stage)
         IN  /\ Awake(st) => Awake(new)
             /\ Heeds(st) => Heeds(new)
             /\ Due(new)
<1> DEFINE woken == Reactivate(st)
<1> DEFINE user == woken.user \cup Level["bright"]
<1> DEFINE r == [woken EXCEPT !.user = user]
<1> DEFINE new == r.user \cup r.wake
<1> DEFINE wanted == IF noChangeLights THEN KeepLights(r, new) ELSE new
<1> DEFINE set == SetPowerState(r, wanted, User)
<1> DEFINE done == SetTimeout(set, stage)
<1>1. UserActivity(st, noChangeLights, stage) = IF TurningOff(st) THEN st ELSE done
  BY DEF UserActivity
<1>2. Same(st, woken) /\ Heeds(woken) BY ReactivateSame, ReactivateHeeds DEF Good
<1> HIDE DEF woken
<1>3. user \in Powers /\ "on" \in user BY <1>2 DEF Same, States, Powers, Level
<1> HIDE DEF user
<1>4. /\ Same(st, r)
      /\ r.user = user /\ r.wake = woken.wake /\ r.held = woken.held
  BY <1>2, <1>3 DEF Same, States
<1> HIDE DEF r
<1>5. Good(r) /\ Heeds(r) /\ Due(r) BY <1>2, <1>3, <1>4, SameKeeps DEF Keeps, Heeds, Due
<1>6. r.user \in Powers /\ r.wake \in Powers /\ r.power \in Powers BY <1>4 DEF Same, States
<1>7. wanted \in Powers /\ "on" \in wanted BY <1>3, <1>4, <1>6 DEF KeepLights, Powers
<1> HIDE DEF wanted
<1>8. Awake(set) /\ Rests(r, set) /\ set \in States
  <2>1. "on" \in r.user \cup r.wake BY <1>3, <1>4
  <2>2. User \in OffReasons BY DEF OffReasons
  <2>3. Awake(set) BY <1>5, <1>7, <2>1, <2>2, SetPowerStateAwake
  <2>4. Rests(r, set) BY <1>5, <1>7, <2>2, SetPowerStateRests
  <2>5. set \in States BY <1>5, <1>7, <2>2, SetPowerStateKeeps DEF Keeps, Good
  <2> QED BY <2>3, <2>4, <2>5
<1>9. Heeds(set) /\ "on" \in set.user BY <1>3, <1>4, <1>5, <1>8 DEF Rests, Heeds
<1> HIDE DEF set
<1>10. /\ done.user = set.user /\ done.wake = set.wake /\ done.held = set.held
       /\ done.power = set.power
  BY <1>8 DEF SetTimeout, States
<1> HIDE DEF done
<1>11. Awake(done) /\ Heeds(done) /\ Due(done) BY <1>8, <1>9, <1>10 DEF Awake, Heeds, Due
<1> QED BY <1>1, <1>11

\* forceUserActivityLocked.
LEMMA ForceUserActivityAwake ==
  ASSUME NEW st, Good(st), Awake(st)
  PROVE  Awake(ForceUserActivity(st))
<1> DEFINE goes == st.animating /\ ~TurningOff(st)
<1> DEFINE stopped == [st EXCEPT !.animating = goes]
<1>1. ForceUserActivity(st) = UserActivity(stopped, FALSE, "bright") BY DEF ForceUserActivity
<1>2. goes \in BOOLEAN BY DEF Good, States
<1> HIDE DEF goes
<1>3. Same(st, stopped) /\ Rests(st, stopped) /\ stopped.power = st.power
  BY <1>2 DEF Good, Same, Rests, States
<1> HIDE DEF stopped
<1>4. Good(stopped) /\ Awake(stopped) BY <1>3, SameKeeps, RestsAwake DEF Keeps
<1>5. "bright" \in Stages BY DEF Stages, Level
<1>6. Due(stopped) BY <1>4 DEF Awake
<1> QED BY <1>1, <1>4, <1>5, <1>6, UserActivityAwake

\* goToSleepLocked.
LEMMA GoToSleepAwake ==
  ASSUME NEW st, Good(st), NEW why \in OffReasons
  PROVE  Awake(GoToSleep(st, why))
<1> DEFINE held == [l \in Locks |-> IF st.held[l] = "free" THEN "free" ELSE "deactivated"]
<1> DEFINE dark == Level["off"]
<1> DEFINE asleep == [st EXCEPT !.held = held, !.wake = dark, !.user = dark, !.owed = TRUE]
<1> DEFINE set == SetPowerState(asleep, dark, why)
<1> DEFINE new == [set EXCEPT !.timer = FALSE, !.next = "none"]
<1>1. GoToSleep(st, why) = new BY DEF GoToSleep
<1>2. held \in Held BY DEF Held
<1>3. dark \in Powers /\ "on" \notin dark BY DEF Level, Powers
<1> HIDE DEF held, dark
<1>4. Same(st, asleep) /\ asleep.user = dark /\ asleep.wake = dark
  BY <1>2, <1>3 DEF Good, Same, States, Held
<1> HIDE DEF asleep
<1>5. Good(asleep) BY <1>4, SameKeeps DEF Keeps
<1>6. /\ set.user = dark /\ set.wake = dark /\ "on" \notin set.power
  BY <1>3, <1>4, <1>5, SetPowerStateTells, SetPowerStateRests DEF Rests
<1>7. set \in States BY <1>3, <1>5, SetPowerStateKeeps DEF Keeps, Good
<1> HIDE DEF set
<1>8. new.user = dark /\ new.wake = dark /\ new.power = set.power /\ new.next = "none"
  BY <1>6, <1>7 DEF States
<1> HIDE DEF new
<1> QED BY <1>1, <1>3, <1>6, <1>8 DEF Awake, Due

\* acquireWakeLockLocked.
LEMMA AcquireAwake ==
  ASSUME NEW st, Good(st), Awake(st), NEW l \in Locks
  PROVE  Awake(Acquire(st, l))
<1> DEFINE lock == IF st.held[l] = "free" THEN "activated" ELSE st.held[l]
<1> DEFINE held == [st.held EXCEPT ![l] = lock]
<1> DEFINE listed == [st EXCEPT !.held = held]
<1> DEFINE some == (st.user \cup listed.wake) \cap GatherState(listed.held)
<1> DEFINE masked == [listed EXCEPT !.wake = some]
<1> DEFINE woken == Reactivate(listed)
<1> DEFINE taken == IF Flags[l].wakes THEN woken ELSE masked
<1> DEFINE wanted == taken.wake \cup taken.user
<1>1. Acquire(st, l) = SetPowerState(taken, wanted, TimedOut) BY DEF Acquire
<1>2. held \in Held BY DEF Good, States, Held
<1> HIDE DEF held
<1>3. /\ Same(st, listed) /\ listed.user = st.user /\ listed.wake = st.wake
      /\ listed.next = st.next
  BY <1>2 DEF Good, Same, States, Held
<1> HIDE DEF listed
<1>4. some \in Powers BY GatherStatePowers DEF Powers
<1>5. /\ Same(listed, masked) /\ masked.user = listed.user /\ masked.next = listed.next
      /\ masked.wake = some /\ masked.held = listed.held
  <2> HIDE DEF some
  <2> QED BY <1>3, <1>4 DEF Same, States
<1> HIDE DEF masked
<1>6. "on" \in masked.wake \cup masked.user => Heeds(masked) BY <1>3, <1>5 DEF Heeds
<1> HIDE DEF some
<1>7. /\ Same(listed, woken) /\ woken.user = listed.user /\ woken.next = listed.next
      /\ Heeds(woken)
  BY <1>3, ReactivateSame, ReactivateShape, ReactivateHeeds DEF Same
<1> HIDE DEF woken
<1>8. /\ Same(st, taken) /\ taken.user = st.user /\ taken.next = st.next
      /\ "on" \in wanted => Heeds(taken)
  BY <1>3, <1>5, <1>6, <1>7 DEF Same
<1> HIDE DEF taken
<1>9. wanted \in Powers /\ ("on" \in wanted <=> "on" \in taken.user \cup taken.wake)
  BY <1>8 DEF Same, States, Powers
<1> HIDE DEF wanted
<1>10. Good(taken) /\ Due(taken) BY <1>8, SameKeeps DEF Keeps, Awake, Due
<1>11. TimedOut \in OffReasons BY DEF OffReasons
<1> QED BY <1>1, <1>8, <1>9, <1>10, <1>11, SetPowerStateAwake

\* releaseWakeLockLocked.
LEMMA ReleaseAwake ==
  ASSUME NEW st, Good(st), Awake(st), NEW l \in Locks, NEW active \in BOOLEAN
  PROVE  Awake(Release(st, l, active))
<1> DEFINE held == [st.held EXCEPT ![l] = "free"]
<1> DEFINE wake == GatherState(held)
<1> DEFINE freed == [st EXCEPT !.held = held, !.wake = wake]
<1> DEFINE used == UserActivity(freed, FALSE, "bright")
<1> DEFINE after == IF Flags[l].after /\ active THEN used ELSE freed
<1> DEFINE wanted == after.wake \cup after.user
<1>1. Release(st, l, active) = SetPowerState(after, wanted, TimedOut) BY DEF Release
<1>2. held \in Held BY DEF Good, States, Held
<1>3. wake \in Powers BY GatherStatePowers
<1>4. /\ Same(st, freed) /\ freed.user = st.user /\ freed.next = st.next /\ Heeds(freed)
  <2>1. freed.wake = GatherState(freed.held) BY DEF Good, States
  <2> HIDE DEF held, wake
  <2>2. Same(st, freed) /\ freed.user = st.user /\ freed.next = st.next
    BY <1>2, <1>3 DEF Good, Same, States, Held
  <2> QED BY <2>1, <2>2 DEF Heeds
<1> HIDE DEF held, wake, freed
<1>5. Good(freed) /\ Due(freed) BY <1>4, SameKeeps DEF Keeps, Awake, Due
<1>6. "bright" \in Stages BY DEF Stages, Level
<1>7. Heeds(used) /\ Due(used) BY <1>4, <1>5, <1>6, UserActivityAwake
<1>8. Good(used) BY <1>5, <1>6, UserActivityKeeps DEF Keeps
<1> HIDE DEF used
<1>9. Good(after) /\ Heeds(after) /\ Due(after) BY <1>4, <1>5, <1>7, <1>8
<1> HIDE DEF after
<1>10. wanted \in Powers /\ ("on" \in wanted <=> "on" \in after.user \cup after.wake)
  BY <1>9 DEF Good, States, Powers
<1> HIDE DEF wanted
<1>11. TimedOut \in OffReasons BY DEF OffReasons
<1> QED BY <1>1, <1>9, <1>10, <1>11, SetPowerStateAwake

\* TimeoutTask.run; a screen that is on stays on while a lock is active.
LEMMA TimeoutAwake ==
  ASSUME NEW st, Good(st), Awake(st), NEW dims \in BOOLEAN
  PROVE  /\ Awake(Timeout(st, dims))
         /\ "on" \in st.power /\ "on" \in GatherState(st.held)
              => "on" \in Timeout(st, dims).power
<1>1. CASE st.next = "none" BY <1>1 DEF Timeout
<1>2. CASE st.next # "none"
  <2> DEFINE user == Level[st.next]
  <2> DEFINE over == [st EXCEPT !.user = user]
  <2> DEFINE wanted == over.user \cup over.wake
  <2> DEFINE set == SetPowerState(over, wanted, TimedOut)
  <2> DEFINE stage == IF st.next = "bright" /\ dims THEN "dim" ELSE "off"
  <2> DEFINE done == SetTimeout(set, stage)
  <2>1. Timeout(st, dims) = IF st.next = "off" THEN set ELSE done BY <1>2 DEF Timeout
  <2>2. user \in Powers /\ ("on" \in user <=> st.next # "off")
    BY <1>2 DEF Good, States, Stages, Level, Powers
  <2> HIDE DEF user
  <2>3. /\ Same(st, over) /\ over.user = user /\ over.wake = st.wake
        /\ over.held = st.held /\ over.next = st.next
    BY <2>2 DEF Good, Same, States
  <2> HIDE DEF over
  <2>4. Good(over) /\ Due(over) BY <2>2, <2>3, SameKeeps DEF Keeps, Due
  <2>5. "on" \in wanted => Heeds(over)
    <3>1. CASE "on" \in st.power BY <2>3, <3>1 DEF Awake, Heeds
    <3>2. CASE "on" \notin st.power
      <4>1. "on" \notin st.wake /\ st.next = "off" BY <1>2, <3>2 DEF Awake, Due
      <4> QED BY <2>2, <2>3, <4>1
    <3> QED BY <3>1, <3>2
  <2>6. "on" \in st.power /\ "on" \in GatherState(st.held) => "on" \in wanted
    BY <2>3 DEF Awake, Heeds
  <2>7. wanted \in Powers /\ ("on" \in wanted <=> "on" \in over.user \cup over.wake)
    BY <2>3 DEF Same, States, Powers
  <2> HIDE DEF wanted
  <2>8. /\ Awake(set) /\ Rests(over, set) /\ set \in States
        /\ "on" \in set.power <=> "on" \in wanted
    <3>1. TimedOut \in OffReasons BY DEF OffReasons
    <3>2. Awake(set) BY <2>4, <2>5, <2>7, <3>1, SetPowerStateAwake
    <3>3. Rests(over, set) BY <2>4, <2>7, <3>1, SetPowerStateRests
    <3>4. "on" \in set.power <=> "on" \in wanted BY <2>4, <2>7, <3>1, SetPowerStateTells
    <3>5. set \in States BY <2>4, <2>7, <3>1, SetPowerStateKeeps DEF Keeps, Good
    <3> QED BY <3>2, <3>3, <3>4, <3>5
  <2> HIDE DEF set, stage
  <2>9. /\ done.user = set.user /\ done.wake = set.wake /\ done.held = set.held
        /\ done.power = set.power
    BY <2>8 DEF SetTimeout, States
  <2> HIDE DEF done
  <2>10. st.next # "off" => Awake(done)
    <3> HAVE st.next # "off"
    <3>1. "on" \in done.user BY <2>2, <2>3, <2>8, <2>9 DEF Rests
    <3> QED BY <2>8, <2>9, <3>1 DEF Awake, Heeds, Due
  <2> QED BY <2>1, <2>6, <2>8, <2>9, <2>10
<1> QED BY <1>1, <1>2

\* setScreenBrightnessOverride and setBacklightBrightness.
LEMMA BrightnessAwake ==
  ASSUME NEW st, Good(st), Awake(st)
  PROVE  /\ \A zero \in BOOLEAN : Awake(SetBrightnessOverride(st, zero))
         /\ Awake(SetBacklight(st))
<1>1. st \in States BY DEF Good
<1>2. \A zero \in BOOLEAN : /\ Rests(st, SetBrightnessOverride(st, zero))
                          /\ SetBrightnessOverride(st, zero).power = st.power
  BY <1>1 DEF SetBrightnessOverride, SetTarget, Rests, States
<1>3. Rests(st, SetBacklight(st)) /\ SetBacklight(st).power = st.power
  BY <1>1 DEF SetBacklight, Rests, States
<1> QED BY <1>2, <1>3, RestsAwake

\* The fade ends.
LEMMA FinishFadeAwake ==
  ASSUME NEW st, Good(st), Awake(st)
  PROVE  Awake(FinishFade(st))
<1> DEFINE target == IF st.animates THEN st.target ELSE "unset"
<1> DEFINE still == [st EXCEPT !.animating = FALSE, !.posted = FALSE, !.target = target]
<1> DEFINE dark == [still EXCEPT !.panel = FALSE, !.reason = st.reason]
<1>1. FinishFade(st) = IF st.target = "off" /\ (st.animating \/ ~st.animates)
                         THEN Send(dark, FALSE, st.reason) ELSE still
  BY DEF FinishFade, ScreenOffFinished
<1>2. target \in Stages \cup {"unset"} BY DEF Good, States
<1> HIDE DEF target
<1>3. Same(st, still) /\ Rests(st, still) /\ still.power = st.power
  BY <1>2 DEF Good, Same, Rests, States
<1> HIDE DEF still
<1>4. dark \in States /\ Rests(st, dark) /\ dark.power = st.power
  <2>1. st.reason \in {User, TimedOut} BY DEF Good, States
  <2> QED BY <1>3, <2>1 DEF Same, Rests, States
<1> HIDE DEF dark
<1>5. Rests(dark, Send(dark, FALSE, st.reason)) /\ Frame(dark, Send(dark, FALSE, st.reason))
  BY <1>4, SendRests, SendFrame
<1>6. Awake(still) BY <1>3, RestsAwake
<1>7. Awake(Send(dark, FALSE, st.reason))
  <2>1. Awake(dark) BY <1>4, RestsAwake
  <2> QED BY <1>5, <2>1, RestsAwake DEF Frame, Screen
<1> QED BY <1>1, <1>6, <1>7

(***************************************************************************)
(* The theorem.                                                            *)
(***************************************************************************)
LEMMA InitAwake == Init => Awake(s)
<1> SUFFICES ASSUME Init PROVE Awake(s)
  OBVIOUS
<1> DEFINE held == [l \in Locks |-> "free"]
<1>1. /\ s.user = Level["bright"] /\ s.wake = Level["off"] /\ s.power = Level["bright"]
      /\ s.held = held
  BY DEF Init
<1>2. "on" \in s.user /\ "on" \in s.power BY <1>1 DEF Level
<1>3. {k \in Locks : held[k] = "activated"} = {} OBVIOUS
<1>4. GatherState(held) = {} BY <1>3 DEF GatherState
<1> QED BY <1>1, <1>2, <1>4 DEF Awake, Heeds, Due

LEMMA NextAwake == Inv /\ Awake(s) /\ [Next]_vars => Awake(s)'
<1> SUFFICES ASSUME Inv, Awake(s), [Next]_vars PROVE Awake(s')
  OBVIOUS
<1>1. s \in States /\ Good(s) BY DEF Inv, TypeOK, Good
<1>2. "bright" \in Stages BY DEF Stages, Level
<1>3. CASE CallUserActivity
  <2>1. Due(s) BY DEF Awake
  <2> QED BY <1>1, <1>2, <1>3, <2>1, UserActivityAwake DEF CallUserActivity
<1>4. CASE CallForceUserActivity BY <1>1, <1>4, ForceUserActivityAwake DEF CallForceUserActivity
<1>5. CASE CallGoToSleep BY <1>1, <1>5, GoToSleepAwake DEF CallGoToSleep, OffReasons
<1>6. CASE CallAcquire BY <1>1, <1>6, AcquireAwake DEF CallAcquire
<1>7. CASE CallRelease BY <1>1, <1>7, ReleaseAwake DEF CallRelease
<1>8. CASE TimerFires
  <2>1. Rests(s, s') /\ s'.power = s.power BY <1>1, <1>8 DEF TimerFires, Rests, States
  <2> QED BY <2>1, RestsAwake
<1>9. CASE TimeoutRuns BY <1>1, <1>9, TimeoutAwake DEF TimeoutRuns
<1>10. CASE TakeNotification
  <2>1. Rests(s, s') /\ s'.power = s.power BY <1>1, <1>10 DEF TakeNotification, Rests, States
  <2> QED BY <2>1, RestsAwake
<1>11. CASE TellPolicy
  <2>1. Rests(s, s') /\ s'.power = s.power BY <1>1, <1>11 DEF TellPolicy, Rests, States
  <2> QED BY <2>1, RestsAwake
<1>12. CASE BroadcastDone
  <2>1. Rests(s, s') /\ s'.power = s.power BY <1>1, <1>12 DEF BroadcastDone, Rests, States
  <2> QED BY <2>1, RestsAwake
<1>13. CASE FadeEnds BY <1>1, <1>13, FinishFadeAwake DEF FadeEnds
<1>14. CASE UNCHANGED vars BY <1>14 DEF vars
<1>15. CASE CallSetBrightnessOverride BY <1>1, <1>15, BrightnessAwake DEF CallSetBrightnessOverride
<1>16. CASE CallSetBacklight BY <1>1, <1>16, BrightnessAwake DEF CallSetBacklight
<1> QED BY <1>3, <1>4, <1>5, <1>6, <1>7, <1>8, <1>9, <1>10, <1>11, <1>12, <1>13, <1>14,
           <1>15, <1>16
        DEF Next, Call, Handle

\* Every lock that is active asks at least for a screen that is on.
LEMMA ActiveAsks ==
  ASSUME NEW held, GatherState(held) # {}
  PROVE  "on" \in GatherState(held)
<1>1. GatherState(held) \subseteq {"on", "bright"} BY GatherStatePowers DEF Powers
<1>2. "bright" \in GatherState(held) => "on" \in GatherState(held) BY GatherShape DEF Shape
<1> QED BY <1>1, <1>2

\* The only step that ends a time-out is TimeoutTask.run.
LEMMA NextKeepsScreenOn ==
  ASSUME Inv, Awake(s), [Next]_vars,
         handler = InTimeout, handler' = Idle, "on" \in s.power, "on" \notin s'.power
  PROVE  GatherState(s.held) = {}
<1>1. s \in States /\ Good(s) BY DEF Inv, TypeOK, Good
<1>2. InTimeout # Idle /\ InTimeout # Looping /\ InTimeout.doing # "tell"
  BY DEF InTimeout, Idle, Looping
<1>3. CASE TimeoutRuns
  <2>1. "on" \in GatherState(s.held) => "on" \in s'.power BY <1>1, <1>3, TimeoutAwake DEF TimeoutRuns
  <2> QED BY <2>1, ActiveAsks
<1>4. CASE Call
  <2>1. handler' = handler
    BY <1>4 DEF Call, CallUserActivity, CallForceUserActivity, CallGoToSleep, CallAcquire,
       CallRelease, CallSetBrightnessOverride, CallSetBacklight, Serve
  <2> QED BY <1>2, <2>1
<1>5. CASE TimerFires \/ BroadcastDone \/ TakeNotification
  BY <1>2, <1>5 DEF TimerFires, BroadcastDone, TakeNotification
<1>6. CASE TellPolicy BY <1>2, <1>6 DEF TellPolicy
<1>7. CASE FadeEnds BY <1>2, <1>7 DEF FadeEnds
<1>8. CASE UNCHANGED vars BY <1>2, <1>8 DEF vars
<1> QED BY <1>3, <1>4, <1>5, <1>6, <1>7, <1>8 DEF Next, Handle

\* For any locks and any number of calls, a time-out turns off no screen that a
\* lock, not overridden by sleep, is to keep on.
THEOREM LocksKeepScreenOn == Spec => LockKeepsScreenOn
<1>1. Inv /\ Awake(s) /\ [Next]_vars
        => [handler = InTimeout /\ handler' = Idle /\ "on" \in s.power /\ "on" \notin s'.power
              => GatherState(s.held) = {}]_vars
  BY NextKeepsScreenOn
<1> QED BY <1>1, InitAwake, NextAwake, SpecInv, PTL DEF Spec, LockKeepsScreenOn
=============================================================================
