------------------------------ MODULE Mission ------------------------------
(***************************************************************************)
(* The flight state machine of App/services/mission/mission.c as it is     *)
(* called by task_mission (App/tasks/app.c): one step per tick, on the     *)
(* sensor picture and the commands of that tick.                           *)
(*                                                                         *)
(* Time is the code's uint32_t millisecond clock: it wraps modulo ClockMod *)
(* and every elapsed time is a subtraction modulo ClockMod.  Floats are    *)
(* integers, which keeps each comparison of the code with its threshold.   *)
(* The variables since, held and basis are history: the true duration of   *)
(* the state and of the conditions, which no clock arithmetic can disturb. *)
(***************************************************************************)
EXTENDS Integers

CONSTANTS
  cfg,        \* the hk_mission_cfg_t in force
  Inputs,     \* the hk_mission_in_t records a tick may read (without t_ms)
  Gaps,       \* the ms that may pass between two ticks; 0 if vTaskDelayUntil
              \* catches up after an overrun and runs two ticks in one ms
  MaxGap,     \* the longest of them
  ClockMod,   \* number of values of the ms clock (2^32 in the firmware)
  OneG        \* accel_g of a capsule at rest

Sensors  == {"BARO", "BMI270"}
Commands == {"arm", "disarm", "release"}
States   == {"BOOT", "SELFTEST", "ATTACHED", "ARMED",
             "RELEASE", "DESCENT", "LANDED", "RECOVERY"}
Args     == {"NORMAL", "SELFTEST_TIMEOUT", "CMD", "AUTO_ALT",
             "FREEFALL", "VSPEED", "TIMEOUT_FAILSAFE"}

Clock    == 0 .. ClockMod - 1

\* A duration the machine waits for: with a tick late by MaxGap it still
\* fits the clock, and so a wrapped subtraction is exact.
Duration == 0 .. ClockMod - MaxGap

Cfg == [selftest_required_mask : SUBSET Sensors,
        selftest_timeout_ms : Duration, arm_mode : {"AUTO_ALT", "EXTERNAL"},
        arm_altitude_m : Int, arm_hold_ms : Duration,
        release_freefall_g : Int, release_hold_ms : Duration,
        release_vspeed_ms : Int, release_actuation_ms : Duration,
        landed_vspeed_ms : Int, landed_accel_tol_g : Int,
        landed_hold_ms : Duration, descent_timeout_ms : Duration,
        recovery_after_ms : Duration]

Input == [alt_m : Int, vspeed_ms : Int, accel_g : Nat,
          sensor_ok_mask : SUBSET Sensors, cmd : SUBSET Commands]

ASSUME ClockAssumption == /\ ClockMod \in Nat \ {0, 1}
                          /\ MaxGap \in 1 .. ClockMod - 1
ASSUME GapsAssumption  == Gaps \subseteq 0 .. MaxGap
ASSUME CfgAssumption   == cfg \in Cfg
ASSUME InputAssumption == Inputs \subseteq Input /\ OneG \in Nat

VARIABLES
  state, t_enter_ms, cond_a_ms, cond_b_ms, degraded,  \* hk_mission_t
  event_arg,  \* why the last transition happened, as its EVENT record says
  now,        \* t_ms of the last tick
  since,      \* history: ms spent in a state the code times, else 0
  held_a,     \* history: ms the condition behind cond_a_ms has held, or NotHeld
  held_b,     \* history: the same for cond_b_ms
  basis       \* history: that duration for the condition of the last transition

hk_mission_t == <<state, t_enter_ms, cond_a_ms, cond_b_ms, degraded>>
vars == <<hk_mission_t, event_arg, now, since, held_a, held_b, basis>>

NotHeld == -1

-----------------------------------------------------------------------------
(* Clock arithmetic on uint32_t. *)

\* Mutant: a clock that does not wrap.
PlusUnwrapped(t, d) == t + d

Plus(t, d)    == IF t + d < ClockMod THEN t + d ELSE t + d - ClockMod
Elapsed(t, u) == IF u <= t THEN t - u ELSE t - u + ClockMod

-----------------------------------------------------------------------------
(* What a tick reads off its inputs. *)

baro_ok(i) == "BARO" \in i.sensor_ok_mask
imu_ok(i)  == "BMI270" \in i.sensor_ok_mask

sensors_ok(i) == cfg.selftest_required_mask \subseteq i.sensor_ok_mask

auto_alt(i) == /\ cfg.arm_mode = "AUTO_ALT"
               /\ baro_ok(i)
               /\ i.alt_m >= cfg.arm_altitude_m

freefall(i) == imu_ok(i) /\ i.accel_g < cfg.release_freefall_g

sinking(i)  == baro_ok(i) /\ i.vspeed_ms <= cfg.release_vspeed_ms

Within(x, bound) == -bound < x /\ x < bound

\* Quiet on every sensor that is still alive, and on one at least.
quiet(i) == /\ baro_ok(i) \/ imu_ok(i)
            /\ baro_ok(i) => Within(i.vspeed_ms, cfg.landed_vspeed_ms)
            /\ imu_ok(i)  => Within(i.accel_g - OneG, cfg.landed_accel_tol_g)

-----------------------------------------------------------------------------
(* sustained(): a timer of 0 is inactive, so a timer started at t = 0 is   *)
(* recorded as 1.                                                          *)

Sustained(timer, cond, t, hold) ==
  /\ cond
  /\ IF timer = 0 THEN hold = 0 ELSE Elapsed(t, timer) >= hold

\* Mutant: a timer that survives a tick without its condition.
TimerKept(timer, cond, t) ==
  IF timer # 0 THEN timer
  ELSE IF ~cond THEN 0
  ELSE IF t = 0 THEN 1 ELSE t

TimerAfter(timer, cond, t) ==
  IF ~cond THEN 0
  ELSE IF timer # 0 THEN timer
  ELSE IF t = 0 THEN 1 ELSE t

\* Mutants: a limit overrun by a tick, and one counted from power-up.
TimedOutLate(t, limit)   == Elapsed(t, t_enter_ms) > limit
TimedOutUptime(t, limit) == t >= limit

TimedOut(t, limit) == Elapsed(t, t_enter_ms) >= limit

\* Mutants: timers handed on to the next state, and a state without a date.
EnterKeepsTimers(next, t, arg) ==
  /\ state' = next
  /\ t_enter_ms' = t
  /\ UNCHANGED <<cond_a_ms, cond_b_ms>>
  /\ event_arg' = arg

EnterUndated(next, t, arg) ==
  /\ state' = next
  /\ UNCHANGED t_enter_ms
  /\ cond_a_ms' = 0 /\ cond_b_ms' = 0
  /\ event_arg' = arg

enter(next, t, arg) ==
  /\ state' = next
  /\ t_enter_ms' = t
  /\ cond_a_ms' = 0 /\ cond_b_ms' = 0
  /\ event_arg' = arg

Stay == UNCHANGED <<state, t_enter_ms, event_arg>>

-----------------------------------------------------------------------------
(* hk_mission_step, one action per case of its switch. *)

Boot(t, i) ==
  /\ state = "BOOT"
  /\ enter("SELFTEST", t, "NORMAL")
  /\ UNCHANGED degraded

Selftest(t, i) ==
  /\ state = "SELFTEST"
  /\ \/ /\ sensors_ok(i)
        /\ degraded' = FALSE
        /\ enter("ATTACHED", t, "NORMAL")
     \/ /\ ~sensors_ok(i)
        /\ TimedOut(t, cfg.selftest_timeout_ms)
        /\ degraded' = TRUE
        /\ enter("ATTACHED", t, "SELFTEST_TIMEOUT")
     \/ /\ ~sensors_ok(i)
        /\ ~TimedOut(t, cfg.selftest_timeout_ms)
        /\ Stay
        /\ UNCHANGED <<cond_a_ms, cond_b_ms, degraded>>

Attached(t, i) ==
  /\ state = "ATTACHED"
  /\ UNCHANGED degraded
  /\ LET high == Sustained(cond_a_ms, auto_alt(i), t, cfg.arm_hold_ms)
     IN \/ /\ "arm" \in i.cmd
           /\ enter("ARMED", t, "CMD")
        \/ /\ "arm" \notin i.cmd
           /\ high
           /\ enter("ARMED", t, "AUTO_ALT")
        \/ /\ "arm" \notin i.cmd
           /\ ~high
           /\ cond_a_ms' = TimerAfter(cond_a_ms, auto_alt(i), t)
           /\ Stay
           /\ UNCHANGED cond_b_ms

\* Mutant: both sensors must have seen the fall.
ArmedBothNeeded(t, i) ==
  /\ state = "ARMED"
  /\ UNCHANGED degraded
  /\ LET falling == Sustained(cond_a_ms, freefall(i), t, cfg.release_hold_ms)
         sinks   == Sustained(cond_b_ms, sinking(i), t, cfg.release_hold_ms)
         uncommanded == i.cmd \cap {"disarm", "release"} = {}
     IN \/ /\ "disarm" \in i.cmd
           /\ enter("ATTACHED", t, "CMD")
        \/ /\ "disarm" \notin i.cmd /\ "release" \in i.cmd
           /\ enter("RELEASE", t, "CMD")
        \/ uncommanded /\ falling /\ sinks /\ enter("RELEASE", t, "FREEFALL")
        \/ /\ uncommanded /\ ~(falling /\ sinks)
           /\ cond_a_ms' = TimerAfter(cond_a_ms, freefall(i), t)
           /\ cond_b_ms' = TimerAfter(cond_b_ms, sinking(i), t)
           /\ Stay

Armed(t, i) ==
  /\ state = "ARMED"
  /\ UNCHANGED degraded
  /\ LET falling == Sustained(cond_a_ms, freefall(i), t, cfg.release_hold_ms)
         sinks   == Sustained(cond_b_ms, sinking(i), t, cfg.release_hold_ms)
         uncommanded == i.cmd \cap {"disarm", "release"} = {}
     IN \/ /\ "disarm" \in i.cmd
           /\ enter("ATTACHED", t, "CMD")
        \/ /\ "disarm" \notin i.cmd /\ "release" \in i.cmd
           /\ enter("RELEASE", t, "CMD")
        \/ uncommanded /\ falling /\ enter("RELEASE", t, "FREEFALL")
        \/ uncommanded /\ ~falling /\ sinks /\ enter("RELEASE", t, "VSPEED")
        \/ /\ uncommanded /\ ~falling /\ ~sinks
           /\ cond_a_ms' = TimerAfter(cond_a_ms, freefall(i), t)
           /\ cond_b_ms' = TimerAfter(cond_b_ms, sinking(i), t)
           /\ Stay

Release(t, i) ==
  /\ state = "RELEASE"
  /\ UNCHANGED degraded
  /\ IF TimedOut(t, cfg.release_actuation_ms)
     THEN enter("DESCENT", t, "NORMAL")
     ELSE Stay /\ UNCHANGED <<cond_a_ms, cond_b_ms>>

Descent(t, i) ==
  /\ state = "DESCENT"
  /\ UNCHANGED degraded
  /\ LET still == Sustained(cond_a_ms, quiet(i), t, cfg.landed_hold_ms)
         late  == TimedOut(t, cfg.descent_timeout_ms)
     IN \/ still /\ enter("LANDED", t, "NORMAL")
        \/ ~still /\ late /\ enter("LANDED", t, "TIMEOUT_FAILSAFE")
        \/ /\ ~still /\ ~late
           /\ cond_a_ms' = TimerAfter(cond_a_ms, quiet(i), t)
           /\ Stay
           /\ UNCHANGED cond_b_ms

\* Mutant: a capsule that descends again when it moves after landing.
LandedMoves(t, i) ==
  /\ state = "LANDED"
  /\ UNCHANGED degraded
  /\ IF ~quiet(i)
     THEN enter("DESCENT", t, "NORMAL")
     ELSE IF TimedOut(t, cfg.recovery_after_ms)
          THEN enter("RECOVERY", t, "NORMAL")
          ELSE Stay /\ UNCHANGED <<cond_a_ms, cond_b_ms>>

Landed(t, i) ==
  /\ state = "LANDED"
  /\ UNCHANGED degraded
  /\ IF TimedOut(t, cfg.recovery_after_ms)
     THEN enter("RECOVERY", t, "NORMAL")
     ELSE Stay /\ UNCHANGED <<cond_a_ms, cond_b_ms>>

Recovery(t, i) ==
  /\ state = "RECOVERY"
  /\ Stay
  /\ UNCHANGED <<cond_a_ms, cond_b_ms, degraded>>

hk_mission_step(t, i) ==
  \/ Boot(t, i)    \/ Selftest(t, i) \/ Attached(t, i) \/ Armed(t, i)
  \/ Release(t, i) \/ Descent(t, i)  \/ Landed(t, i)   \/ Recovery(t, i)

-----------------------------------------------------------------------------
(* History: what an observer with an ideal clock would have measured. *)

\* The conditions that state s debounces with its first and second timer.
WatchedA(s, i) == \/ s = "ATTACHED" /\ auto_alt(i)
                  \/ s = "ARMED" /\ freefall(i)
                  \/ s = "DESCENT" /\ quiet(i)
WatchedB(s, i) == s = "ARMED" /\ sinking(i)

HeldAfter(h, cond, dt) ==
  IF ~cond THEN NotHeld ELSE IF h = NotHeld THEN 0 ELSE h + dt

Timed == {"SELFTEST", "RELEASE", "DESCENT", "LANDED"}

Observe(dt, i) ==
  LET heldA == HeldAfter(held_a, WatchedA(state, i), dt)
      heldB == HeldAfter(held_b, WatchedB(state, i), dt)
  IN IF state' # state
     THEN /\ since' = 0
          /\ held_a' = NotHeld /\ held_b' = NotHeld
          /\ basis' = IF event_arg' = "VSPEED" THEN heldB ELSE heldA
     ELSE /\ since' = IF state \in Timed THEN since + dt ELSE 0
          /\ held_a' = heldA /\ held_b' = heldB
          /\ UNCHANGED basis

-----------------------------------------------------------------------------
\* hk_mission_init.  The clock has run since HAL_Init, all through
\* hk_app_init, when the first tick comes.
Init ==
  /\ state = "BOOT" /\ t_enter_ms = 0
  /\ cond_a_ms = 0 /\ cond_b_ms = 0
  /\ degraded = FALSE
  /\ event_arg = "NORMAL"
  /\ now \in Clock \ {0}
  /\ since = 0
  /\ held_a = NotHeld /\ held_b = NotHeld
  /\ basis = NotHeld

Tick(dt, i) ==
  /\ now' = Plus(now, dt)
  /\ hk_mission_step(now', i)
  /\ Observe(dt, i)

Next == \E dt \in Gaps, i \in Inputs : Tick(dt, i)

Spec == Init /\ [][Next]_vars

\* vTaskDelayUntil in an endless loop at the highest priority: ticks go on.
FairSpec == Spec /\ WF_vars(Next)

-----------------------------------------------------------------------------
(* Properties. *)

\* Type invariant of hk_mission_t and of the history.
TypeOK ==
  /\ state \in States
  /\ t_enter_ms \in Clock /\ cond_a_ms \in Clock /\ cond_b_ms \in Clock
  /\ degraded \in BOOLEAN
  /\ event_arg \in Args
  /\ now \in Clock
  /\ since \in Nat
  /\ held_a \in Nat \cup {NotHeld} /\ held_b \in Nat \cup {NotHeld}
  /\ basis \in Nat \cup {NotHeld}

\* timer measures the true duration h at clock t.  The one exception is a
\* timer started at t = 0 and stored as 1: it is one ms short.
Measures(timer, h, t, hold) ==
  IF h = NotHeld
  THEN timer = 0
  ELSE \/ /\ timer # 0
          /\ Elapsed(t, timer) = h
          /\ h < hold
       \/ /\ timer = 1
          /\ IF h = 0 THEN t = 0 ELSE Elapsed(t, 1) = h - 1
          /\ h <= hold

HoldA(s) == CASE s = "ATTACHED" -> cfg.arm_hold_ms
              [] s = "ARMED"    -> cfg.release_hold_ms
              [] s = "DESCENT"  -> cfg.landed_hold_ms
              [] OTHER          -> 0

\* Both debounce timers tell the truth about their condition in every state,
\* wrapped clock or not, although 0 doubles as "inactive" (mission.c:56-67)
\* and the two timers are shared by three states (enter, 69-79).
TimersTrue ==
  /\ Measures(cond_a_ms, held_a, now, HoldA(state))
  /\ Measures(cond_b_ms, held_b, now, cfg.release_hold_ms)
  /\ state \notin {"ATTACHED", "ARMED", "DESCENT"} => held_a = NotHeld
  /\ state # "ARMED" => held_b = NotHeld

\* A transition a sensor caused rests on a condition that every tick of the
\* whole hold time has seen: arming, release and landing are debounced.
Debounced ==
  /\ event_arg = "AUTO_ALT" => basis >= cfg.arm_hold_ms
  /\ event_arg \in {"FREEFALL", "VSPEED"} => basis >= cfg.release_hold_ms
  /\ state = "LANDED" /\ event_arg = "NORMAL" => basis >= cfg.landed_hold_ms

Limit(s) == CASE s = "SELFTEST" -> cfg.selftest_timeout_ms
              [] s = "RELEASE"  -> cfg.release_actuation_ms
              [] s = "DESCENT"  -> cfg.descent_timeout_ms
              [] s = "LANDED"   -> cfg.recovery_after_ms
              [] OTHER          -> 0

\* t_enter_ms dates the state exactly, as often as the clock has wrapped.
EnteredTrue == state \in Timed => Elapsed(now, t_enter_ms) = since

\* No timed state outlives its limit, whatever the sensors do: self test,
\* the energised coil (RELEASE), descent with every sensor dead, landing.
BoundedStay == state \in Timed => since = 0 \/ since < Limit(state)

\* The inductive invariant.
IInv == TypeOK /\ TimersTrue /\ Debounced /\ EnteredTrue /\ BoundedStay

\* A transition that waits for time never comes early: the coil is held for
\* release_actuation_ms, descent is cut only after descent_timeout_ms, ...
TimeoutsOnTime ==
  [][ \/ state' = state
      \/ state \notin Timed
      \/ state = "SELFTEST" /\ event_arg' # "SELFTEST_TIMEOUT"
      \/ state = "DESCENT" /\ event_arg' # "TIMEOUT_FAILSAFE"
      \/ since + Elapsed(now', now) >= Limit(state) ]_vars

\* The machine "does not get stuck" (mission.c:12-13): self test ends with or
\* without sensors, and once released, the capsule ends in RECOVERY and its
\* beacon, whatever the sensors show or fail to show.
NeverStuck == /\ state = "BOOT" ~> state = "ATTACHED"
              /\ state = "RELEASE" ~> state = "RECOVERY"
=============================================================================
