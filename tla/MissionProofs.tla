---------------------------- MODULE MissionProofs ----------------------------
(***************************************************************************)
(* Proofs about Mission for every configuration, every clock width and     *)
(* every input set: the inductive invariant IInv, and from it that no      *)
(* sensor-driven transition escapes its debounce and no time-out comes     *)
(* early.  The one hypothesis, 0 \notin Gaps, is needed: a timer started at *)
(* clock 0 is stored as 1, and a second tick at 0 would take it for old.   *)
(*                                                                         *)
(* Then the same of Flight, for every number of outages and wild samples:  *)
(* IInv of the machine and TryInv of the sampling tasks go on holding when *)
(* the two run together (Base), and on them rest that only a fall releases *)
(* the capsule, that a fall is caught in time, and that a capsule at       *)
(* altitude is armed in time.                                              *)
(***************************************************************************)
EXTENDS Flight, TLAPS

(* The clock: adding a gap to a time adds it to every elapsed time that    *)
(* does not thereby outgrow the clock.                                     *)
LEMMA ClockStep ==
  ASSUME NEW t \in Clock, NEW u \in Clock, NEW d \in 0 .. MaxGap
  PROVE  /\ Plus(t, d) \in Clock
         /\ Elapsed(t, u) \in Clock
         /\ Elapsed(t, t) = 0
         /\ Elapsed(Plus(t, d), t) = d
         /\ Elapsed(t, u) + d < ClockMod
              => Elapsed(Plus(t, d), u) = Elapsed(t, u) + d
  BY ClockAssumption DEF Plus, Elapsed, Clock

(* Every configured duration leaves the clock room for one late tick.      *)
LEMMA Durations ==
  /\ \A s : HoldA(s) \in Duration
  /\ \A s : Limit(s) \in Duration
  /\ cfg.release_hold_ms \in Duration
  /\ cfg.arm_hold_ms \in Duration
  /\ cfg.landed_hold_ms \in Duration
  BY CfgAssumption, ClockAssumption DEF HoldA, Limit, Cfg, Duration

(* One tick of sustained(): when it fires, the condition has truly held    *)
(* for the hold time; when it does not, the timer still measures it.       *)
LEMMA SustainedStep ==
  ASSUME NEW timer \in Clock, NEW h \in Nat \cup {NotHeld}, NEW t \in Clock,
         NEW d \in 1 .. MaxGap, NEW hold \in Duration, NEW cond \in BOOLEAN,
         Measures(timer, h, t, hold)
  PROVE  LET u == Plus(t, d) IN
         /\ HeldAfter(h, cond, d) \in Nat \cup {NotHeld}
         /\ TimerAfter(timer, cond, u) \in Clock
         /\ Sustained(timer, cond, u, hold) => HeldAfter(h, cond, d) >= hold
         /\ ~Sustained(timer, cond, u, hold)
              => Measures(TimerAfter(timer, cond, u), HeldAfter(h, cond, d),
                          u, hold)
<1> DEFINE u == Plus(t, d)
<1>1. /\ u \in Clock
      /\ Elapsed(u, u) = 0
      /\ Elapsed(t, timer) \in Clock
      /\ Elapsed(t, timer) + d < ClockMod
           => Elapsed(u, timer) = Elapsed(t, timer) + d
  BY ClockStep
<1>2. 1 \in Clock /\ 0 \in Clock /\ ClockMod \in Nat /\ MaxGap \in Nat
  BY ClockAssumption DEF Clock
<1>3. CASE ~cond
  BY <1>1, <1>2, <1>3 DEF HeldAfter, TimerAfter, Sustained, Measures, NotHeld
<1>4. CASE cond /\ h = NotHeld
  <2>1. timer = 0 /\ HeldAfter(h, cond, d) = 0
    BY <1>4 DEF Measures, HeldAfter
  <2>2. TimerAfter(timer, cond, u) = IF u = 0 THEN 1 ELSE u
    BY <1>4, <2>1 DEF TimerAfter
  <2>3. Sustained(timer, cond, u, hold) <=> hold = 0
    BY <1>4, <2>1 DEF Sustained
  <2> QED
    BY <1>1, <1>2, <2>1, <2>2, <2>3 DEF Measures, NotHeld, Duration, Clock
<1>5. CASE cond /\ h # NotHeld
  <2>1. timer # 0 /\ h \in Nat /\ HeldAfter(h, cond, d) = h + d
    BY <1>5 DEF Measures, HeldAfter
  <2>2. TimerAfter(timer, cond, u) = timer
    BY <1>5, <2>1 DEF TimerAfter
  <2>3. Sustained(timer, cond, u, hold) <=> Elapsed(u, timer) >= hold
    BY <1>5, <2>1 DEF Sustained
  <2>4. CASE Elapsed(t, timer) = h /\ h < hold
    <3>1. Elapsed(u, timer) = h + d
      BY <1>1, <1>2, <2>1, <2>4 DEF Duration
    <3> QED
      BY <1>1, <2>1, <2>2, <2>3, <3>1 DEF Measures, NotHeld, Duration, Clock
  <2>5. CASE timer = 1 /\ (IF h = 0 THEN t = 0 ELSE Elapsed(t, 1) = h - 1)
             /\ h <= hold
    <3>1. Elapsed(u, 1) = h + d - 1
      <4>1. CASE h = 0
        BY <1>2, <2>5, <4>1, ClockAssumption DEF Elapsed, Plus, Clock
      <4>2. CASE h # 0
        BY <1>1, <1>2, <2>1, <2>5, <4>2 DEF Duration
      <4> QED BY <4>1, <4>2
    <3> QED
      BY <1>1, <2>1, <2>2, <2>3, <2>5, <3>1
      DEF Measures, NotHeld, Duration, Clock
  <2> QED
    BY <1>5, <2>4, <2>5 DEF Measures
<1> QED
  BY <1>3, <1>4, <1>5

-----------------------------------------------------------------------------
(* What every tick does to the clock and to the timers, whatever its case. *)

\* The hypotheses of every lemma about one tick.
TickHyp(dt, i) == /\ dt \in 1 .. MaxGap
                  /\ IInv
                  /\ now' = Plus(now, dt)
                  /\ Observe(dt, i)

(* A tick moves the clock by dt and, in a timed state, the age measured    *)
(* against t_enter_ms by as much.                                          *)
LEMMA TickClock ==
  ASSUME NEW dt, NEW i, TickHyp(dt, i)
  PROVE  /\ dt \in 1 .. MaxGap /\ dt \in Nat
         /\ now' \in Clock
         /\ Elapsed(now', now') = 0
         /\ Elapsed(now', now) = dt
         /\ state \in Timed => Elapsed(now', t_enter_ms) = since + dt
<1>1. dt \in 1 .. MaxGap /\ dt \in Nat
  BY ClockAssumption DEF TickHyp
<1>2. now \in Clock /\ t_enter_ms \in Clock /\ since \in Nat
  BY DEF TickHyp, IInv, TypeOK
<1>3. now' \in Clock /\ Elapsed(now', now) = dt
  BY <1>1, <1>2, ClockStep DEF TickHyp
<1>4. Elapsed(now', now') = 0
  BY <1>1, <1>3, ClockStep
<1>5. ASSUME state \in Timed
      PROVE  Elapsed(now', t_enter_ms) = since + dt
  <2>1. Elapsed(now, t_enter_ms) = since
    BY <1>5 DEF TickHyp, IInv, EnteredTrue
  <2>2. since + dt < ClockMod
    BY <1>1, <1>2, <1>5, Durations, ClockAssumption
    DEF TickHyp, IInv, BoundedStay, Duration
  <2> QED
    BY <1>1, <1>2, <2>1, <2>2, ClockStep DEF TickHyp
<1> QED
  BY <1>1, <1>3, <1>4, <1>5

(* The conditions are Booleans, and so the two debounce timers obey        *)
(* SustainedStep.                                                          *)
LEMMA TickTimers ==
  ASSUME NEW dt, NEW i, TickHyp(dt, i)
  PROVE  LET condA == WatchedA(state, i)
             condB == WatchedB(state, i)
             heldA == HeldAfter(held_a, condA, dt)
             heldB == HeldAfter(held_b, condB, dt)
             holdB == cfg.release_hold_ms
         IN /\ heldA \in Nat \cup {NotHeld} /\ heldB \in Nat \cup {NotHeld}
            /\ TimerAfter(cond_a_ms, condA, now') \in Clock
            /\ TimerAfter(cond_b_ms, condB, now') \in Clock
            /\ Sustained(cond_a_ms, condA, now', HoldA(state))
                 => heldA >= HoldA(state)
            /\ Sustained(cond_b_ms, condB, now', holdB) => heldB >= holdB
            /\ ~Sustained(cond_a_ms, condA, now', HoldA(state))
                 => Measures(TimerAfter(cond_a_ms, condA, now'), heldA, now',
                             HoldA(state))
            /\ ~Sustained(cond_b_ms, condB, now', holdB)
                 => Measures(TimerAfter(cond_b_ms, condB, now'), heldB, now',
                             holdB)
<1>1. dt \in 1 .. MaxGap
  BY TickClock
<1>2. WatchedA(state, i) \in BOOLEAN /\ WatchedB(state, i) \in BOOLEAN
  BY DEF WatchedA, WatchedB
<1>3. /\ cond_a_ms \in Clock /\ cond_b_ms \in Clock /\ now \in Clock
      /\ held_a \in Nat \cup {NotHeld} /\ held_b \in Nat \cup {NotHeld}
      /\ Measures(cond_a_ms, held_a, now, HoldA(state))
      /\ Measures(cond_b_ms, held_b, now, cfg.release_hold_ms)
      /\ now' = Plus(now, dt)
  BY DEF TickHyp, IInv, TypeOK, TimersTrue
<1>4. HoldA(state) \in Duration /\ cfg.release_hold_ms \in Duration
  BY Durations
<1> QED
  BY <1>1, <1>2, <1>3, <1>4, SustainedStep

(* A transition leaves clean timers and a true entry date.                 *)
LEMMA EnterKeeps ==
  ASSUME NEW dt, NEW i, TickHyp(dt, i),
         NEW s \in States, NEW arg \in Args, s # state,
         enter(s, now', arg), degraded' \in BOOLEAN
  PROVE  TypeOK' /\ TimersTrue' /\ EnteredTrue' /\ BoundedStay'
<1>1. now' \in Clock /\ Elapsed(now', now') = 0
  BY TickClock
<1>2. /\ since' = 0 /\ held_a' = NotHeld /\ held_b' = NotHeld
      /\ basis' \in Nat \cup {NotHeld}
  BY TickTimers DEF TickHyp, Observe, enter
<1>3. 0 \in Clock
  BY ClockAssumption DEF Clock
<1>4. TypeOK'
  BY <1>1, <1>2, <1>3 DEF TypeOK, enter
<1>5. TimersTrue'
  BY <1>2 DEF TimersTrue, Measures, enter
<1>6. EnteredTrue' /\ BoundedStay'
  BY <1>1, <1>2 DEF EnteredTrue, BoundedStay, enter
<1> QED
  BY <1>4, <1>5, <1>6

(* A tick that stays in its state, updates the timers the state uses and   *)
(* leaves no limit passed keeps the invariant.                             *)
LEMMA StayKeeps ==
  ASSUME NEW dt, NEW i, TickHyp(dt, i), Stay, degraded' \in BOOLEAN,
         ~Sustained(cond_a_ms, WatchedA(state, i), now', HoldA(state)),
         ~Sustained(cond_b_ms, WatchedB(state, i), now', cfg.release_hold_ms),
         cond_a_ms' = TimerAfter(cond_a_ms, WatchedA(state, i), now'),
         cond_b_ms' = TimerAfter(cond_b_ms, WatchedB(state, i), now'),
         state \in Timed => ~TimedOut(now', Limit(state))
  PROVE  IInv'
<1>1. /\ now' \in Clock /\ dt \in Nat
      /\ state \in Timed => Elapsed(now', t_enter_ms) = since + dt
  BY TickClock
<1>2. /\ since' = IF state \in Timed THEN since + dt ELSE 0
      /\ held_a' = HeldAfter(held_a, WatchedA(state, i), dt)
      /\ held_b' = HeldAfter(held_b, WatchedB(state, i), dt)
      /\ basis' = basis
  BY DEF TickHyp, Observe, Stay
<1>3. TypeOK'
  BY <1>1, <1>2, TickTimers DEF TickHyp, IInv, TypeOK, Stay
<1>4. TimersTrue'
  <2>1. /\ Measures(cond_a_ms', held_a', now', HoldA(state))
        /\ Measures(cond_b_ms', held_b', now', cfg.release_hold_ms)
    BY <1>2, TickTimers
  <2>2. state \notin {"ATTACHED", "ARMED", "DESCENT"} => held_a' = NotHeld
    BY <1>2 DEF WatchedA, HeldAfter
  <2>3. state # "ARMED" => held_b' = NotHeld
    BY <1>2 DEF WatchedB, HeldAfter
  <2> QED
    BY <2>1, <2>2, <2>3 DEF TimersTrue, Stay
<1>5. Debounced'
  BY <1>2 DEF TickHyp, IInv, Debounced, Stay
<1>6. EnteredTrue'
  BY <1>1, <1>2 DEF EnteredTrue, Stay
<1>7. BoundedStay'
  BY <1>1, <1>2, Durations DEF BoundedStay, TimedOut, Stay, Duration, TickHyp, IInv, TypeOK
<1> QED
  BY <1>3, <1>4, <1>5, <1>6, <1>7 DEF IInv

-----------------------------------------------------------------------------
(* One lemma per case of hk_mission_step.                                  *)

(* A state that debounces nothing holds no timer.                          *)
LEMMA NoTimers ==
  ASSUME NEW dt, NEW i, TickHyp(dt, i),
         state \notin {"ATTACHED", "ARMED", "DESCENT"}
  PROVE  /\ cond_a_ms = 0 /\ cond_b_ms = 0
         /\ ~WatchedA(state, i) /\ ~WatchedB(state, i)
  BY DEF TickHyp, IInv, TimersTrue, Measures, WatchedA, WatchedB

(* The cases that only wait: BOOT, SELFTEST, RELEASE, LANDED, RECOVERY.    *)
LEMMA TimedOnly ==
  ASSUME NEW dt, NEW i, TickHyp(dt, i),
         \/ Boot(now', i) \/ Selftest(now', i) \/ Release(now', i)
         \/ Landed(now', i) \/ Recovery(now', i)
  PROVE  IInv'
<1>1. degraded' \in BOOLEAN
  BY DEF TickHyp, IInv, TypeOK, Boot, Selftest, Release, Landed, Recovery
<1>2. ASSUME NEW s \in States, NEW arg \in {"NORMAL", "SELFTEST_TIMEOUT"},
             s \notin {state, "LANDED"}, enter(s, now', arg)
      PROVE  IInv'
  <2>1. arg \in Args
    BY DEF Args
  <2>2. Debounced'
    BY <1>2 DEF Debounced, enter
  <2> QED
    BY <1>1, <1>2, <2>1, <2>2, EnterKeeps DEF IInv
<1>3. ASSUME state \notin {"ATTACHED", "ARMED", "DESCENT"}, Stay,
             UNCHANGED <<cond_a_ms, cond_b_ms>>,
             state \in Timed => ~TimedOut(now', Limit(state))
      PROVE  IInv'
  <2>1. /\ cond_a_ms' = TimerAfter(cond_a_ms, WatchedA(state, i), now')
        /\ cond_b_ms' = TimerAfter(cond_b_ms, WatchedB(state, i), now')
        /\ ~Sustained(cond_a_ms, WatchedA(state, i), now', HoldA(state))
        /\ ~Sustained(cond_b_ms, WatchedB(state, i), now', cfg.release_hold_ms)
    BY <1>3, NoTimers DEF TimerAfter, Sustained
  <2> QED
    BY <1>1, <1>3, <2>1, StayKeeps
<1>4. CASE Boot(now', i)
  BY <1>2, <1>4 DEF Boot, States
<1>5. CASE Selftest(now', i)
  <2>1. Limit("SELFTEST") = cfg.selftest_timeout_ms
    BY DEF Limit
  <2> QED
    BY <1>2, <1>3, <1>5, <2>1 DEF Selftest, States
<1>6. CASE Release(now', i)
  <2>1. Limit("RELEASE") = cfg.release_actuation_ms
    BY DEF Limit
  <2> QED
    BY <1>2, <1>3, <1>6, <2>1 DEF Release, States
<1>7. CASE Landed(now', i)
  <2>1. Limit("LANDED") = cfg.recovery_after_ms
    BY DEF Limit
  <2> QED
    BY <1>2, <1>3, <1>7, <2>1 DEF Landed, States
<1>8. CASE Recovery(now', i)
  BY <1>3, <1>8 DEF Recovery, Timed
<1> QED
  BY <1>4, <1>5, <1>6, <1>7, <1>8

(* ATTACHED: armed by command or by a debounced altitude.                  *)
LEMMA AttachedKeeps ==
  ASSUME NEW dt, NEW i, TickHyp(dt, i), Attached(now', i)
  PROVE  IInv'
<1> DEFINE high == Sustained(cond_a_ms, auto_alt(i), now', cfg.arm_hold_ms)
<1>1. /\ state = "ATTACHED" /\ degraded' \in BOOLEAN
      /\ HoldA(state) = cfg.arm_hold_ms
      /\ WatchedA(state, i) = auto_alt(i) /\ ~WatchedB(state, i)
      /\ cond_b_ms = 0
  BY DEF Attached, TickHyp, IInv, TypeOK, TimersTrue, Measures, HoldA,
         WatchedA, WatchedB, auto_alt
<1>2. CASE enter("ARMED", now', "CMD")
  BY <1>1, <1>2, EnterKeeps DEF IInv, Debounced, enter, States, Args
<1>3. CASE high /\ enter("ARMED", now', "AUTO_ALT")
  <2>1. basis' = HeldAfter(held_a, WatchedA(state, i), dt)
    BY <1>1, <1>3 DEF TickHyp, Observe, enter
  <2>2. basis' >= cfg.arm_hold_ms
    BY <1>1, <1>3, <2>1, TickTimers
  <2>3. Debounced'
    BY <1>3, <2>2 DEF Debounced, enter
  <2> QED
    BY <1>1, <1>3, <2>3, EnterKeeps DEF IInv, States, Args
<1>4. CASE /\ ~high
           /\ cond_a_ms' = TimerAfter(cond_a_ms, auto_alt(i), now')
           /\ Stay
           /\ UNCHANGED cond_b_ms
  <2>1. /\ cond_b_ms' = TimerAfter(cond_b_ms, WatchedB(state, i), now')
        /\ ~Sustained(cond_b_ms, WatchedB(state, i), now', cfg.release_hold_ms)
    BY <1>1, <1>4 DEF TimerAfter, Sustained
  <2>2. state \notin Timed
    BY <1>1 DEF Timed
  <2> QED
    BY <1>1, <1>4, <2>1, <2>2, StayKeeps
<1> QED
  BY <1>2, <1>3, <1>4 DEF Attached

(* ARMED: released by command or by either debounced sensor path.          *)
LEMMA ArmedKeeps ==
  ASSUME NEW dt, NEW i, TickHyp(dt, i), Armed(now', i)
  PROVE  IInv'
<1> DEFINE falling == Sustained(cond_a_ms, freefall(i), now', cfg.release_hold_ms)
           sinks   == Sustained(cond_b_ms, sinking(i), now', cfg.release_hold_ms)
<1>1. /\ state = "ARMED" /\ degraded' \in BOOLEAN
      /\ HoldA(state) = cfg.release_hold_ms
      /\ WatchedA(state, i) = freefall(i) /\ WatchedB(state, i) = sinking(i)
  BY DEF Armed, TickHyp, IInv, TypeOK, HoldA, WatchedA, WatchedB, freefall,
         sinking
<1>2. CASE enter("ATTACHED", now', "CMD") \/ enter("RELEASE", now', "CMD")
  BY <1>1, <1>2, EnterKeeps DEF IInv, Debounced, enter, States, Args
<1>3. CASE falling /\ enter("RELEASE", now', "FREEFALL")
  <2>1. basis' = HeldAfter(held_a, WatchedA(state, i), dt)
    BY <1>1, <1>3 DEF TickHyp, Observe, enter
  <2>2. basis' >= cfg.release_hold_ms
    BY <1>1, <1>3, <2>1, TickTimers
  <2>3. Debounced'
    BY <1>3, <2>2 DEF Debounced, enter
  <2> QED
    BY <1>1, <1>3, <2>3, EnterKeeps DEF IInv, States, Args
<1>4. CASE sinks /\ enter("RELEASE", now', "VSPEED")
  <2>1. basis' = HeldAfter(held_b, WatchedB(state, i), dt)
    BY <1>1, <1>4 DEF TickHyp, Observe, enter
  <2>2. basis' >= cfg.release_hold_ms
    BY <1>1, <1>4, <2>1, TickTimers
  <2>3. Debounced'
    BY <1>4, <2>2 DEF Debounced, enter
  <2> QED
    BY <1>1, <1>4, <2>3, EnterKeeps DEF IInv, States, Args
<1>5. CASE /\ ~falling /\ ~sinks
           /\ cond_a_ms' = TimerAfter(cond_a_ms, freefall(i), now')
           /\ cond_b_ms' = TimerAfter(cond_b_ms, sinking(i), now')
           /\ Stay
  <2>1. state \notin Timed
    BY <1>1 DEF Timed
  <2> QED
    BY <1>1, <1>5, <2>1, StayKeeps
<1> QED
  BY <1>2, <1>3, <1>4, <1>5 DEF Armed

(* DESCENT: landed by debounced quiet or by the time-out.                  *)
LEMMA DescentKeeps ==
  ASSUME NEW dt, NEW i, TickHyp(dt, i), Descent(now', i)
  PROVE  IInv'
<1> DEFINE still == Sustained(cond_a_ms, quiet(i), now', cfg.landed_hold_ms)
           late  == TimedOut(now', cfg.descent_timeout_ms)
<1>1. /\ state = "DESCENT" /\ degraded' \in BOOLEAN
      /\ HoldA(state) = cfg.landed_hold_ms
      /\ Limit(state) = cfg.descent_timeout_ms
      /\ WatchedA(state, i) = quiet(i) /\ ~WatchedB(state, i)
      /\ cond_b_ms = 0
  BY DEF Descent, TickHyp, IInv, TypeOK, TimersTrue, Measures, HoldA, Limit,
         WatchedA, WatchedB, quiet
<1>2. CASE still /\ enter("LANDED", now', "NORMAL")
  <2>1. basis' = HeldAfter(held_a, WatchedA(state, i), dt)
    BY <1>1, <1>2 DEF TickHyp, Observe, enter
  <2>2. basis' >= cfg.landed_hold_ms
    BY <1>1, <1>2, <2>1, TickTimers
  <2>3. Debounced'
    BY <1>2, <2>2 DEF Debounced, enter
  <2> QED
    BY <1>1, <1>2, <2>3, EnterKeeps DEF IInv, States, Args
<1>3. CASE enter("LANDED", now', "TIMEOUT_FAILSAFE")
  BY <1>1, <1>3, EnterKeeps DEF IInv, Debounced, enter, States, Args
<1>4. CASE /\ ~still /\ ~late
           /\ cond_a_ms' = TimerAfter(cond_a_ms, quiet(i), now')
           /\ Stay
           /\ UNCHANGED cond_b_ms
  <2>1. /\ cond_b_ms' = TimerAfter(cond_b_ms, WatchedB(state, i), now')
        /\ ~Sustained(cond_b_ms, WatchedB(state, i), now', cfg.release_hold_ms)
    BY <1>1, <1>4 DEF TimerAfter, Sustained
  <2> QED
    BY <1>1, <1>4, <2>1, StayKeeps
<1> QED
  BY <1>2, <1>3, <1>4 DEF Descent

-----------------------------------------------------------------------------
(* hk_mission_init establishes the invariant.                              *)
LEMMA InitInv == Init => IInv
<1> SUFFICES ASSUME Init PROVE IInv
  OBVIOUS
<1>1. 0 \in Clock
  BY ClockAssumption DEF Clock
<1>2. TypeOK
  BY <1>1 DEF Init, TypeOK, States, Args, NotHeld, Clock
<1>3. TimersTrue
  BY DEF Init, TimersTrue, Measures
<1>4. Debounced /\ EnteredTrue /\ BoundedStay
  BY DEF Init, Debounced, EnteredTrue, BoundedStay, Timed
<1> QED
  BY <1>2, <1>3, <1>4 DEF IInv

(* Every tick that follows the one before by 1 to MaxGap ms preserves it,   *)
(* on whatever picture.                                                    *)
LEMMA TickInv ==
  ASSUME NEW dt \in 1 .. MaxGap, NEW i, IInv, Tick(dt, i)
  PROVE  TickHyp(dt, i) /\ IInv'
<1>1. TickHyp(dt, i)
  BY DEF TickHyp, Tick
<1> QED
  BY <1>1, TimedOnly, AttachedKeeps, ArmedKeeps, DescentKeeps
  DEF Tick, hk_mission_step

(* Every tick, and every stuttering step, preserves it.                    *)
LEMMA NextInv == 0 \notin Gaps /\ IInv /\ [Next]_vars => IInv'
<1> SUFFICES ASSUME 0 \notin Gaps, IInv, [Next]_vars PROVE IInv'
  OBVIOUS
<1>1. ASSUME NEW dt \in Gaps, NEW i \in Inputs, Tick(dt, i)
      PROVE  IInv'
  <2>1. dt \in 1 .. MaxGap
    BY GapsAssumption, ClockAssumption
  <2> QED
    BY <1>1, <2>1, TickInv
<1>2. CASE UNCHANGED vars
  BY <1>2 DEF vars, hk_mission_t, IInv, TypeOK, TimersTrue, Debounced,
              EnteredTrue, BoundedStay
<1> QED
  BY <1>1, <1>2 DEF Next

(* The state machine and the observer agree for ever: types, timers, entry *)
(* dates and limits (hk_mission_step, sustained, enter).                   *)
THEOREM InvHolds ==
  ASSUME 0 \notin Gaps
  PROVE  Spec => []IInv
<1>1. IInv /\ [Next]_vars => IInv'
  BY NextInv
<1> QED
  BY InitInv, <1>1, PTL DEF Spec

(* Every variable keeps its type; the clocks keep their width and no timer  *)
(* counts past its bound (hk_mission_t).                                    *)
THEOREM TypeHolds ==
  ASSUME 0 \notin Gaps
  PROVE  Spec => []TypeOK
<1>1. IInv => TypeOK
  BY DEF IInv
<1> QED
  BY InvHolds, <1>1, PTL

(* Both debounce timers tell how long their condition has held, through     *)
(* every transition that reuses them and every wrap of the clock, which     *)
(* makes 0 a legal date and "inactive" at once (sustained, enter).          *)
THEOREM TimersHold ==
  ASSUME 0 \notin Gaps
  PROVE  Spec => []TimersTrue
<1>1. IInv => TimersTrue
  BY DEF IInv
<1> QED
  BY InvHolds, <1>1, PTL

(* t_enter_ms dates the entry into a timed state, over wraps (enter).       *)
THEOREM EnteredHolds ==
  ASSUME 0 \notin Gaps
  PROVE  Spec => []EnteredTrue
<1>1. IInv => EnteredTrue
  BY DEF IInv
<1> QED
  BY InvHolds, <1>1, PTL

(* "Every sensor-driven transition is DEBOUNCED" (mission.c:10-11), in the *)
(* ticks the machine sees, for every configuration and clock width.        *)
THEOREM DebounceHolds ==
  ASSUME 0 \notin Gaps
  PROVE  Spec => []Debounced
<1>1. IInv => Debounced
  BY DEF IInv
<1> QED
  BY InvHolds, <1>1, PTL

(* No timed state outlives its limit: the coil is never energised for      *)
(* longer, the descent never lasts longer, than configured.                *)
THEOREM StayBounded ==
  ASSUME 0 \notin Gaps
  PROVE  Spec => []BoundedStay
<1>1. IInv => BoundedStay
  BY DEF IInv
<1> QED
  BY InvHolds, <1>1, PTL

(* A transition that waits for time never comes early: the coil is held    *)
(* for its whole actuation time, the self test, the descent and the        *)
(* recovery delay are never cut short, however often the clock wraps.      *)
THEOREM NeverEarly ==
  ASSUME 0 \notin Gaps
  PROVE  Spec => TimeoutsOnTime
<1> DEFINE OnTime ==
      \/ state' = state
      \/ state \notin Timed
      \/ state = "SELFTEST" /\ event_arg' # "SELFTEST_TIMEOUT"
      \/ state = "DESCENT" /\ event_arg' # "TIMEOUT_FAILSAFE"
      \/ since + Elapsed(now', now) >= Limit(state)
<1>1. IInv /\ [Next]_vars => [OnTime]_vars
  <2> SUFFICES ASSUME IInv, NEW dt \in Gaps, NEW i \in Inputs, Tick(dt, i),
                      state \in Timed, state' # state
               PROVE  OnTime
    BY DEF Next
  <2>1. TickHyp(dt, i)
    BY GapsAssumption, ClockAssumption DEF TickHyp, Tick
  <2>2. /\ Elapsed(now', now) = dt
        /\ Elapsed(now', t_enter_ms) = since + dt
    BY <2>1, TickClock
  <2>3. TimedOut(now', Limit(state)) => OnTime
    BY <2>2 DEF TimedOut
  <2>4. CASE state = "SELFTEST"
    <3>1. Limit(state) = cfg.selftest_timeout_ms
      BY <2>4 DEF Limit
    <3>2. Selftest(now', i)
      BY <2>4 DEF Tick, hk_mission_step, Boot, Selftest, Attached, Armed,
         Release, Descent, Landed, Recovery
    <3> QED
      BY <2>3, <2>4, <3>1, <3>2 DEF Selftest, enter, Stay
  <2>5. CASE state = "RELEASE"
    <3>1. Limit(state) = cfg.release_actuation_ms
      BY <2>5 DEF Limit
    <3>2. Release(now', i)
      BY <2>5 DEF Tick, hk_mission_step, Boot, Selftest, Attached, Armed,
         Release, Descent, Landed, Recovery
    <3> QED
      BY <2>3, <2>5, <3>1, <3>2 DEF Release, enter, Stay
  <2>6. CASE state = "DESCENT"
    <3>1. Limit(state) = cfg.descent_timeout_ms
      BY <2>6 DEF Limit
    <3>2. Descent(now', i)
      BY <2>6 DEF Tick, hk_mission_step, Boot, Selftest, Attached, Armed,
         Release, Descent, Landed, Recovery
    <3> QED
      BY <2>3, <2>6, <3>1, <3>2 DEF Descent, enter, Stay
  <2>7. CASE state = "LANDED"
    <3>1. Limit(state) = cfg.recovery_after_ms
      BY <2>7 DEF Limit
    <3>2. Landed(now', i)
      BY <2>7 DEF Tick, hk_mission_step, Boot, Selftest, Attached, Armed,
         Release, Descent, Landed, Recovery
    <3> QED
      BY <2>3, <2>7, <3>1, <3>2 DEF Landed, enter, Stay
  <2> QED
    BY <2>4, <2>5, <2>6, <2>7 DEF Timed
<1> QED
  BY InvHolds, <1>1, PTL DEF Spec, TimeoutsOnTime

-----------------------------------------------------------------------------
(* Flight: the machine of Mission and the tasks of SensorManager.          *)

\* The lemmas of SensorProofs, for the one device of task_env in a flight.
SP == INSTANCE SensorProofs
        WITH now <- clock, Alts <- 0 .. Top, Accels <- {0, OneG}

\* What SensorManager assumes of its constants holds in a flight.
LEMMA SensorsApply ==
  /\ SP!SensorAssumption /\ S!SensorAssumption
  /\ S!EnvSet = {"BARO"} /\ S!Devices = Sensors /\ DOMAIN EnvDevices = {1}
  /\ EnvDevices[1] = "BARO" /\ Len(EnvDevices) = 1 /\ Head(EnvDevices) = "BARO"
<1>1. /\ EnvDevices \in Seq({"BARO", "SHT1", "SHT2"}) /\ EnvDevices # << >>
      /\ DOMAIN EnvDevices = {1} /\ EnvDevices[1] = "BARO" /\ Len(EnvDevices) = 1
      /\ Head(EnvDevices) = "BARO"
  BY DEF EnvDevices
<1>2. S!EnvSet = {"BARO"}
  BY <1>1 DEF S!EnvSet
<1>3. /\ 0 .. Top \subseteq Int /\ {0, OneG} \subseteq Nat /\ OneG \in Nat
      /\ ClockMod \in Nat
  BY ClockAssumption, InputAssumption, FlightAssumption
<1>4. \A j, k \in DOMAIN EnvDevices : EnvDevices[j] = EnvDevices[k] => j = k
  BY <1>1
<1> QED
  BY <1>1, <1>2, <1>3, <1>4, FlightAssumption
  DEF SP!SensorAssumption, S!SensorAssumption, S!Devices, Sensors

\* S and SP name the same definitions of SensorManager.
LEMMA SameInv == S!TryInv <=> SP!TryInv
  BY DEF S!TryInv, SP!TryInv, S!FreshInv, SP!FreshInv, S!FlagsInv,
         SP!FlagsInv, S!Devices, SP!Devices, S!EnvSet, SP!EnvSet,
         S!Clock, SP!Clock, S!Elapsed, SP!Elapsed, S!Lag, SP!Lag,
         S!ImuLag, SP!ImuLag, S!EnvLag, SP!EnvLag, S!Written,
         SP!Written, S!AgeLag, SP!AgeLag, S!Told, SP!Told,
         S!EnvAsleep, SP!EnvAsleep

LEMMA SameTypes == S!TypeOK <=> SP!TypeOK
  BY DEF S!TypeOK, SP!TypeOK, S!Clock, SP!Clock, S!Devices,
         SP!Devices, S!EnvSet, SP!EnvSet, S!Longest, SP!Longest

LEMMA SameNext == S!Next <=> SP!Next
  BY DEF S!Next, SP!Next, S!Imu, SP!Imu, S!Env, SP!Env, S!Tick,
         SP!Tick, S!ImuSkip, SP!ImuSkip, S!ImuFails, SP!ImuFails,
         S!ImuFlag, SP!ImuFlag, S!ImuReads, SP!ImuReads, S!EnvSample,
         SP!EnvSample, S!EnvValues, SP!EnvValues, S!EnvFlag,
         SP!EnvFlag, S!shown, SP!shown, S!devices, SP!devices,
         S!history, SP!history, S!Attempt, SP!Attempt, S!RetryAt,
         SP!RetryAt, S!Plus, SP!Plus, S!Elapsed, SP!Elapsed,
         S!retry_due, SP!retry_due, S!hk_bmi270_read,
         SP!hk_bmi270_read, S!hk_deriv_lpf_update,
         SP!hk_deriv_lpf_update, S!EnvDue, SP!EnvDue, S!Backoff,
         SP!Backoff, S!FlagsAfter, SP!FlagsAfter, S!Older, SP!Older,
         S!Longest, SP!Longest, S!EnvAsleep, SP!EnvAsleep, S!Devices,
         SP!Devices, S!EnvSet, SP!EnvSet

LEMMA SameInit == S!Init <=> SP!Init
  BY DEF S!Init, SP!Init, S!InitWith, SP!InitWith, S!Plus, SP!Plus,
         S!EnvAsleep, SP!EnvAsleep, S!Devices, SP!Devices, S!EnvSet,
         SP!EnvSet, S!hk_bmi270_init, SP!hk_bmi270_init, S!Clock,
         SP!Clock

\* What holds of a flight besides: time goes on by the tick, and a device that
\* does not answer has failed.
Motions == {"ground", "climb", "hang", "fall", "landed"}

Base ==
  /\ IInv /\ S!TryInv /\ S!TypeOK
  /\ now = clock \/ clock = Plus(now, 1)
  /\ motion \in Motions /\ height \in 0 .. Top /\ (motion = "ground" => height = 0)
  /\ (motion = "hang" => height = Top)
  /\ spikes \in Nat /\ lapses \in [Sensors -> Nat] /\ waiting \in Nat
  /\ \A d \in Sensors \ answered : lapses[d] > 0

\* The invariants of the sampling tasks, as SensorProofs has them.
LEMMA SensorsStep ==
  ASSUME S!TryInv, S!TypeOK, [S!Next]_(S!vars)
  PROVE  S!TryInv' /\ S!TypeOK'
<1>1. SP!TryInv /\ SP!TypeOK /\ [SP!Next]_(SP!vars)
  <2>1. CASE S!Next
    BY <2>1, SameInv, SameTypes, SameNext
  <2>2. CASE UNCHANGED S!vars
    <3>1. UNCHANGED SP!vars
      BY <2>2 DEF S!vars, S!shown, S!devices, S!tasks, S!history,
                  SP!vars, SP!shown, SP!devices, SP!tasks, SP!history
    <3> QED
      BY <3>1, SameInv, SameTypes
  <2> QED
    BY <2>1, <2>2
<1>2. SP!TryInv'
  BY <1>1, SensorsApply, SP!TryStep
<1>3. SP!FreshInv
  BY <1>1 DEF SP!TryInv
<1>4. SP!TypeOK'
  <2>1. CASE UNCHANGED SP!vars
    BY <1>1, <2>1 DEF SP!vars, SP!shown, SP!devices, SP!tasks, SP!history, SP!TypeOK
  <2> QED
    BY <1>1, <1>3, <2>1, SensorsApply, SP!TypeImu, SP!TypeEnv, SP!TypeTick DEF SP!Next
<1>5. S!TryInv' <=> SP!TryInv'
  BY SameInv, PTL
<1>6. S!TypeOK' <=> SP!TypeOK'
  BY SameTypes, PTL
<1> QED
  BY <1>2, <1>4, <1>5, <1>6

\* A flight begins in a state of both components.
LEMMA BaseInit ==
  FlightInit => Base
<1> SUFFICES ASSUME FlightInit PROVE Base
  OBVIOUS
<1>1. IInv
  BY InitInv DEF FlightInit
<1>2. S!Init
  <2>1. PICK cold \in SUBSET ColdStarts : S!InitWith(Sensors \ cold)
    BY DEF FlightInit
  <2> QED
    BY <2>1 DEF S!Init, Sensors
<1>3. S!TryInv /\ S!TypeOK
  BY <1>2, SameInit, SameInv, SameTypes, SensorsApply, SP!TryInit, SP!TypeInit
<1>4. \A d \in Sensors \ answered : lapses[d] > 0
  BY DEF FlightInit, S!InitWith
<1>5. lapses \in [Sensors -> Nat]
  BY DEF FlightInit
<1> QED
  BY <1>1, <1>3, <1>4, <1>5, FlightAssumption DEF Base, FlightInit, Motions

\* Every step of a flight is one of the sensors or leaves them alone.
LEMMA SensorSteps ==
  ASSUME Base, [FlightNext]_flight
  PROVE  [S!Next]_(S!vars) /\ S!TryInv' /\ S!TypeOK'
<1>1. OneG \in Nat /\ TrueAccel \in {0, OneG} /\ OneG - TrueAccel \in {0, OneG}
  BY InputAssumption DEF TrueAccel
<1>2. height \in 0 .. Top /\ S!TryInv /\ S!TypeOK
  BY DEF Base
<1>3. ASSUME Imu PROVE S!Next
  BY <1>1, <1>3 DEF Imu, S!Next, S!Imu
<1>4. ASSUME ImuSpike PROVE S!Next
  BY <1>1, <1>4 DEF ImuSpike, S!Next, S!Imu
<1>5. ASSUME Env PROVE S!Next
  BY <1>2, <1>5 DEF Env, S!Next, S!Env
<1>6. ASSUME Outage PROVE S!Next
  BY <1>2, <1>6 DEF Outage, S!Next, S!Env, S!Imu
<1>7. ASSUME task_mission PROVE UNCHANGED S!vars
  BY <1>7 DEF task_mission, sensors, S!vars, S!shown, S!devices, S!tasks, S!history
<1>8. ASSUME TimePasses PROVE S!Next
  BY <1>8 DEF TimePasses, S!Next
<1>9. ASSUME UNCHANGED flight PROVE UNCHANGED S!vars
  BY <1>9 DEF flight, sensors, S!vars, S!shown, S!devices, S!tasks, S!history
<1>10. [S!Next]_(S!vars)
  BY <1>3, <1>4, <1>5, <1>6, <1>7, <1>8, <1>9 DEF FlightNext
<1> QED
  BY <1>2, <1>10, SensorsStep

\* IInv speaks of the machine alone.
LEMMA MachineKept ==
  IInv /\ UNCHANGED vars => IInv'
  BY DEF vars, hk_mission_t, IInv, TypeOK, TimersTrue, Debounced, EnteredTrue,
         BoundedStay

\* task_mission runs one ms of the model after it ran before.
LEMMA MissionRuns ==
  ASSUME Base, task_mission
  PROVE  /\ Tick(1, MissionIn) /\ TickHyp(1, MissionIn) /\ IInv'
         /\ now' = clock /\ clock' = clock
<1>1. now \in Clock /\ 1 \in 0 .. MaxGap /\ 1 \in 1 .. MaxGap
  BY ClockAssumption DEF Base, IInv, TypeOK
<1>2. clock = Plus(now, 1)
  BY DEF Base, task_mission
<1>3. Elapsed(clock, now) = 1
  BY <1>1, <1>2, ClockStep
<1>4. Tick(1, MissionIn)
  BY <1>3 DEF task_mission
<1> QED
  BY <1>1, <1>2, <1>4, TickInv DEF Base, Tick, task_mission, sensors

\* The capsule stays between the ground and Top, and rises until it falls.
LEMMA Moving ==
  ASSUME Base, TimePasses
  PROVE  /\ motion' \in Motions /\ height' \in 0 .. Top
         /\ motion' = "ground" => height' = 0
         /\ motion' = "hang" => height' = Top
         /\ motion' \notin {"fall", "landed"}
              => motion \notin {"fall", "landed"} /\ height <= height'
<1>1. /\ Top \in Nat /\ Climb \in 1 .. Top /\ Fall \in 1 .. Top
      /\ height \in 0 .. Top /\ (motion = "ground" => height = 0)
  BY FlightAssumption DEF Base
<1>2. height' = CASE motion' = "climb"  -> height + Climb
                  [] motion' = "hang"   -> Top
                  [] motion' = "fall"   -> height - Fall
                  [] OTHER              -> 0
  BY DEF TimePasses
<1>3. CASE motion = "ground" /\ motion' = "ground"
  BY <1>1, <1>2, <1>3 DEF Motions
<1>4. CASE motion' = "climb" /\ (motion = "ground" \/ (motion = "climb" /\ height + Climb < Top))
  BY <1>1, <1>2, <1>4 DEF Motions
<1>5. CASE motion \in {"climb", "hang"} /\ motion' = "hang"
  BY <1>1, <1>2, <1>5 DEF Motions
<1>6. CASE motion' = "fall" /\ (motion = "fall" /\ height > Fall)
  BY <1>1, <1>2, <1>6 DEF Motions
<1>7. CASE motion = "hang" /\ motion' = "fall"
  <2>1. height = Top
    BY <1>7 DEF Base
  <2> QED
    BY <1>1, <1>2, <1>7, <2>1 DEF Motions
<1>8. CASE motion = "fall" /\ motion' = "landed"
  BY <1>1, <1>2, <1>8 DEF Motions
<1>9. \/ motion = "ground" /\ motion' = "ground"
      \/ motion' = "climb" /\ (motion = "ground" \/ (motion = "climb" /\ height + Climb < Top))
      \/ motion \in {"climb", "hang"} /\ motion' = "hang"
      \/ motion' = "fall" /\ (motion = "fall" /\ height > Fall)
      \/ motion = "hang" /\ motion' = "fall"
      \/ motion = "fall" /\ motion' = "landed"
  BY DEF TimePasses, Moves
<1> QED
  BY <1>3, <1>4, <1>5, <1>6, <1>7, <1>8, <1>9

\* The step: one case for each task, and one for the world.
LEMMA BaseStep ==
  Base /\ [FlightNext]_flight => Base'
<1> SUFFICES ASSUME Base, [FlightNext]_flight PROVE Base'
  OBVIOUS
<1>1. S!TryInv' /\ S!TypeOK'
  BY SensorSteps
<1>2. now \in Clock /\ spikes \in Nat /\ waiting \in Nat
      /\ lapses \in [Sensors -> Nat] /\ \A d \in Sensors \ answered : lapses[d] > 0
  BY DEF Base, IInv, TypeOK
<1>3. CASE Imu
  <2>1. answered \subseteq answered'
    BY <1>3 DEF Imu, S!ImuSkip, S!ImuFlag, S!ImuReads, S!Attempt, S!history
  <2>2. IInv' /\ UNCHANGED <<now, clock>> /\ UNCHANGED world
    BY <1>3, MachineKept DEF Base, Imu, S!ImuSkip, S!ImuFlag, S!ImuReads, vars
  <2> QED
    BY <1>1, <2>1, <2>2 DEF Base, world
<1>4. CASE ImuSpike
  <2>1. answered \subseteq answered'
    BY <1>4 DEF ImuSpike, S!ImuReads, S!Attempt
  <2>2. IInv' /\ UNCHANGED <<now, clock>> /\ UNCHANGED <<motion, height, lapses, waiting>>
        /\ spikes' = spikes + 1
    BY <1>4, MachineKept DEF Base, ImuSpike, S!ImuReads, vars
  <2> QED
    BY <1>1, <1>2, <2>1, <2>2 DEF Base
<1>5. CASE Env
  <2>1. answered \subseteq answered'
    BY <1>5 DEF Env, S!EnvSample, S!EnvValues, S!EnvFlag, S!Attempt, S!history
  <2>2. IInv' /\ UNCHANGED <<now, clock>> /\ UNCHANGED world
    BY <1>5, MachineKept DEF Base, Env, S!EnvSample, S!EnvValues, S!EnvFlag, vars
  <2> QED
    BY <1>1, <2>1, <2>2 DEF Base, world
<1>6. CASE Outage
  <2>1. PICK d \in Sensors :
          /\ IF d = "BMI270" THEN S!ImuFails
             ELSE S!EnvDue # {} /\ S!EnvSample({}, height)
          /\ lapses' = [lapses EXCEPT ![d] = @ + 1]
          /\ UNCHANGED <<vars, height, motion, dwell, spikes, waiting>>
    BY <1>6 DEF Outage
  <2>2. answered \ {d} \subseteq answered'
    <3>1. CASE d = "BMI270"
      BY <2>1, <3>1 DEF S!ImuFails, S!Attempt
    <3>2. CASE d # "BMI270"
      <4>1. d = "BARO" /\ S!EnvDue \subseteq {"BARO"}
        BY <3>2, SensorsApply DEF Sensors, S!EnvDue
      <4> QED
        BY <2>1, <3>2, <4>1 DEF S!EnvSample, S!Attempt
    <3> QED
      BY <3>1, <3>2
  <2>3. lapses' \in [Sensors -> Nat] /\ lapses'[d] > 0
        /\ \A e \in Sensors \ {d} : lapses'[e] = lapses[e]
    BY <1>2, <2>1
  <2>4. IInv' /\ UNCHANGED <<now, clock>>
    BY <2>1, MachineKept DEF Base, S!ImuFails, S!EnvSample, vars
  <2> QED
    BY <1>1, <1>2, <2>1, <2>2, <2>3, <2>4 DEF Base
<1>7. CASE task_mission
  <2>1. IInv' /\ now' = clock /\ clock' = clock
    BY <1>7, MissionRuns
  <2>2. waiting' \in Nat /\ UNCHANGED <<answered, lapses, spikes, motion, height>>
    BY <1>2, <1>7 DEF task_mission, sensors
  <2> QED
    BY <1>1, <2>1, <2>2 DEF Base
<1>8. CASE TimePasses
  <2>1. IInv' /\ now' = now /\ now = clock
    BY <1>8, MachineKept DEF Base, TimePasses, vars
  <2>2. clock' = Plus(now, 1)
    BY <2>1, <1>8 DEF TimePasses, S!Tick, S!Plus, Plus
  <2>3. motion' \in Motions /\ height' \in 0 .. Top /\ (motion' = "ground" => height' = 0)
        /\ (motion' = "hang" => height' = Top)
    BY <1>8, Moving
  <2>4. waiting' \in Nat /\ UNCHANGED <<answered, lapses, spikes>>
    BY <1>2, <1>8 DEF TimePasses, S!Tick
  <2> QED
    BY <1>1, <1>2, <2>1, <2>2, <2>3, <2>4 DEF Base
<1>9. CASE UNCHANGED flight
  BY <1>1, <1>9, MachineKept DEF Base, flight, sensors, world, vars
<1> QED
  BY <1>3, <1>4, <1>5, <1>6, <1>7, <1>8, <1>9 DEF FlightNext

-----------------------------------------------------------------------------
(* What the steps of each task do to what the other task and the machine   *)
(* see.                                                                    *)

ImuSideKept ==
  /\ imu' = imu /\ S!ImuLag' = S!ImuLag
  /\ "BMI270" \in sensor_ok' <=> "BMI270" \in sensor_ok
  /\ "BMI270" \in answered' <=> "BMI270" \in answered
  /\ picture'.accel_g = picture.accel_g
  /\ since_try'["BMI270"] = since_try["BMI270"]

EnvSideKept ==
  /\ UNCHANGED <<env, vspeed, phase>> /\ S!EnvLag' = S!EnvLag
  /\ "env" \in due' <=> "env" \in due
  /\ "BARO" \in sensor_ok' <=> "BARO" \in sensor_ok
  /\ "BARO" \in answered' <=> "BARO" \in answered
  /\ picture'.alt_m = picture.alt_m /\ picture'.vspeed_ms = picture.vspeed_ms
  /\ since_try'["BARO"] = since_try["BARO"]

\* What holds of the IMU between any two steps: it is due if it answered last,
\* and its flag tells whether it did but for the moment before it is set.
LEMMA ImuFacts ==
  ASSUME Base
  PROVE  /\ S!ImuLag \in {0, 1} /\ imu \in {"sleep", "flag"}
         /\ imu = "flag" => S!ImuLag = 0 /\ "BMI270" \in answered /\ "imu" \in due
         /\ imu = "sleep" => ("BMI270" \in sensor_ok <=> "BMI270" \in answered)
         /\ "BMI270" \in answered => S!retry_due(clock, retry_at_ms["BMI270"])
         /\ since_try["BMI270"] \in Nat
         /\ "BMI270" \notin answered => since_try["BMI270"] <= RETRY - 1 + S!ImuLag
<1>1. /\ S!FreshInv /\ S!FlagsInv /\ SP!FreshInv
  BY SameInv DEF Base, S!TryInv, S!FreshInv, SP!TryInv
<1>2. "BMI270" \in S!Devices /\ S!Lag("BMI270") = S!ImuLag /\ S!ImuLag \in {0, 1}
  BY DEF S!Devices, S!Lag, S!ImuLag
<1>3. imu = "flag" => S!ImuLag = 0 /\ "imu" \in due
  BY <1>1 DEF S!FreshInv, S!ImuLag
<1>4. "BMI270" \in answered => S!retry_due(clock, retry_at_ms["BMI270"])
  <2>1. clock \in S!Clock /\ retry_at_ms["BMI270"] \in S!Clock
    BY <1>1, <1>2 DEF S!FreshInv
  <2>2. "BMI270" \in answered => S!Elapsed(clock, retry_at_ms["BMI270"]) <= 1
    <3>1. S!Elapsed(clock, retry_at_ms["BMI270"]) \in Int
      BY <2>1, ClockAssumption DEF S!Elapsed, S!Clock
    <3> QED
      BY <1>1, <1>2, <3>1 DEF S!FreshInv
  <2> QED
    BY <2>1, <2>2, FlightAssumption, ClockAssumption DEF S!retry_due, S!Elapsed, S!Clock
<1>5. since_try["BMI270"] \in Nat
      /\ ("BMI270" \notin answered => since_try["BMI270"] <= RETRY - 1 + S!ImuLag)
  BY <1>2 DEF Base, S!TryInv
<1> QED
  BY <1>1, <1>2, <1>3, <1>4, <1>5 DEF S!FlagsInv, S!Told

\* A step of task_imu, seen from task_env.
LEMMA ImuPass ==
  ASSUME Base, S!ImuSkip \/ S!ImuFlag \/ S!ImuFails \/ \E a : S!ImuReads(a)
  PROVE  EnvSideKept /\ S!ImuLag' = 0 /\ UNCHANGED clock
<1>1. "BARO" \in S!Devices /\ "BMI270" \in S!Devices
  BY SensorsApply DEF Sensors
<1>2. picture \in [alt_m : (0 .. Top) \cup {0}, vspeed_ms : Int, accel_g : {0, OneG} \cup {0}]
      /\ since_try \in [S!Devices -> 0 .. S!Longest + 1]
  BY DEF Base, S!TypeOK
<1>3. UNCHANGED <<env, vspeed, phase, clock>> /\ ("env" \in due' <=> "env" \in due)
  BY DEF S!ImuSkip, S!ImuFlag, S!ImuFails, S!ImuReads, S!devices
<1>4. S!EnvLag' = S!EnvLag
  BY <1>3 DEF S!EnvLag
<1>5. /\ "BARO" \in sensor_ok' <=> "BARO" \in sensor_ok
      /\ "BARO" \in answered' <=> "BARO" \in answered
      /\ since_try'["BARO"] = since_try["BARO"]
      /\ picture'.alt_m = picture.alt_m /\ picture'.vspeed_ms = picture.vspeed_ms
  BY <1>1, <1>2 DEF S!ImuSkip, S!ImuFlag, S!ImuFails, S!ImuReads, S!Attempt, S!history, S!shown
<1>6. S!ImuLag' = 0
  BY DEF S!ImuLag, S!ImuSkip, S!ImuFlag, S!ImuFails, S!ImuReads
<1> QED
  BY <1>3, <1>4, <1>5, <1>6 DEF EnvSideKept

\* What each step of task_imu needs and leaves.
LEMMA ImuEffects ==
  ASSUME Base, NEW a
  PROVE  /\ S!ImuSkip =>
              /\ "BMI270" \notin answered /\ "BMI270" \notin sensor_ok
              /\ imu = "sleep" /\ UNCHANGED <<imu, picture, sensor_ok, answered, since_try>>
         /\ S!ImuFlag =>
              /\ imu = "flag" /\ imu' = "sleep" /\ S!ImuLag = 0
              /\ "BMI270" \in answered /\ "BMI270" \in sensor_ok'
              /\ UNCHANGED <<picture, answered, since_try>>
         /\ S!ImuReads(a) =>
              /\ S!ImuLag = 1 /\ imu = "sleep" /\ imu' = "flag" /\ "BMI270" \in answered'
              /\ picture'.accel_g = (IF scaled THEN a ELSE 0) /\ UNCHANGED sensor_ok
         /\ S!ImuFails =>
              /\ S!ImuLag = 1 /\ imu = "sleep" /\ imu' = "sleep"
              /\ "BMI270" \notin answered' /\ "BMI270" \notin sensor_ok'
              /\ since_try'["BMI270"] = 0 /\ UNCHANGED picture
<1>1. "BMI270" \in S!Devices
  BY SensorsApply DEF Sensors
<1>2. picture \in [alt_m : (0 .. Top) \cup {0}, vspeed_ms : Int, accel_g : {0, OneG} \cup {0}]
  BY DEF Base, S!TypeOK
<1>3. ASSUME S!ImuSkip
      PROVE  /\ "BMI270" \notin answered /\ "BMI270" \notin sensor_ok /\ imu = "sleep"
             /\ UNCHANGED <<imu, picture, sensor_ok, answered, since_try>>
  BY <1>3, ImuFacts DEF S!ImuSkip, S!shown, S!history
<1>4. ASSUME S!ImuFlag
      PROVE  /\ imu = "flag" /\ imu' = "sleep" /\ S!ImuLag = 0
             /\ "BMI270" \in answered /\ "BMI270" \in sensor_ok'
             /\ UNCHANGED <<picture, answered, since_try>>
  BY <1>4, ImuFacts DEF S!ImuFlag, S!history
<1>5. ASSUME S!ImuReads(a)
      PROVE  /\ S!ImuLag = 1 /\ imu = "sleep" /\ imu' = "flag" /\ "BMI270" \in answered'
             /\ picture'.accel_g = (IF scaled THEN a ELSE 0) /\ UNCHANGED sensor_ok
  BY <1>2, <1>5 DEF S!ImuReads, S!ImuLag, S!Attempt, S!hk_bmi270_read
<1>6. ASSUME S!ImuFails
      PROVE  /\ S!ImuLag = 1 /\ imu = "sleep" /\ imu' = "sleep"
             /\ "BMI270" \notin answered' /\ "BMI270" \notin sensor_ok'
             /\ since_try'["BMI270"] = 0 /\ UNCHANGED picture
  BY <1>1, <1>6 DEF S!ImuFails, S!ImuLag, S!Attempt
<1> QED
  BY <1>3, <1>4, <1>5, <1>6

\* The same of the barometer: it is due if it answered last, a pass knows that
\* it did, and between two passes the flag tells.
LEMMA EnvFacts ==
  ASSUME Base
  PROVE  /\ env.pc \in {"sleep", "values", "BARO"} /\ DOMAIN env = DOMAIN S!EnvAsleep
         /\ phase \in 0 .. EnvPeriod - 1 /\ ("env" \in due => phase < EnvJitter)
         /\ S!EnvLag = IF "env" \in due /\ env.pc = "sleep" THEN EnvPeriod + phase ELSE phase
         /\ env.pc # "sleep" => "env" \in due
         /\ "BARO" \in answered => "BARO" \in S!EnvDue
         /\ env.pc = "sleep" => ("BARO" \in sensor_ok <=> "BARO" \in answered)
         /\ env.pc # "sleep" /\ "BARO" \in answered => "BARO" \in env.try /\ "BARO" \in env.ok
         /\ since_try["BARO"] \in Nat
         /\ "BARO" \notin answered => since_try["BARO"] <= RETRY - 1 + S!EnvLag
<1>1. /\ S!FreshInv /\ S!FlagsInv /\ S!TypeOK
  BY DEF Base, S!TryInv, S!FreshInv
<1>2. /\ "BARO" \in S!Devices /\ "BARO" \in S!EnvSet /\ S!EnvSet = {"BARO"}
      /\ S!Lag("BARO") = S!EnvLag
  BY SensorsApply DEF Sensors, S!Lag
<1>3. "BARO" \in answered => "BARO" \in S!EnvDue
  <2>1. clock \in S!Clock /\ retry_at_ms["BARO"] \in S!Clock
    BY <1>1, <1>2 DEF S!FreshInv
  <2>2. S!Elapsed(clock, retry_at_ms["BARO"]) \in Nat
    BY <2>1, ClockAssumption DEF S!Elapsed, S!Clock
  <2>3. S!EnvLag \in Nat /\ S!EnvLag < EnvPeriod + EnvJitter
    BY <1>1, FlightAssumption DEF S!FreshInv, S!EnvLag
  <2>4. "BARO" \in answered
          => S!Elapsed(clock, retry_at_ms["BARO"]) < EnvPeriod + EnvJitter
    <3>1. "BARO" \in answered => S!Elapsed(clock, retry_at_ms["BARO"]) <= S!EnvLag
      BY <1>1, <1>2 DEF S!FreshInv
    <3> QED
      BY <2>2, <2>3, <3>1, FlightAssumption
  <2>5. "BARO" \in answered => S!Elapsed(clock, retry_at_ms["BARO"]) < ClockMod \div 2
    BY <2>2, <2>4, FlightAssumption, ClockAssumption
  <2> QED
    BY <1>2, <2>5 DEF S!EnvDue, S!retry_due
<1>4. since_try["BARO"] \in Nat
      /\ ("BARO" \notin answered => since_try["BARO"] <= RETRY - 1 + S!EnvLag)
  BY <1>2 DEF Base, S!TryInv
<1>5. env.pc # "sleep" => "env" \in due /\ ("BARO" \in answered => "BARO" \in env.try)
  BY <1>1, <1>2 DEF S!FreshInv
<1>6. /\ env.pc \in {"sleep", "values", "BARO"} /\ DOMAIN env = DOMAIN S!EnvAsleep
      /\ env.pc = "sleep" => ("BARO" \in sensor_ok <=> "BARO" \in answered)
      /\ env.pc # "sleep" => ("BARO" \in env.try => ("BARO" \in answered <=> "BARO" \in env.ok))
  BY <1>1, <1>2 DEF S!FlagsInv, S!Told
<1>7. phase \in 0 .. EnvPeriod - 1 /\ ("env" \in due => phase < EnvJitter)
  BY <1>1 DEF S!FreshInv
<1> QED
  BY <1>3, <1>4, <1>5, <1>6, <1>7 DEF S!EnvLag

\* A step of task_env, seen from task_imu.
LEMMA EnvPass ==
  ASSUME Base, S!EnvValues \/ S!EnvFlag \/ \E ok, alt : S!EnvSample(ok, alt)
  PROVE  ImuSideKept /\ UNCHANGED <<clock, phase>>
<1>1. "BARO" \in S!Devices /\ "BMI270" \in S!Devices /\ S!EnvSet = {"BARO"}
      /\ EnvDevices[1] = "BARO" /\ DOMAIN EnvDevices = {1}
  BY SensorsApply DEF Sensors
<1>2. picture \in [alt_m : (0 .. Top) \cup {0}, vspeed_ms : Int, accel_g : {0, OneG} \cup {0}]
      /\ since_try \in [S!Devices -> 0 .. S!Longest + 1]
  BY DEF Base, S!TypeOK
<1>3. UNCHANGED <<imu, clock, phase>> /\ ("imu" \in due' <=> "imu" \in due)
  BY DEF S!EnvValues, S!EnvFlag, S!EnvSample
<1>4. S!ImuLag' = S!ImuLag
  BY <1>3 DEF S!ImuLag
<1>5. CASE S!EnvValues
  BY <1>2, <1>3, <1>4, <1>5 DEF S!EnvValues, ImuSideKept
<1>6. CASE S!EnvFlag
  BY <1>1, <1>2, <1>3, <1>4, <1>6 DEF S!EnvFlag, S!FlagsAfter, S!history, ImuSideKept
<1>7. ASSUME NEW ok, NEW alt, S!EnvSample(ok, alt) PROVE ImuSideKept
  <2>1. "BMI270" \notin S!EnvDue /\ "BMI270" \notin ok
    BY <1>1, <1>7 DEF S!EnvDue, S!EnvSample
  <2> QED
    BY <1>1, <1>2, <1>3, <1>4, <1>7, <2>1 DEF S!EnvSample, S!Attempt, S!shown, ImuSideKept
<1> QED
  BY <1>3, <1>5, <1>6, <1>7

\* What each step of task_env needs and leaves.
LEMMA EnvEffects ==
  ASSUME Base, NEW ok, NEW alt
  PROVE  /\ S!EnvSample(ok, alt) =>
              /\ env.pc = "sleep" /\ env'.pc = "values" /\ UNCHANGED <<due, picture, sensor_ok>>
              /\ "env" \in due /\ S!EnvLag = EnvPeriod + phase /\ S!EnvLag' = phase
              /\ env'.ok = ok /\ ok \subseteq S!EnvDue
              /\ vspeed' = (IF "BARO" \in ok THEN S!hk_deriv_lpf_update(vspeed, alt) ELSE vspeed)
              /\ env'.vs = vspeed'.value
              /\ "BARO" \in ok => "BARO" \in answered' /\ env'.alt_m = alt
              /\ "BARO" \notin S!EnvDue => /\ "BARO" \notin answered /\ "BARO" \notin answered'
                                           /\ since_try'["BARO"] = since_try["BARO"]
              /\ "BARO" \in S!EnvDue /\ "BARO" \notin ok =>
                   "BARO" \notin answered' /\ since_try'["BARO"] = 0
         /\ S!EnvValues =>
              /\ env.pc = "values" /\ env'.pc = "BARO" /\ S!EnvLag' = S!EnvLag
              /\ env'.ok = env.ok /\ env'.alt_m = env.alt_m /\ env'.vs = env.vs
              /\ UNCHANGED <<answered, since_try, sensor_ok, due, vspeed>>
              /\ IF "BARO" \in env.ok
                 THEN picture'.alt_m = env.alt_m /\ picture'.vspeed_ms = env.vs
                 ELSE picture' = picture
         /\ S!EnvFlag =>
              /\ env.pc = "BARO" /\ env'.pc = "sleep" /\ S!EnvLag' = S!EnvLag /\ env'.vs = 0
              /\ UNCHANGED <<answered, since_try, picture, vspeed>>
              /\ "BARO" \in env.ok /\ "BARO" \in env.try => "BARO" \in sensor_ok'
<1>1. "BARO" \in S!Devices /\ S!EnvSet = {"BARO"} /\ Len(EnvDevices) = 1
      /\ EnvDevices[1] = "BARO" /\ DOMAIN EnvDevices = {1} /\ Head(EnvDevices) = "BARO"
  BY SensorsApply DEF Sensors
<1>2. picture \in [alt_m : (0 .. Top) \cup {0}, vspeed_ms : Int, accel_g : {0, OneG} \cup {0}]
      /\ since_try \in [S!Devices -> 0 .. S!Longest + 1]
  BY DEF Base, S!TypeOK
<1>3. DOMAIN env = DOMAIN S!EnvAsleep /\ (env.pc # "sleep" => "env" \in due)
      /\ S!EnvLag = (IF "env" \in due /\ env.pc = "sleep" THEN EnvPeriod + phase ELSE phase)
      /\ ("BARO" \in answered => "BARO" \in S!EnvDue)
  BY EnvFacts
<1>4. ASSUME S!EnvSample(ok, alt)
      PROVE  /\ env.pc = "sleep" /\ env'.pc = "values" /\ UNCHANGED <<due, picture, sensor_ok>>
             /\ "env" \in due /\ S!EnvLag = EnvPeriod + phase /\ S!EnvLag' = phase
             /\ env'.ok = ok /\ ok \subseteq S!EnvDue
             /\ vspeed' = (IF "BARO" \in ok THEN S!hk_deriv_lpf_update(vspeed, alt) ELSE vspeed)
             /\ env'.vs = vspeed'.value
             /\ "BARO" \in ok => "BARO" \in answered' /\ env'.alt_m = alt
             /\ "BARO" \notin S!EnvDue => /\ "BARO" \notin answered /\ "BARO" \notin answered'
                                          /\ since_try'["BARO"] = since_try["BARO"]
             /\ "BARO" \in S!EnvDue /\ "BARO" \notin ok =>
                  "BARO" \notin answered' /\ since_try'["BARO"] = 0
  <2>1. /\ env.pc = "sleep" /\ UNCHANGED <<due, picture, sensor_ok, phase>> /\ "env" \in due
        /\ env' = [pc |-> "values", now |-> clock, try |-> S!EnvDue, ok |-> ok,
                   alt_m |-> IF "BARO" \in ok THEN alt ELSE 0, vs |-> vspeed'.value]
        /\ ok \subseteq S!EnvDue
        /\ vspeed' = (IF "BARO" \in ok THEN S!hk_deriv_lpf_update(vspeed, alt) ELSE vspeed)
        /\ since_try' = [d \in S!Devices |-> IF d \in S!EnvDue THEN 0 ELSE since_try[d]]
        /\ answered' = (answered \ S!EnvDue) \cup ok
    BY <1>4 DEF S!EnvSample, S!Attempt, S!shown
  <2>2. S!EnvLag = EnvPeriod + phase /\ S!EnvLag' = phase
    BY <1>3, <2>1 DEF S!EnvLag
  <2> QED
    BY <1>1, <1>3, <2>1, <2>2
<1>5. ASSUME S!EnvValues
      PROVE  /\ env.pc = "values" /\ env'.pc = "BARO" /\ S!EnvLag' = S!EnvLag
             /\ env'.ok = env.ok /\ env'.alt_m = env.alt_m /\ env'.vs = env.vs
             /\ UNCHANGED <<answered, since_try, sensor_ok, due, vspeed>>
             /\ IF "BARO" \in env.ok
                THEN picture'.alt_m = env.alt_m /\ picture'.vspeed_ms = env.vs
                ELSE picture' = picture
  <2>1. env.pc = "values" /\ env' = [env EXCEPT !.pc = "BARO"]
        /\ UNCHANGED <<answered, since_try, sensor_ok, due, vspeed, phase>>
        /\ picture' = IF "BARO" \in env.ok
                      THEN [picture EXCEPT !.alt_m = env.alt_m, !.vspeed_ms = env.vs]
                      ELSE picture
    BY <1>1, <1>5 DEF S!EnvValues, S!devices
  <2>2. env'.pc = "BARO" /\ env'.ok = env.ok /\ env'.alt_m = env.alt_m /\ env'.vs = env.vs
    BY <1>3, <2>1 DEF S!EnvAsleep
  <2> QED
    BY <1>2, <2>1, <2>2 DEF S!EnvLag
<1>6. ASSUME S!EnvFlag
      PROVE  /\ env.pc = "BARO" /\ env'.pc = "sleep" /\ S!EnvLag' = S!EnvLag /\ env'.vs = 0
             /\ UNCHANGED <<answered, since_try, picture, vspeed>>
             /\ "BARO" \in env.ok /\ "BARO" \in env.try => "BARO" \in sensor_ok'
  <2>1. /\ env.pc = "BARO" /\ env' = S!EnvAsleep /\ due' = due \ {"env"}
        /\ sensor_ok' = S!FlagsAfter("BARO")
        /\ UNCHANGED <<answered, since_try, picture, vspeed, phase>>
    BY <1>1, <1>6 DEF S!EnvFlag, S!devices, S!history
  <2> QED
    BY <2>1 DEF S!EnvLag, S!EnvAsleep, S!FlagsAfter
<1> QED
  BY <1>4, <1>5, <1>6

-----------------------------------------------------------------------------
(* What the machine has counted.                                           *)

\* How long state s has seen the condition of its first timer, and whether the
\* machine has yet to run in this tick.
Held(s) == IF state = s THEN held_a ELSE NotHeld
Yet     == IF now # clock THEN 1 ELSE 0

\* By TimersTrue of Mission no hold time is overrun.
LEMMA HeldFacts ==
  ASSUME Base
  PROVE  /\ \A s : Held(s) \in Nat \cup {NotHeld}
         /\ Held("ARMED") <= cfg.release_hold_ms /\ Held("ATTACHED") <= cfg.arm_hold_ms
         /\ Yet \in {0, 1}
         /\ cfg.release_hold_ms \in Nat /\ cfg.arm_hold_ms \in Nat
<1>1. /\ held_a \in Nat \cup {NotHeld} /\ Measures(cond_a_ms, held_a, now, HoldA(state))
  BY DEF Base, IInv, TypeOK, TimersTrue
<1>2. cfg.release_hold_ms \in Nat /\ cfg.arm_hold_ms \in Nat
  BY Durations, ClockAssumption DEF Duration
<1>3. HoldA("ARMED") = cfg.release_hold_ms /\ HoldA("ATTACHED") = cfg.arm_hold_ms
  BY DEF HoldA
<1>4. HoldA(state) \in Nat => held_a <= HoldA(state)
  BY <1>1 DEF Measures, NotHeld
<1> QED
  BY <1>1, <1>2, <1>3, <1>4 DEF Held, Yet, NotHeld

\* One run of task_mission counts one more, or starts anew.
LEMMA HeldNext ==
  ASSUME Base, task_mission, NEW s
  PROVE  Held(s)' = IF state = s /\ state' = s /\ WatchedA(s, MissionIn)
                    THEN Held(s) + 1 ELSE NotHeld
<1>1. Observe(1, MissionIn) /\ held_a \in Nat \cup {NotHeld}
  BY MissionRuns DEF Tick, Base, IInv, TypeOK
<1> QED
  BY <1>1 DEF Observe, Held, HeldAfter, NotHeld

\* No other step counts.
LEMMA HeldSame ==
  ASSUME UNCHANGED vars, UNCHANGED clock, NEW s
  PROVE  /\ Held(s)' = Held(s) /\ Yet' = Yet
         /\ state' = state /\ now' = now /\ held_a' = held_a
  BY DEF vars, hk_mission_t, Held, Yet

-----------------------------------------------------------------------------
(* Nothing but a fall releases the capsule.                                *)

FallSeen == picture.accel_g < cfg.release_freefall_g

\* A picture that shows a fall and is flagged, or will be by the next step.
Wild == FallSeen /\ ("BMI270" \in sensor_ok \/ imu = "flag")

\* The first tick, until task_imu has run: the picture is still empty.
Unsampled == /\ S!ImuLag = 1 /\ state \in {"BOOT", "SELFTEST"}
             /\ now # clock => state = "BOOT"

Falls == motion \in {"fall", "landed"}

\* Before the fall, a wild sample is seen by at most two runs of task_mission,
\* and those still to come are counted in advance.
SpikeInv ==
  /\ scaled /\ spikes <= MaxSpikes
  /\ \/ Unsampled \/ Falls
     \/ /\ Held("ARMED") <= 2 * spikes - 1
        /\ Wild => Held("ARMED") + 1 - S!ImuLag + Yet <= 2 * spikes - 1

LEMMA SpikeInit ==
  "BMI270" \notin ColdStarts /\ FlightInit => SpikeInv
<1> SUFFICES ASSUME "BMI270" \notin ColdStarts, FlightInit PROVE SpikeInv
  OBVIOUS
<1>1. PICK cold \in SUBSET ColdStarts : S!InitWith(Sensors \ cold)
  BY DEF FlightInit
<1>2. "BMI270" \in Sensors \ cold
  BY <1>1 DEF Sensors
<1>3. scaled /\ S!ImuLag = 1
  BY <1>1, <1>2 DEF S!InitWith, S!hk_bmi270_init, S!ImuLag
<1>4. state = "BOOT" /\ spikes = 0
  BY DEF FlightInit, Init
<1> QED
  BY <1>3, <1>4, FlightAssumption DEF SpikeInv, Unsampled

\* A wild sample is replaced by a true one in the next tick, or its flag falls.
LEMMA SpikeStep ==
  ASSUME Base, SpikeInv, [FlightNext]_flight, cfg.release_freefall_g <= OneG
  PROVE  SpikeInv'
<1>1. /\ S!ImuLag \in {0, 1} /\ spikes \in Nat /\ Yet \in {0, 1}
      /\ Held("ARMED") \in Nat \cup {NotHeld} /\ imu \in {"sleep", "flag"}
      /\ imu = "flag" => S!ImuLag = 0 /\ "imu" \in due
      /\ MaxSpikes \in Nat
  BY ImuFacts, HeldFacts, FlightAssumption DEF Base
<1>2. Unsampled => Held("ARMED") = NotHeld
  BY DEF Unsampled, Held
<1> DEFINE h == Held("ARMED")  Few == h <= 2 * spikes - 1
<1>3. Falls \/ Few
  BY <1>1, <1>2 DEF SpikeInv, NotHeld
<1>4. (OneG \in Nat /\ TrueAccel = OneG) \/ Falls
  BY InputAssumption DEF TrueAccel, Falls
<1>5. CASE Imu
  <2>1. UNCHANGED vars /\ UNCHANGED world /\ UNCHANGED clock
        /\ scaled' = scaled
    BY <1>5 DEF Imu, S!ImuSkip, S!ImuFlag, S!ImuReads, S!devices
  <2>2. h' = h /\ Yet' = Yet /\ spikes' = spikes /\ motion' = motion /\ (Falls' <=> Falls)
    BY <2>1, HeldSame DEF world, Falls
  <2>3. CASE S!ImuSkip
    <3>1. ~Wild'
      BY <2>3, ImuEffects DEF Wild
    <3> QED
      BY <1>3, <2>1, <2>2, <3>1 DEF SpikeInv
  <2>4. CASE S!ImuReads(TrueAccel)
    <3>1. ~Wild' \/ Falls
      BY <1>4, <2>4, ImuEffects, CfgAssumption DEF Wild, FallSeen, SpikeInv, Cfg
    <3> QED
      BY <1>3, <2>1, <2>2, <3>1 DEF SpikeInv
  <2>5. CASE S!ImuFlag
    <3>1. imu = "flag" /\ S!ImuLag = 0 /\ S!ImuLag' = 0 /\ (Wild' => Wild) /\ ~Unsampled
      <4>1. imu = "flag" /\ S!ImuLag = 0 /\ S!ImuLag' = 0 /\ picture' = picture
        BY <2>5, ImuEffects, ImuPass
      <4> QED
        BY <4>1 DEF Wild, FallSeen, Unsampled
    <3> QED
      BY <2>1, <2>2, <3>1 DEF SpikeInv
  <2> QED
    BY <1>5, <2>3, <2>4, <2>5 DEF Imu
<1>6. CASE ImuSpike
  <2>1. UNCHANGED vars /\ UNCHANGED clock /\ UNCHANGED motion /\ spikes' = spikes + 1
        /\ spikes < MaxSpikes /\ scaled' = scaled /\ S!ImuReads(OneG - TrueAccel)
    BY <1>6 DEF ImuSpike, S!ImuReads
  <2>2. S!ImuLag' = 0 /\ h' = h /\ Yet' = Yet /\ (Falls' <=> Falls)
    BY <2>1, ImuPass, HeldSame DEF Falls
  <2> QED
    BY <1>1, <1>3, <2>1, <2>2 DEF SpikeInv, NotHeld
<1>7. CASE Env \/ (Outage /\ ~S!ImuFails)
  <2>1. UNCHANGED vars /\ UNCHANGED <<motion, spikes>>
        /\ (S!EnvValues \/ S!EnvFlag \/ \E ok, alt : S!EnvSample(ok, alt))
    BY <1>7 DEF Env, Outage, world
  <2>2. ImuSideKept /\ UNCHANGED clock
    BY <2>1, EnvPass
  <2>3. scaled' = scaled
    BY <2>1 DEF S!EnvValues, S!EnvFlag, S!EnvSample, S!devices
  <2>4. h' = h /\ Yet' = Yet /\ state' = state /\ now' = now
    BY <2>1, <2>2, HeldSame
  <2> QED
    BY <2>1, <2>2, <2>3, <2>4 DEF SpikeInv, Unsampled, Falls, Wild, FallSeen, ImuSideKept
<1>8. CASE Outage /\ S!ImuFails
  <2>1. UNCHANGED vars /\ UNCHANGED clock /\ UNCHANGED <<motion, spikes>> /\ scaled' = scaled
    BY <1>8 DEF Outage, S!ImuFails
  <2>2. ~Wild'
    BY <1>8, ImuEffects DEF Wild
  <2>3. h' = h
    BY <2>1, HeldSame
  <2> QED
    BY <1>3, <2>1, <2>2, <2>3 DEF SpikeInv, Falls
<1>9. CASE task_mission
  <2>1. /\ UNCHANGED <<motion, spikes, scaled, imu, due, picture, sensor_ok>>
        /\ now # clock /\ now' = clock /\ clock' = clock
    BY <1>9, MissionRuns DEF task_mission, sensors
  <2>2. Yet = 1 /\ Yet' = 0 /\ S!ImuLag' = S!ImuLag /\ (Falls' <=> Falls) /\ (Wild' <=> Wild)
    BY <2>1 DEF Yet, S!ImuLag, Falls, Wild, FallSeen
  <2>3. CASE Unsampled
    <3>1. state = "BOOT" /\ state' = "SELFTEST"
      <4>1. state = "BOOT"
        BY <2>1, <2>3 DEF Unsampled
      <4>2. Boot(now', MissionIn)
        BY <1>9, <4>1, MissionRuns DEF Tick, hk_mission_step, Boot, Selftest, Attached,
           Armed, Release, Descent, Landed, Recovery
      <4> QED
        BY <4>1, <4>2 DEF Boot, enter
    <3> QED
      BY <2>1, <2>2, <2>3, <3>1 DEF SpikeInv, Unsampled
  <2>4. CASE Falls
    BY <2>1, <2>2, <2>4 DEF SpikeInv
  <2>5. CASE ~Unsampled /\ ~Falls
    <3>1. /\ h <= 2 * spikes - 1 /\ (Wild => h + 1 - S!ImuLag + Yet <= 2 * spikes - 1)
      BY <2>5 DEF SpikeInv
    <3>2. h' = NotHeld \/ (h' = h + 1 /\ Wild)
      <4>1. WatchedA("ARMED", MissionIn) => Wild
        BY DEF WatchedA, freefall, imu_ok, MissionIn, Wild, FallSeen
      <4> QED
        BY <1>9, <4>1, HeldNext
    <3>3. h' <= 2 * spikes - 1 /\ (Wild => h' + 1 - S!ImuLag <= 2 * spikes - 1)
      BY <1>1, <2>2, <3>1, <3>2 DEF NotHeld
    <3>4. h' + 1 - S!ImuLag + 0 = h' + 1 - S!ImuLag
      BY <1>1, <3>2 DEF NotHeld
    <3> QED
      BY <2>1, <2>2, <3>3, <3>4 DEF SpikeInv
  <2> QED
    BY <2>3, <2>4, <2>5
<1>10. CASE TimePasses
  <2>1. /\ UNCHANGED <<spikes, scaled, imu, picture, sensor_ok>> /\ UNCHANGED vars
        /\ now = clock /\ "imu" \notin due /\ "imu" \in due'
    BY <1>10 DEF TimePasses, S!Tick, S!shown, S!devices
  <2>2. S!ImuLag = 0 /\ S!ImuLag' = 1
    BY <1>1, <2>1 DEF S!ImuLag
  <2>3. Yet = 0 /\ Yet' \in {0, 1} /\ h' = h /\ (Wild' <=> Wild) /\ (Falls => Falls')
    <3>1. Falls => Falls'
      BY <1>10, Moving DEF Falls, Motions
    <3> QED
      BY <2>1, <3>1 DEF Yet, vars, hk_mission_t, Held, Wild, FallSeen
  <2>4. ~Unsampled
    BY <2>2 DEF Unsampled
  <2>5. Wild => h + 1 - 1 + Yet' <= h + 1 - 0 + 0
    BY <1>1, <2>3 DEF NotHeld
  <2>6. (Wild => h + 1 - 0 + 0 <= 2 * spikes - 1)
          => (Wild => h + 1 - 1 + Yet' <= 2 * spikes - 1)
    BY <1>1, <2>3 DEF NotHeld
  <2> QED
    BY <2>1, <2>2, <2>3, <2>4, <2>6 DEF SpikeInv
<1>11. CASE UNCHANGED flight
  <2>1. UNCHANGED vars /\ UNCHANGED <<clock, motion, spikes, scaled, imu, due, picture, sensor_ok>>
    BY <1>11 DEF flight, sensors, world
  <2>2. h' = h /\ Yet' = Yet /\ state' = state /\ now' = now
    BY <2>1, HeldSame
  <2> QED
    BY <2>1, <2>2 DEF SpikeInv, Unsampled, Falls, Wild, FallSeen, S!ImuLag
<1> QED
  BY <1>5, <1>6, <1>7, <1>8, <1>9, <1>10, <1>11 DEF FlightNext

\* Until the fall the altitudes only grow, and so the filter shows no descent.
RiseInv ==
  ~Falls => /\ vspeed.value >= 0 /\ vspeed.prev_x <= height
            /\ picture.vspeed_ms >= 0 /\ env.vs >= 0

\* The filter of an altitude that has not sunk since its last sample.
LEMMA FilterRises ==
  ASSUME Base, NEW alt \in Nat, vspeed.value >= 0, vspeed.prev_x <= alt
  PROVE  /\ S!hk_deriv_lpf_update(vspeed, alt).value >= 0
         /\ S!hk_deriv_lpf_update(vspeed, alt).prev_x = alt
<1>1. /\ vspeed \in [value : Int, prev_x : (0 .. Top) \cup {0}, primed : BOOLEAN]
      /\ Top \in Nat
  BY FlightAssumption DEF Base, S!TypeOK
<1>2. vspeed.value \in Int /\ vspeed.prev_x \in Int
  BY <1>1
<1>3. ASSUME NEW v \in Nat, NEW d \in Nat
      PROVE  v + (3 * (20 * d - v)) \div 10 >= 0
  OBVIOUS
<1>4. vspeed.value \in Nat /\ alt - vspeed.prev_x \in Nat
  BY <1>2
<1>5. vspeed.value + (3 * (20 * (alt - vspeed.prev_x) - vspeed.value)) \div 10 >= 0
  BY <1>3, <1>4
<1> QED
  BY <1>1, <1>5 DEF S!hk_deriv_lpf_update

LEMMA RiseInit ==
  FlightInit => RiseInv
<1> SUFFICES ASSUME FlightInit PROVE RiseInv
  OBVIOUS
<1>1. PICK cold \in SUBSET ColdStarts : S!InitWith(Sensors \ cold)
  BY DEF FlightInit
<1> QED
  BY <1>1 DEF FlightInit, S!InitWith, S!EnvAsleep, RiseInv

\* The filter takes only altitudes that were true, and those grow.
LEMMA RiseStep ==
  ASSUME Base, RiseInv, [FlightNext]_flight
  PROVE  RiseInv'
<1>1. height \in Nat /\ (~Falls' => ~Falls)
  <2>1. height \in Nat
    BY FlightAssumption DEF Base
  <2>2. CASE TimePasses
    BY <2>1, <2>2, Moving DEF Falls
  <2>3. CASE ~TimePasses
    BY <2>1, <2>3 DEF FlightNext, Imu, ImuSpike, Env, Outage, task_mission, flight, world, Falls
  <2> QED
    BY <2>2, <2>3
<1>2. CASE Imu \/ ImuSpike \/ (Outage /\ S!ImuFails)
  <2>1. UNCHANGED height
        /\ (S!ImuSkip \/ S!ImuFlag \/ S!ImuFails \/ \E a : S!ImuReads(a))
    BY <1>2 DEF Imu, ImuSpike, Outage, world
  <2>2. EnvSideKept
    BY <2>1, ImuPass
  <2> QED
    BY <1>1, <2>1, <2>2 DEF RiseInv, EnvSideKept
<1>3. CASE Env \/ (Outage /\ ~S!ImuFails)
  <2>1. UNCHANGED height
        /\ (S!EnvValues \/ S!EnvFlag \/ \E ok : S!EnvSample(ok, height))
    BY <1>3 DEF Env, Outage, world
  <2>2. CASE S!EnvValues
    BY <1>1, <2>1, <2>2, EnvEffects DEF RiseInv
  <2>3. CASE S!EnvFlag
    BY <1>1, <2>1, <2>3, EnvEffects DEF RiseInv
  <2>4. ASSUME NEW ok, S!EnvSample(ok, height) PROVE RiseInv'
    <3>1. /\ picture' = picture /\ env'.vs = vspeed'.value
          /\ vspeed' = (IF "BARO" \in ok THEN S!hk_deriv_lpf_update(vspeed, height) ELSE vspeed)
      BY <2>4, EnvEffects
    <3>2. ~Falls => vspeed'.value >= 0 /\ vspeed'.prev_x <= height
      BY <1>1, <3>1, FilterRises DEF RiseInv
    <3> QED
      BY <1>1, <2>1, <3>1, <3>2 DEF RiseInv
  <2> QED
    BY <2>1, <2>2, <2>3, <2>4
<1>4. CASE task_mission
  BY <1>1, <1>4 DEF task_mission, sensors, RiseInv
<1>5. CASE TimePasses
  <2>1. UNCHANGED <<vspeed, picture, env>>
    BY <1>5 DEF TimePasses, S!Tick, S!shown, S!devices
  <2>2. ~Falls' => height <= height' /\ height' \in Int
    BY <1>5, Moving DEF Falls
  <2>3. vspeed.prev_x \in Int
    <3>1. vspeed \in [value : Int, prev_x : (0 .. Top) \cup {0}, primed : BOOLEAN]
          /\ Top \in Nat
      BY FlightAssumption DEF Base, S!TypeOK
    <3> QED
      BY <3>1
  <2> QED
    BY <1>1, <2>1, <2>2, <2>3 DEF RiseInv
<1>6. CASE UNCHANGED flight
  BY <1>1, <1>6 DEF flight, sensors, world, RiseInv
<1> QED
  BY <1>2, <1>3, <1>4, <1>5, <1>6 DEF FlightNext

\* A capsule is released only when it falls: whatever the wild samples of the
\* IMU, as long as two ticks for each are less than the hold time, whatever the
\* outages of either sensor, and whenever the clock wraps (mission.c:137-143).
\* The IMU must have answered at boot: run flight_cold shows what happens if not.
THEOREM ReleaseHolds ==
  ASSUME "BMI270" \notin ColdStarts, 2 * MaxSpikes <= cfg.release_hold_ms,
         cfg.release_freefall_g <= OneG, cfg.release_vspeed_ms < 0
  PROVE  FlightSpec => ReleaseMeansFall
<1> DEFINE Inv == Base /\ SpikeInv /\ RiseInv
           Safe == state = "ARMED" /\ state' = "RELEASE" => motion \in {"fall", "landed"}
<1>1. FlightInit => Inv
  BY BaseInit, SpikeInit, RiseInit
<1>2. Inv /\ [FlightNext]_flight => Inv'
  BY BaseStep, SpikeStep, RiseStep
<1>3. Inv /\ [FlightNext]_flight => [Safe]_flight
  <2> SUFFICES ASSUME Inv, FlightNext, state = "ARMED", state' = "RELEASE", ~Falls
               PROVE  FALSE
    BY DEF Falls
  <2>1. task_mission
    BY DEF FlightNext, Imu, ImuSpike, Env, Outage, TimePasses, vars, hk_mission_t
  <2>2. Tick(1, MissionIn) /\ TickHyp(1, MissionIn)
    BY <2>1, MissionRuns
  <2>3. Armed(now', MissionIn)
    BY <2>2 DEF Tick, hk_mission_step, Boot, Selftest, Attached, Armed, Release,
       Descent, Landed, Recovery
  <2>4. ~sinking(MissionIn)
    <3>1. picture.vspeed_ms >= 0 /\ picture.vspeed_ms \in Int
      BY DEF RiseInv, Base, S!TypeOK
    <3>2. cfg.release_vspeed_ms \in Int
      BY CfgAssumption DEF Cfg
    <3> QED
      BY <3>1, <3>2 DEF sinking, MissionIn
  <2>5. Sustained(cond_a_ms, freefall(MissionIn), now', cfg.release_hold_ms)
    BY <2>3, <2>4 DEF Armed, Sustained, enter, Stay, MissionIn
  <2>6. Wild
    BY <2>5 DEF Sustained, freefall, imu_ok, MissionIn, Wild, FallSeen
  <2>7. Held("ARMED") + 1 >= cfg.release_hold_ms
    <3>1. WatchedA(state, MissionIn) = freefall(MissionIn)
          /\ HoldA(state) = cfg.release_hold_ms /\ freefall(MissionIn) = TRUE
      BY <2>5 DEF WatchedA, HoldA, Sustained, freefall
    <3>2. HeldAfter(held_a, TRUE, 1) >= cfg.release_hold_ms
      BY <2>2, <2>5, <3>1, TickTimers
    <3>3. held_a \in Nat \cup {NotHeld}
      BY DEF Base, IInv, TypeOK
    <3> QED
      BY <3>2, <3>3 DEF HeldAfter, Held, NotHeld
  <2>8. Held("ARMED") + 1 - S!ImuLag + 1 <= 2 * spikes - 1 /\ spikes <= MaxSpikes
    BY <2>1, <2>6 DEF SpikeInv, Unsampled, Yet, task_mission
  <2>9. /\ Held("ARMED") \in Int /\ S!ImuLag \in {0, 1} /\ spikes \in Nat
        /\ MaxSpikes \in Nat /\ cfg.release_hold_ms \in Nat
    BY HeldFacts, ImuFacts, FlightAssumption DEF Base, NotHeld
  <2> QED
    BY <2>7, <2>8, <2>9
<1> QED
  BY <1>1, <1>2, <1>3, PTL DEF FlightSpec, ReleaseMeansFall

-----------------------------------------------------------------------------
(* A fall is caught.                                                       *)

\* The products that count the losses.
LEMMA Times ==
  ASSUME NEW n \in Nat, NEW c \in Nat
  PROVE  /\ n * c \in Nat /\ (n + 1) * c = n * c + c
         /\ n > 0 => n * c >= c
<1>1. n * c \in Nat /\ (n + 1) * c = n * c + c
  OBVIOUS
<1>2. ASSUME n > 0 PROVE n * c >= c
  <2>1. n - 1 \in Nat /\ (n - 1) * c \in Nat
    BY <1>2
  <2>2. (n - 1 + 1) * c = (n - 1) * c + c
    BY <2>1
  <2>3. n - 1 + 1 = n
    OBVIOUS
  <2> QED
    BY <2>1, <2>2, <2>3
<1> QED
  BY <1>1, <1>2

\* How long the machine has owed the transition out of state s.
Owing(s) == IF state = s THEN waiting ELSE 0

\* The ticks that failed attempts and wild samples have cost.
FallLoss == lapses["BMI270"] * (RETRY + CatchTime) + spikes * CatchTime

\* While the IMU is silent the loss pays for the backoff; a fall it shows under
\* its flag is counted by the machine tick by tick; and one it does not show
\* yet began in this tick.
FallInv ==
  /\ Owing("ARMED") > 0 => motion = "fall"
  /\ IF "BMI270" \notin answered
     THEN Owing("ARMED") + RETRY <= FallLoss + since_try["BMI270"]
     ELSE IF FallSeen /\ "BMI270" \in sensor_ok
     THEN Owing("ARMED") <= FallLoss + Held("ARMED") + 2 + Yet
     ELSE /\ Owing("ARMED") <= FallLoss + 1
          /\ ~FallSeen => Owing("ARMED") <= FallLoss + S!ImuLag

\* Each outage of the IMU and each wild sample adds its share to the loss.
LEMMA FallLosses ==
  ASSUME Base
  PROVE  /\ FallLoss \in Nat /\ CatchTime \in Nat /\ RETRY \in Nat \ {0}
         /\ lapses["BMI270"] \in Nat
         /\ lapses["BMI270"] > 0 => FallLoss >= RETRY + CatchTime
         /\ "BMI270" \notin answered => FallLoss >= RETRY + CatchTime
         /\ lapses' = lapses /\ spikes' = spikes + 1 => FallLoss' = FallLoss + CatchTime
         /\ lapses'["BMI270"] = lapses["BMI270"] + 1 /\ spikes' = spikes
              => FallLoss' = FallLoss + RETRY + CatchTime
         /\ lapses'["BMI270"] = lapses["BMI270"] /\ spikes' = spikes => FallLoss' = FallLoss
<1> DEFINE n == lapses["BMI270"]  c == RETRY + CatchTime
<1>1. /\ n \in Nat /\ CatchTime \in Nat /\ RETRY \in Nat \ {0} /\ c \in Nat /\ spikes \in Nat
      /\ "BMI270" \notin answered => n > 0
  <2>1. CatchTime \in Nat /\ RETRY \in Nat \ {0}
    BY HeldFacts, FlightAssumption DEF CatchTime
  <2> QED
    BY <2>1 DEF Base, Sensors
<1>2. /\ n * c \in Nat /\ (n + 1) * c = n * c + c /\ (n > 0 => n * c >= c)
      /\ spikes * CatchTime \in Nat /\ (spikes + 1) * CatchTime = spikes * CatchTime + CatchTime
  BY <1>1, Times
<1>3. CatchTime' = CatchTime
  BY DEF CatchTime
<1> DEFINE nc == n * c  sc == spikes * CatchTime
<1>4. nc \in Nat /\ sc \in Nat /\ FallLoss = nc + sc /\ (n > 0 => nc >= c)
  BY <1>2 DEF FallLoss
<1>5. lapses' = lapses /\ spikes' = spikes + 1 => FallLoss' = nc + (sc + CatchTime)
  BY <1>2, <1>3 DEF FallLoss
<1>6. lapses'["BMI270"] = n + 1 /\ spikes' = spikes => FallLoss' = (nc + c) + sc
  BY <1>2, <1>3 DEF FallLoss
<1>7. lapses'["BMI270"] = lapses["BMI270"] /\ spikes' = spikes => FallLoss' = FallLoss
  BY <1>3 DEF FallLoss
<1> HIDE DEF n, nc, sc
<1> QED
  BY <1>1, <1>4, <1>5, <1>6, <1>7 DEF n

\* Nothing is lost while nothing is owed.
LEMMA FallIdle ==
  Base /\ Owing("ARMED") = 0 => FallInv
<1> SUFFICES ASSUME Base, Owing("ARMED") = 0 PROVE FallInv
  OBVIOUS
<1>1. /\ FallLoss \in Nat /\ CatchTime \in Nat /\ RETRY \in Nat
      /\ ("BMI270" \notin answered => FallLoss >= RETRY + CatchTime)
  BY FallLosses
<1>2. Held("ARMED") \in Nat \cup {NotHeld} /\ Yet \in {0, 1}
      /\ S!ImuLag \in {0, 1} /\ since_try["BMI270"] \in Nat
  BY HeldFacts, ImuFacts
<1> QED
  BY <1>1, <1>2 DEF FallInv, NotHeld

\* The bound that FallCaught states follows.
LEMMA FallBound ==
  ASSUME Base, FallInv
  PROVE  Owing("ARMED") <= FallLoss + CatchTime
<1>1. /\ FallLoss \in Nat /\ CatchTime = cfg.release_hold_ms + 3 /\ RETRY \in Nat
      /\ waiting \in Nat
  BY FallLosses DEF CatchTime, Base
<1>2. /\ Held("ARMED") \in Nat \cup {NotHeld} /\ Held("ARMED") <= cfg.release_hold_ms
      /\ Yet \in {0, 1} /\ S!ImuLag \in {0, 1} /\ since_try["BMI270"] \in Nat
      /\ cfg.release_hold_ms \in Nat
      /\ "BMI270" \notin answered => since_try["BMI270"] <= RETRY - 1 + S!ImuLag
  BY HeldFacts, ImuFacts
<1>3. Owing("ARMED") \in Nat
  BY <1>1 DEF Owing
<1> QED
  BY <1>1, <1>2, <1>3 DEF FallInv, NotHeld


\* What is owed changes when time passes, and ends with the transition.
LEMMA OwingNext ==
  ASSUME Base, NEW s
  PROVE  /\ Owing(s) \in Nat
         /\ UNCHANGED vars /\ waiting' = waiting => Owing(s)' = Owing(s)
         /\ task_mission => Owing(s)' = 0 \/ (state = s /\ state' = s /\ Owing(s)' = Owing(s))
         /\ TimePasses => Owing(s)' = 0 \/ (state = s /\ Owing(s)' = Owing(s) + 1)
<1>1. waiting \in Nat
  BY DEF Base
<1>2. ASSUME UNCHANGED vars PROVE state' = state
  BY <1>2 DEF vars, hk_mission_t
<1>3. ASSUME TimePasses PROVE UNCHANGED vars
  BY <1>3 DEF TimePasses
<1> QED
  BY <1>1, <1>2, <1>3 DEF Owing, task_mission, TimePasses

\* A failed attempt at the IMU is counted as one of the IMU.
LEMMA ImuOutage ==
  ASSUME Base, Outage, S!ImuFails
  PROVE  /\ lapses'["BMI270"] = lapses["BMI270"] + 1 /\ lapses'["BARO"] = lapses["BARO"]
<1>1. PICK d \in Sensors :
        /\ IF d = "BMI270" THEN S!ImuFails
           ELSE S!EnvDue # {} /\ S!EnvSample({}, height)
        /\ lapses' = [lapses EXCEPT ![d] = @ + 1]
  BY DEF Outage
<1>2. S!ImuLag = 1 /\ S!ImuLag' = 0
  BY ImuEffects, ImuPass
<1>3. S!EnvSample({}, height) => S!ImuLag' = S!ImuLag
  BY EnvPass DEF ImuSideKept
<1>4. d = "BMI270"
  BY <1>1, <1>2, <1>3
<1> QED
  BY <1>1, <1>4 DEF Base, Sensors

\* While the IMU waits for its next attempt the time since the last one grows.
LEMMA TryGrows ==
  ASSUME Base, TimePasses, NEW d \in Sensors, since_try[d] <= S!Longest
  PROVE  since_try'[d] = since_try[d] + 1
<1>1. d \in S!Devices /\ since_try[d] \in Int /\ S!Longest \in Int
  <2>1. since_try[d] \in Nat
    BY ImuFacts, EnvFacts DEF Sensors
  <2> QED
    BY <2>1, SensorsApply, FlightAssumption DEF S!Longest
<1>2. since_try' = S!Older(since_try)
  BY DEF TimePasses, S!Tick
<1> QED
  BY <1>1, <1>2 DEF S!Older

LEMMA FallIdleNext ==
  (Base /\ Owing("ARMED") = 0)' => FallInv'
BY FallIdle, PTL

\* The step: every tick that is not paid for is counted by the machine.
LEMMA FallStep ==
  ASSUME Base, Base', FallInv, [FlightNext]_flight, 0 < cfg.release_freefall_g
  PROVE  FallInv'
<1> DEFINE w == Owing("ARMED")  h == Held("ARMED")
<1>1. Base' /\ w' = 0 => FallInv'
  BY FallIdleNext
<1> SUFFICES ASSUME w' # 0 PROVE FallInv'
  BY <1>1
<1>2. /\ FallLoss \in Nat /\ CatchTime \in Nat /\ RETRY \in Nat \ {0}
      /\ h \in Nat \cup {NotHeld} /\ Yet \in {0, 1} /\ w \in Nat
      /\ S!ImuLag \in {0, 1} /\ since_try["BMI270"] \in Nat /\ imu \in {"sleep", "flag"}
      /\ imu = "flag" => S!ImuLag = 0 /\ "BMI270" \in answered /\ "imu" \in due
      /\ imu = "sleep" => ("BMI270" \in sensor_ok <=> "BMI270" \in answered)
      /\ "BMI270" \notin answered => since_try["BMI270"] <= RETRY - 1 + S!ImuLag
  BY FallLosses, HeldFacts, OwingNext, ImuFacts
<1>3. NotHeld \in Int /\ NotHeld = -1
  BY DEF NotHeld
<1>4. CASE Imu
  <2>1. UNCHANGED vars /\ UNCHANGED clock /\ UNCHANGED <<motion, waiting, lapses, spikes>>
    BY <1>4 DEF Imu, world, S!ImuSkip, S!ImuFlag, S!ImuReads
  <2>2. w' = w /\ h' = h /\ Yet' = Yet /\ motion' = motion /\ FallLoss' = FallLoss
    BY <2>1, OwingNext, HeldSame, FallLosses
  <2>3. motion = "fall"
    BY <1>2, <2>2 DEF FallInv
  <2>4. CASE S!ImuSkip
    <3>1. "BMI270" \notin answered /\ "BMI270" \notin answered'
          /\ since_try'["BMI270"] = since_try["BMI270"]
      BY <2>4, ImuEffects
    <3> QED
      BY <2>2, <3>1 DEF FallInv
  <2>5. CASE S!ImuFlag
    <3>1. /\ imu = "flag" /\ S!ImuLag = 0 /\ S!ImuLag' = 0 /\ "BMI270" \in answered
          /\ "BMI270" \in answered' /\ (FallSeen' <=> FallSeen)
      BY <2>5, ImuEffects, ImuPass DEF FallSeen
    <3>2. IF FallSeen THEN w <= FallLoss + h + 2 + Yet ELSE w <= FallLoss
      BY <1>2, <1>3, <3>1 DEF FallInv
    <3>3. "BMI270" \in sensor_ok'
      BY <2>5, ImuEffects
    <3> QED
      BY <1>2, <2>2, <2>3, <3>1, <3>2, <3>3 DEF FallInv
  <2>6. CASE S!ImuReads(TrueAccel)
    <3>1. /\ S!ImuLag = 1 /\ imu = "sleep" /\ "BMI270" \in answered' /\ sensor_ok' = sensor_ok
          /\ picture'.accel_g = (IF scaled THEN TrueAccel ELSE 0)
      BY <2>6, ImuEffects
    <3>2. FallSeen'
      BY <2>3, <3>1, CfgAssumption DEF FallSeen, TrueAccel
    <3>3. IF "BMI270" \in sensor_ok THEN w <= FallLoss + h + 2 + Yet ELSE w <= FallLoss + 1
      <4>1. CASE "BMI270" \notin answered
        <5>1. w + RETRY <= FallLoss + since_try["BMI270"]
              /\ since_try["BMI270"] <= RETRY - 1 + 1 /\ "BMI270" \notin sensor_ok
          BY <1>2, <3>1, <4>1 DEF FallInv
        <5> QED
          BY <1>2, <5>1
      <4>2. CASE "BMI270" \in answered
        <5>1. "BMI270" \in sensor_ok
              /\ IF FallSeen THEN w <= FallLoss + h + 2 + Yet ELSE w <= FallLoss + 1
          BY <1>2, <3>1, <4>2 DEF FallInv
        <5> QED
          BY <1>2, <1>3, <5>1
      <4> QED
        BY <4>1, <4>2
    <3> QED
      BY <2>2, <2>3, <3>1, <3>2, <3>3 DEF FallInv
  <2> QED
    BY <1>4, <2>4, <2>5, <2>6 DEF Imu
<1>5. CASE ImuSpike
  <2>1. UNCHANGED vars /\ UNCHANGED <<clock, waiting, motion, lapses>> /\ spikes' = spikes + 1
        /\ S!ImuReads(OneG - TrueAccel)
    BY <1>5 DEF ImuSpike, S!ImuReads
  <2>2. w' = w /\ h' = h /\ Yet' = Yet /\ motion' = motion /\ FallLoss' = FallLoss + CatchTime
    BY <2>1, OwingNext, HeldSame, FallLosses
  <2>3. w <= FallLoss'
    BY <2>2, FallBound
  <2>4. "BMI270" \in answered' /\ S!ImuLag' = 0
    BY <2>1, ImuEffects, ImuPass
  <2>5. motion' = "fall"
    BY <1>2, <2>2 DEF FallInv
  <2>6. w <= FallLoss' + h + 2 + Yet /\ w <= FallLoss' + 1 /\ w <= FallLoss' + 0
    BY <1>2, <1>3, <2>2, <2>3
  <2> QED
    BY <2>2, <2>4, <2>5, <2>6 DEF FallInv
<1>6. CASE Outage /\ S!ImuFails
  <2>1. UNCHANGED vars /\ UNCHANGED <<waiting, motion, spikes>>
        /\ lapses'["BMI270"] = lapses["BMI270"] + 1
    BY <1>6, ImuOutage DEF Outage
  <2>2. w' = w /\ FallLoss' = FallLoss + RETRY + CatchTime
    BY <2>1, OwingNext, FallLosses
  <2>3. "BMI270" \notin answered' /\ since_try'["BMI270"] = 0
    BY <1>6, ImuEffects
  <2>4. motion' = "fall"
    BY <1>2, <2>1, <2>2 DEF FallInv
  <2>5. w' + RETRY <= FallLoss' + since_try'["BMI270"]
    BY <1>2, <2>2, <2>3, FallBound
  <2> QED
    BY <2>3, <2>4, <2>5 DEF FallInv
<1>7. CASE Env \/ (Outage /\ ~S!ImuFails)
  <2>1. UNCHANGED vars /\ UNCHANGED <<motion, spikes, waiting>>
        /\ lapses'["BMI270"] = lapses["BMI270"]
        /\ (S!EnvValues \/ S!EnvFlag \/ \E ok, alt : S!EnvSample(ok, alt))
    <3>1. CASE Env
      BY <3>1 DEF Env, world
    <3>2. CASE Outage /\ ~S!ImuFails
      BY <3>2 DEF Outage, Base
    <3> QED
      BY <1>7, <3>1, <3>2
  <2>2. ImuSideKept /\ UNCHANGED clock
    BY <2>1, EnvPass
  <2>3. w' = w /\ h' = h /\ Yet' = Yet /\ FallLoss' = FallLoss
    BY <2>1, <2>2, OwingNext, HeldSame, FallLosses
  <2> QED
    BY <2>1, <2>2, <2>3 DEF FallInv, ImuSideKept, FallSeen
<1>8. CASE task_mission
  <2>1. /\ UNCHANGED <<motion, spikes, lapses, imu, due, picture, sensor_ok, answered, since_try>>
        /\ now # clock /\ now' = clock /\ clock' = clock
    BY <1>8, MissionRuns DEF task_mission, sensors
  <2>2. Yet = 1 /\ Yet' = 0 /\ S!ImuLag' = S!ImuLag /\ (FallSeen' <=> FallSeen)
    BY <2>1 DEF Yet, S!ImuLag, FallSeen
  <2>3. state = "ARMED" /\ state' = "ARMED" /\ w' = w /\ FallLoss' = FallLoss
    BY <1>8, <2>1, OwingNext, FallLosses
  <2>4. FallSeen /\ "BMI270" \in sensor_ok => h' = h + 1
    <3>1. FallSeen /\ "BMI270" \in sensor_ok => WatchedA("ARMED", MissionIn)
      BY DEF WatchedA, freefall, imu_ok, MissionIn, FallSeen
    <3> QED
      BY <1>8, <2>3, <3>1, HeldNext
  <2>5. FallSeen /\ "BMI270" \in sensor_ok /\ w <= FallLoss + h + 2 + 1
          => w <= FallLoss + h' + 2 + 0
    BY <1>2, <1>3, <2>4
  <2> QED
    BY <2>1, <2>2, <2>3, <2>5 DEF FallInv
<1>9. CASE TimePasses
  <2>1. /\ UNCHANGED <<spikes, lapses, imu, picture, sensor_ok, answered>> /\ UNCHANGED vars
        /\ now = clock /\ "imu" \notin due /\ "imu" \in due' /\ clock' = Plus(now, 1)
    BY <1>9 DEF TimePasses, S!Tick, S!shown, S!devices, S!Plus, Plus
  <2>2. state = "ARMED" /\ w' = w + 1 /\ FallLoss' = FallLoss
    BY <1>9, <2>1, OwingNext, FallLosses
  <2>3. imu = "sleep" /\ S!ImuLag = 0 /\ S!ImuLag' = 1
    BY <1>2, <2>1 DEF S!ImuLag
  <2>4. Yet = 0 /\ Yet' = 1 /\ h' = h /\ (FallSeen' <=> FallSeen)
    <3>1. clock' # now
      BY <2>1, ClockAssumption DEF Plus, Base, IInv, TypeOK, Clock
    <3> QED
      BY <2>1, <3>1 DEF Yet, FallSeen, Held, vars, hk_mission_t
  <2>5. motion' = "fall"
    <3>1. Owed
      BY <1>9, <2>2 DEF TimePasses, Owing, vars, hk_mission_t
    <3> QED
      BY <2>2, <3>1 DEF Owed
  <2>6. CASE "BMI270" \notin answered
    <3>1. since_try["BMI270"] <= RETRY - 1
      BY <1>2, <2>3, <2>6
    <3>2. since_try["BMI270"] <= S!Longest
      BY <1>2, <3>1, FlightAssumption DEF S!Longest
    <3>3. since_try'["BMI270"] = since_try["BMI270"] + 1
      BY <1>9, <3>2, TryGrows DEF Sensors
    <3>4. w' + RETRY <= FallLoss + since_try'["BMI270"]
      BY <1>2, <2>2, <2>6, <3>3 DEF FallInv
    <3> QED
      BY <2>1, <2>2, <2>5, <2>6, <3>4 DEF FallInv
  <2>7. CASE "BMI270" \in answered
    <3>1. "BMI270" \in sensor_ok
      BY <1>2, <2>3, <2>7
    <3>2. IF FallSeen THEN w <= FallLoss + h + 2 + 0 ELSE w <= FallLoss + 0
      BY <2>3, <2>4, <2>7, <3>1 DEF FallInv
    <3>3. IF FallSeen THEN w + 1 <= FallLoss + h + 2 + 1 ELSE w + 1 <= FallLoss + 1
      BY <1>2, <1>3, <3>2
    <3> QED
      BY <2>1, <2>2, <2>3, <2>4, <2>5, <2>7, <3>1, <3>3 DEF FallInv
  <2> QED
    BY <2>6, <2>7
<1>10. CASE UNCHANGED flight
  <2>1. UNCHANGED vars /\ UNCHANGED <<clock, motion, waiting, lapses, spikes, imu, due, picture,
                                      sensor_ok, answered, since_try>>
    BY <1>10 DEF flight, sensors, world
  <2>2. w' = w /\ h' = h /\ Yet' = Yet /\ FallLoss' = FallLoss
    BY <2>1, OwingNext, HeldSame, FallLosses
  <2> QED
    BY <2>1, <2>2 DEF FallInv, FallSeen, S!ImuLag
<1> QED
  BY <1>4, <1>5, <1>6, <1>7, <1>8, <1>9, <1>10 DEF FlightNext

\* A falling capsule is released in time, whatever it was doing when the fall
\* began, whichever order the tasks run in and whenever the clock wraps.
THEOREM FallHolds ==
  ASSUME 0 < cfg.release_freefall_g
  PROVE  FlightSpec => []FallCaught
<1> DEFINE Inv == Base /\ FallInv
<1>1. FlightInit => Inv
  <2> SUFFICES ASSUME FlightInit PROVE Inv
    OBVIOUS
  <2>1. Base /\ Owing("ARMED") = 0
    BY BaseInit DEF FlightInit, Owing
  <2> QED
    BY <2>1, FallIdle
<1>2. Inv /\ [FlightNext]_flight => Inv'
  BY BaseStep, FallStep
<1>3. Inv => FallCaught
  <2> SUFFICES ASSUME Inv, state = "ARMED"
               PROVE  waiting <= CatchTime + lapses["BMI270"] * (RETRY + CatchTime)
                                 + spikes * CatchTime
    BY DEF FallCaught
  <2>1. waiting <= FallLoss + CatchTime /\ waiting \in Nat
    BY FallBound DEF Owing, Base
  <2>2. lapses["BMI270"] \in Nat /\ RETRY + CatchTime \in Nat /\ CatchTime \in Nat
    BY FallLosses
  <2>3. spikes \in Nat
    BY DEF Base
  <2> DEFINE a == lapses["BMI270"] * (RETRY + CatchTime)  b == spikes * CatchTime
  <2>4. a \in Nat /\ b \in Nat /\ FallLoss = a + b
    BY <2>2, <2>3, Times DEF FallLoss
  <2>5. waiting <= CatchTime + a + b
    <3> HIDE DEF a, b
    <3> QED
      BY <2>1, <2>2, <2>4
  <2> QED
    BY <2>5
<1> QED
  BY <1>1, <1>2, <1>3, PTL DEF FlightSpec


-----------------------------------------------------------------------------
(* A capsule at altitude is armed.                                         *)

\* The ticks that failed attempts at the barometer have cost.
ArmLoss == lapses["BARO"] * (RETRY + PassTime + cfg.arm_hold_ms)

\* The altitude of the last sample, in the picture or on its way there.
High(alt) == alt >= cfg.arm_altitude_m
Latest    == IF env.pc = "sleep" THEN picture.alt_m ELSE env.alt_m
Seen      == "BARO" \in sensor_ok /\ High(picture.alt_m)

\* A pass that is about to set the flag has written its altitude.
ShownInv == env.pc = "BARO" /\ "BARO" \in env.ok => picture.alt_m = env.alt_m

\* While the barometer is silent the loss pays for the backoff; an altitude
\* that is not seen yet is seen by the pass that is due, or by the one that has
\* sampled it; and one that is seen is counted by the machine tick by tick.
ArmInv ==
  /\ Owing("ATTACHED") > 0 => motion = "hang"
  /\ IF "BARO" \notin answered
     THEN Owing("ATTACHED") + RETRY <= ArmLoss + 1 + since_try["BARO"]
     ELSE IF ~High(Latest)
     THEN Owing("ATTACHED") <= ArmLoss + S!EnvLag
     ELSE IF ~Seen
     THEN env.pc # "sleep" /\ Owing("ATTACHED") <= ArmLoss + EnvPeriod + phase
     ELSE Owing("ATTACHED") <= ArmLoss + PassTime + Held("ATTACHED") + Yet

\* Each outage of the barometer adds its share to the loss.
LEMMA ArmLosses ==
  ASSUME Base
  PROVE  /\ ArmLoss \in Nat /\ PassTime \in Nat /\ PassTime = EnvPeriod + EnvJitter
         /\ RETRY \in Nat \ {0} /\ ArmTime = PassTime + cfg.arm_hold_ms + 1
         /\ cfg.arm_hold_ms \in Nat
         /\ EnvPeriod \in Nat \ {0} /\ EnvJitter \in 1 .. EnvPeriod
         /\ "BARO" \notin answered => ArmLoss >= RETRY + PassTime + cfg.arm_hold_ms
         /\ lapses'["BARO"] = lapses["BARO"] + 1
              => ArmLoss' = ArmLoss + RETRY + PassTime + cfg.arm_hold_ms
         /\ lapses'["BARO"] = lapses["BARO"] => ArmLoss' = ArmLoss
<1> DEFINE n == lapses["BARO"]  c == RETRY + PassTime + cfg.arm_hold_ms
<1>1. /\ EnvPeriod \in Nat \ {0} /\ EnvJitter \in 1 .. EnvPeriod /\ RETRY \in Nat \ {0}
      /\ PassTime \in Nat /\ PassTime = EnvPeriod + EnvJitter /\ cfg.arm_hold_ms \in Nat
      /\ ArmTime = PassTime + cfg.arm_hold_ms + 1
  BY HeldFacts, FlightAssumption DEF PassTime, ArmTime
<1>2. n \in Nat /\ ("BARO" \notin answered => n > 0)
  BY DEF Base, Sensors
<1>3. c \in Nat
  BY <1>1
<1>4. n * c \in Nat /\ (n + 1) * c = n * c + c /\ (n > 0 => n * c >= c)
  BY <1>2, <1>3, Times
<1>5. ArmLoss = n * c /\ c' = c /\ ArmLoss' = n' * c
  BY DEF ArmLoss, PassTime
<1>6. n' = n + 1 => ArmLoss' = ArmLoss + c
  BY <1>4, <1>5
<1>7. n' = n => ArmLoss' = ArmLoss
  BY <1>5
<1>8. ArmLoss \in Nat /\ ("BARO" \notin answered => ArmLoss >= c)
  BY <1>2, <1>4, <1>5
<1>9. ArmLoss + c = ArmLoss + RETRY + PassTime + cfg.arm_hold_ms
  BY <1>1, <1>8
<1> QED
  BY <1>1, <1>6, <1>7, <1>8, <1>9

\* How far a pass may be late.
LEMMA EnvLate ==
  ASSUME Base
  PROVE  /\ S!EnvLag \in Nat /\ S!EnvLag < PassTime /\ phase \in Nat
         /\ env.pc # "sleep" => EnvPeriod + phase < PassTime
<1>1. /\ EnvPeriod \in Nat \ {0} /\ EnvJitter \in 1 .. EnvPeriod
      /\ PassTime = EnvPeriod + EnvJitter
  BY ArmLosses
<1> QED
  BY <1>1, EnvFacts

\* Nothing is lost while nothing is owed.
LEMMA ArmIdle ==
  Base /\ Owing("ATTACHED") = 0 => ArmInv
<1> SUFFICES ASSUME Base, Owing("ATTACHED") = 0 PROVE ArmInv
  OBVIOUS
<1>1. /\ ArmLoss \in Nat /\ PassTime \in Nat /\ PassTime >= 1 /\ RETRY \in Nat
      /\ cfg.arm_hold_ms \in Nat /\ EnvPeriod \in Nat
      /\ ("BARO" \notin answered => ArmLoss >= RETRY + PassTime + cfg.arm_hold_ms)
  BY ArmLosses
<1>2. /\ Held("ATTACHED") \in Nat \cup {NotHeld} /\ Yet \in {0, 1} /\ NotHeld = -1
      /\ S!EnvLag \in Nat /\ phase \in Nat /\ since_try["BARO"] \in Nat
      /\ env.pc = "sleep" => ("BARO" \in sensor_ok <=> "BARO" \in answered)
  BY HeldFacts, EnvLate, EnvFacts DEF NotHeld
<1>3. "BARO" \in answered /\ High(Latest) /\ ~Seen => env.pc # "sleep"
  BY <1>2 DEF Latest, Seen
<1>4. "BARO" \notin answered
        => Owing("ATTACHED") + RETRY <= ArmLoss + 1 + since_try["BARO"]
  BY <1>1, <1>2
<1>5. /\ Owing("ATTACHED") <= ArmLoss + S!EnvLag
      /\ Owing("ATTACHED") <= ArmLoss + EnvPeriod + phase
      /\ Owing("ATTACHED") <= ArmLoss + PassTime + Held("ATTACHED") + Yet
  BY <1>1, <1>2
<1> QED
  BY <1>3, <1>4, <1>5 DEF ArmInv

LEMMA ArmIdleNext ==
  (Base /\ Owing("ATTACHED") = 0)' => ArmInv'
BY ArmIdle, PTL

\* The bound that ArmedInTime states follows.
LEMMA ArmBound ==
  ASSUME Base, ArmInv
  PROVE  Owing("ATTACHED") <= ArmLoss + ArmTime
<1>1. /\ ArmLoss \in Nat /\ PassTime \in Nat /\ RETRY \in Nat /\ cfg.arm_hold_ms \in Nat
      /\ ArmTime = PassTime + cfg.arm_hold_ms + 1 /\ EnvPeriod \in Nat
      /\ Owing("ATTACHED") \in Nat
  BY ArmLosses, OwingNext
<1>2. /\ Held("ATTACHED") \in Nat \cup {NotHeld} /\ Held("ATTACHED") <= cfg.arm_hold_ms
      /\ Yet \in {0, 1} /\ NotHeld = -1
      /\ S!EnvLag \in Nat /\ S!EnvLag < PassTime /\ phase \in Nat
      /\ env.pc # "sleep" => EnvPeriod + phase < PassTime
      /\ since_try["BARO"] \in Nat
      /\ "BARO" \notin answered => since_try["BARO"] <= RETRY - 1 + S!EnvLag
  BY HeldFacts, EnvLate, EnvFacts DEF NotHeld
<1> QED
  BY <1>1, <1>2 DEF ArmInv

\* The values are written before the flag is.
LEMMA ShownStep ==
  ASSUME Base, ShownInv, [FlightNext]_flight
  PROVE  ShownInv'
<1>1. CASE Imu \/ ImuSpike \/ (Outage /\ S!ImuFails)
  <2>1. S!ImuSkip \/ S!ImuFlag \/ S!ImuFails \/ \E a : S!ImuReads(a)
    BY <1>1 DEF Imu, ImuSpike
  <2>2. EnvSideKept
    BY <2>1, ImuPass
  <2> QED
    BY <2>2 DEF ShownInv, EnvSideKept
<1>2. CASE Env \/ (Outage /\ ~S!ImuFails)
  <2>1. S!EnvValues \/ S!EnvFlag \/ \E ok : S!EnvSample(ok, height)
    BY <1>2 DEF Env, Outage
  <2> QED
    BY <2>1, EnvEffects DEF ShownInv
<1>3. CASE task_mission \/ TimePasses \/ UNCHANGED flight
  <2>1. UNCHANGED <<env, picture>>
    BY <1>3 DEF task_mission, TimePasses, S!Tick, S!shown, flight, sensors
  <2> QED
    BY <2>1 DEF ShownInv
<1> QED
  BY <1>1, <1>2, <1>3 DEF FlightNext


\* A tick brings the pass of task_env, due or not, one tick nearer.
LEMMA EnvTick ==
  ASSUME Base, TimePasses
  PROVE  /\ S!EnvLag' = S!EnvLag + 1 /\ S!EnvLag + 1 < PassTime
         /\ env.pc # "sleep" => phase' = phase + 1
         /\ UNCHANGED <<env, picture, sensor_ok, answered>>
<1>1. /\ EnvPeriod \in Nat \ {0} /\ EnvJitter \in 1 .. EnvPeriod
      /\ PassTime = EnvPeriod + EnvJitter
  BY ArmLosses
<1>2. /\ "env" \in due => phase + 1 < EnvJitter
      /\ phase' = (IF phase + 1 < EnvPeriod THEN phase + 1 ELSE 0)
      /\ "env" \in due' <=> "env" \in due \/ phase' = 0
      /\ UNCHANGED <<env, picture, sensor_ok, answered>>
  BY DEF TimePasses, S!Tick, S!shown
<1>3. phase \in 0 .. EnvPeriod - 1 /\ (env.pc # "sleep" => "env" \in due)
      /\ S!EnvLag = IF "env" \in due /\ env.pc = "sleep" THEN EnvPeriod + phase ELSE phase
  BY EnvFacts
<1>4. S!EnvLag' = IF "env" \in due' /\ env.pc = "sleep" THEN EnvPeriod + phase' ELSE phase'
  BY <1>2 DEF S!EnvLag
<1>5. CASE "env" \in due
  BY <1>1, <1>2, <1>3, <1>4, <1>5
<1>6. CASE "env" \notin due
  BY <1>1, <1>2, <1>3, <1>4, <1>6
<1> QED
  BY <1>5, <1>6

\* The step of a pass of task_env whose device, if it is tried, answers.
LEMMA ArmEnv ==
  ASSUME Base, ArmInv, ShownInv, Env, cfg.arm_altitude_m <= Top, Owing("ATTACHED")' # 0
  PROVE  ArmInv'
<1> DEFINE w == Owing("ATTACHED")  h == Held("ATTACHED")
<1>1. UNCHANGED vars /\ UNCHANGED <<motion, height, waiting, lapses>>
      /\ (S!EnvValues \/ S!EnvFlag \/ S!EnvSample(S!EnvDue, height))
  BY DEF Env, world
<1>2. UNCHANGED <<clock, phase>>
  BY <1>1, EnvPass
<1>3. w' = w /\ h' = h /\ Yet' = Yet /\ ArmLoss' = ArmLoss
  BY <1>1, <1>2, OwingNext, HeldSame, ArmLosses
<1>4. /\ ArmLoss \in Nat /\ PassTime \in Nat /\ RETRY \in Nat \ {0} /\ EnvPeriod \in Nat
      /\ h \in Nat \cup {NotHeld} /\ NotHeld = -1 /\ Yet \in {0, 1} /\ w \in Nat
      /\ S!EnvLag \in Nat /\ phase \in Nat /\ since_try["BARO"] \in Nat
      /\ env.pc # "sleep" => EnvPeriod + phase < PassTime
      /\ "BARO" \notin answered => since_try["BARO"] <= RETRY - 1 + S!EnvLag
  BY ArmLosses, HeldFacts, EnvLate, EnvFacts, OwingNext DEF NotHeld
<1>5. motion = "hang" /\ motion' = "hang" /\ High(height)
  <2>1. motion = "hang"
    BY <1>3, <1>4 DEF ArmInv
  <2> QED
    BY <1>1, <2>1 DEF Base, High
<1>6. env.pc # "sleep" => /\ "BARO" \in answered => "BARO" \in env.try /\ "BARO" \in env.ok
  BY EnvFacts
<1>7. env.pc # "sleep" /\ w <= ArmLoss + EnvPeriod + phase
        => w <= ArmLoss + PassTime + h + Yet
  BY <1>4
<1>8. CASE "BARO" \notin answered /\ "BARO" \notin answered'
           /\ since_try'["BARO"] = since_try["BARO"]
  BY <1>3, <1>5, <1>8 DEF ArmInv
<1>9. CASE S!EnvSample(S!EnvDue, height) /\ "BARO" \in S!EnvDue
  <2>1. /\ env.pc = "sleep" /\ env'.pc = "values" /\ UNCHANGED <<picture, sensor_ok>>
        /\ "BARO" \in answered' /\ env'.alt_m = height /\ S!EnvLag = EnvPeriod + phase
    BY <1>9, EnvEffects
  <2>2. High(Latest)' /\ (Seen' <=> Seen)
    BY <1>5, <2>1 DEF Latest, Seen, High
  <2>3. "BARO" \in sensor_ok <=> "BARO" \in answered
    BY <2>1, EnvFacts
  <2>4. CASE "BARO" \notin answered
    <3>1. ~Seen
      BY <2>3, <2>4 DEF Seen
    <3>2. w + RETRY <= ArmLoss + 1 + since_try["BARO"]
      BY <2>4 DEF ArmInv
    <3>3. w <= ArmLoss + EnvPeriod + phase
      BY <1>4, <2>1, <2>4, <3>2
    <3> QED
      BY <1>2, <1>3, <1>5, <2>1, <2>2, <3>1, <3>3 DEF ArmInv
  <2>5. CASE "BARO" \in answered /\ Seen
    <3>1. High(Latest)
      BY <2>1, <2>5 DEF Seen, Latest
    <3>2. w <= ArmLoss + PassTime + h + Yet
      BY <2>5, <3>1 DEF ArmInv
    <3> QED
      BY <1>3, <1>5, <2>1, <2>2, <2>5, <3>2 DEF ArmInv, PassTime
  <2>6. CASE "BARO" \in answered /\ ~Seen
    <3>1. ~High(Latest)
      BY <2>1, <2>3, <2>6 DEF Seen, Latest
    <3>2. w <= ArmLoss + EnvPeriod + phase
      <4>1. w <= ArmLoss + S!EnvLag
        BY <2>6, <3>1 DEF ArmInv
      <4> QED
        BY <1>4, <2>1, <4>1
    <3> QED
      BY <1>2, <1>3, <1>5, <2>1, <2>2, <2>6, <3>2 DEF ArmInv
  <2> QED
    BY <2>4, <2>5, <2>6
<1>10. CASE S!EnvValues /\ "BARO" \in answered
  <2>1. /\ env.pc = "values" /\ env'.pc = "BARO" /\ "BARO" \in answered'
        /\ env'.alt_m = env.alt_m /\ sensor_ok' = sensor_ok /\ S!EnvLag' = S!EnvLag
        /\ picture'.alt_m = env.alt_m
    BY <1>6, <1>10, EnvEffects
  <2>2. (High(Latest)' <=> High(Latest)) /\ (High(Latest) /\ Seen => Seen')
    BY <2>1 DEF Latest, Seen, High
  <2>3. CASE ~High(Latest)
    BY <1>3, <1>5, <1>10, <2>1, <2>2, <2>3 DEF ArmInv
  <2>4. CASE High(Latest)
    <3>1. /\ ~Seen => w <= ArmLoss + EnvPeriod + phase
          /\ w <= ArmLoss + PassTime + h + Yet
      BY <1>7, <1>10, <2>1, <2>4 DEF ArmInv
    <3>2. ~Seen' => w <= ArmLoss + EnvPeriod + phase
      BY <2>2, <2>4, <3>1
    <3> QED
      BY <1>2, <1>3, <1>5, <2>1, <2>2, <2>4, <3>1, <3>2 DEF ArmInv, PassTime
  <2> QED
    BY <2>3, <2>4
<1>11. CASE S!EnvFlag /\ "BARO" \in answered
  <2>1. /\ env.pc = "BARO" /\ env'.pc = "sleep" /\ "BARO" \in answered'
        /\ UNCHANGED picture /\ S!EnvLag' = S!EnvLag /\ "BARO" \in sensor_ok'
        /\ picture.alt_m = env.alt_m
    BY <1>6, <1>11, EnvEffects DEF ShownInv
  <2>2. (High(Latest)' <=> High(Latest)) /\ (High(Latest) => Seen')
    BY <2>1 DEF Latest, Seen, High
  <2>3. CASE ~High(Latest)
    BY <1>3, <1>5, <1>11, <2>1, <2>2, <2>3 DEF ArmInv
  <2>4. CASE High(Latest)
    <3>1. w <= ArmLoss + PassTime + h + Yet
      BY <1>7, <1>11, <2>1, <2>4 DEF ArmInv
    <3> QED
      BY <1>3, <1>5, <2>1, <2>2, <2>4, <3>1 DEF ArmInv, PassTime
  <2> QED
    BY <2>3, <2>4
<1>12. CASE (S!EnvValues \/ S!EnvFlag) /\ "BARO" \notin answered
  BY <1>8, <1>12, EnvEffects
<1>13. CASE S!EnvSample(S!EnvDue, height) /\ "BARO" \notin S!EnvDue
  BY <1>8, <1>13, EnvEffects
<1> QED
  BY <1>1, <1>9, <1>10, <1>11, <1>12, <1>13

\* The step: while nothing fails, every tick at altitude is one of the pass or one
\* of the hold time.
LEMMA ArmStep ==
  ASSUME Base, Base', ArmInv, ShownInv, [FlightNext]_flight,
         cfg.arm_mode = "AUTO_ALT", cfg.arm_altitude_m <= Top
  PROVE  ArmInv'
<1> DEFINE w == Owing("ATTACHED")  h == Held("ATTACHED")
<1>1. Base' /\ w' = 0 => ArmInv'
  BY ArmIdleNext
<1> SUFFICES ASSUME w' # 0 PROVE ArmInv'
  BY <1>1
<1>2. /\ ArmLoss \in Nat /\ PassTime \in Nat /\ RETRY \in Nat \ {0} /\ EnvPeriod \in Nat
      /\ h \in Nat \cup {NotHeld} /\ NotHeld = -1 /\ Yet \in {0, 1} /\ w \in Nat
      /\ S!EnvLag \in Nat /\ phase \in Nat /\ since_try["BARO"] \in Nat
      /\ "BARO" \notin answered => since_try["BARO"] <= RETRY - 1 + S!EnvLag
  BY ArmLosses, HeldFacts, EnvLate, EnvFacts, OwingNext DEF NotHeld
<1>3. CASE Imu \/ ImuSpike \/ (Outage /\ S!ImuFails)
  <2>1. UNCHANGED vars /\ UNCHANGED <<motion, waiting>>
        /\ (S!ImuSkip \/ S!ImuFlag \/ S!ImuFails \/ \E a : S!ImuReads(a))
    BY <1>3 DEF Imu, ImuSpike, Outage, world
  <2>2. EnvSideKept /\ S!ImuLag' = 0 /\ UNCHANGED clock
    BY <2>1, ImuPass
  <2>3. lapses'["BARO"] = lapses["BARO"]
    <3>1. CASE Imu
      BY <3>1 DEF Imu, world
    <3>2. CASE ImuSpike
      BY <3>2 DEF ImuSpike
    <3>3. CASE Outage /\ S!ImuFails
      BY <3>3, ImuOutage
    <3> QED
      BY <1>3, <3>1, <3>2, <3>3
  <2>4. w' = w /\ h' = h /\ Yet' = Yet /\ ArmLoss' = ArmLoss
    BY <2>1, <2>2, <2>3, OwingNext, HeldSame, ArmLosses
  <2>5. (High(Latest)' <=> High(Latest)) /\ (Seen' <=> Seen)
    BY <2>2 DEF EnvSideKept, Latest, Seen, High
  <2> QED
    BY <2>1, <2>2, <2>4, <2>5 DEF ArmInv, EnvSideKept, PassTime
<1>4. CASE Env
  BY <1>4, ArmEnv
<1>5. CASE Outage /\ ~S!ImuFails
  <2>1. PICK d \in Sensors :
          /\ IF d = "BMI270" THEN S!ImuFails
             ELSE S!EnvDue # {} /\ S!EnvSample({}, height)
          /\ lapses' = [lapses EXCEPT ![d] = @ + 1]
          /\ UNCHANGED <<vars, height, motion, dwell, spikes, waiting>>
    BY <1>5 DEF Outage
  <2>2. d = "BARO" /\ S!EnvSample({}, height) /\ "BARO" \in S!EnvDue
    BY <1>5, <2>1, SensorsApply DEF Sensors, S!EnvDue
  <2>3. "BARO" \notin answered' /\ since_try'["BARO"] = 0
    BY <2>2, EnvEffects
  <2>4. lapses'["BARO"] = lapses["BARO"] + 1
    BY <2>1, <2>2 DEF Base
  <2>5. w' = w /\ ArmLoss' = ArmLoss + RETRY + PassTime + cfg.arm_hold_ms
    BY <2>1, <2>4, OwingNext, ArmLosses
  <2>6. w <= ArmLoss + ArmTime /\ ArmTime = PassTime + cfg.arm_hold_ms + 1
        /\ cfg.arm_hold_ms \in Nat
    BY ArmBound, ArmLosses
  <2>7. w' + RETRY <= ArmLoss' + 1 + since_try'["BARO"]
    BY <1>2, <2>3, <2>5, <2>6
  <2>8. motion' = "hang"
    BY <1>2, <2>1, <2>5 DEF ArmInv
  <2> QED
    BY <2>3, <2>7, <2>8 DEF ArmInv
<1>6. CASE task_mission
  <2>1. /\ UNCHANGED <<motion, lapses, env, due, phase, picture, sensor_ok, answered, since_try>>
        /\ now # clock /\ now' = clock /\ clock' = clock
    BY <1>6, MissionRuns DEF task_mission, sensors
  <2>2. /\ Yet = 1 /\ Yet' = 0 /\ S!EnvLag' = S!EnvLag
        /\ (Seen' <=> Seen) /\ (High(Latest)' <=> High(Latest))
    BY <2>1 DEF Yet, S!EnvLag, Seen, Latest, High
  <2>3. state = "ATTACHED" /\ state' = "ATTACHED" /\ w' = w /\ ArmLoss' = ArmLoss
    BY <1>6, <2>1, OwingNext, ArmLosses
  <2>4. Seen => h' = h + 1
    <3>1. Seen => WatchedA("ATTACHED", MissionIn)
      BY DEF WatchedA, auto_alt, baro_ok, MissionIn, Seen, High
    <3> QED
      BY <1>6, <2>3, <3>1, HeldNext
  <2>5. Seen /\ w <= ArmLoss + PassTime + h + 1 => w <= ArmLoss + PassTime + h' + 0
    BY <1>2, <2>4
  <2> QED
    BY <2>1, <2>2, <2>3, <2>5 DEF ArmInv, PassTime
<1>7. CASE TimePasses
  <2>1. /\ UNCHANGED <<lapses, env, picture, sensor_ok, answered>> /\ UNCHANGED vars
        /\ now = clock /\ clock' = Plus(now, 1)
        /\ S!EnvLag' = S!EnvLag + 1 /\ S!EnvLag + 1 < PassTime
        /\ env.pc # "sleep" => phase' = phase + 1
    BY <1>7, EnvTick DEF TimePasses, S!Tick, S!Plus, Plus
  <2>2. state = "ATTACHED" /\ w' = w + 1 /\ ArmLoss' = ArmLoss
    BY <1>7, <2>1, OwingNext, ArmLosses
  <2>3. /\ Yet = 0 /\ Yet' = 1 /\ h' = h
        /\ (Seen' <=> Seen) /\ (High(Latest)' <=> High(Latest))
    <3>1. clock' # now
      BY <2>1, ClockAssumption DEF Plus, Base, IInv, TypeOK, Clock
    <3> QED
      BY <2>1, <3>1 DEF Yet, Seen, Latest, High, Held, vars, hk_mission_t
  <2>4. motion' = "hang"
    <3>1. Owed
      BY <1>7, <2>2 DEF TimePasses, Owing, vars, hk_mission_t
    <3> QED
      BY <2>2, <3>1 DEF Owed
  <2>5. CASE "BARO" \notin answered
    <3>1. since_try["BARO"] <= S!Longest
      BY <1>2, <2>1, <2>5, FlightAssumption DEF S!Longest, PassTime
    <3>2. since_try'["BARO"] = since_try["BARO"] + 1
      BY <1>7, <3>1, TryGrows DEF Sensors
    <3>3. w' + RETRY <= ArmLoss + 1 + since_try'["BARO"]
      BY <1>2, <2>2, <2>5, <3>2 DEF ArmInv
    <3> QED
      BY <2>1, <2>2, <2>4, <2>5, <3>3 DEF ArmInv
  <2>6. CASE "BARO" \in answered /\ ~High(Latest)
    <3>1. w + 1 <= ArmLoss + (S!EnvLag + 1)
      BY <1>2, <2>6 DEF ArmInv
    <3> QED
      BY <2>1, <2>2, <2>3, <2>4, <2>6, <3>1 DEF ArmInv
  <2>7. CASE "BARO" \in answered /\ High(Latest) /\ ~Seen
    <3>1. env.pc # "sleep" /\ w + 1 <= ArmLoss + EnvPeriod + (phase + 1)
      BY <1>2, <2>7 DEF ArmInv
    <3> QED
      BY <2>1, <2>2, <2>3, <2>4, <2>7, <3>1 DEF ArmInv
  <2>8. CASE "BARO" \in answered /\ High(Latest) /\ Seen
    <3>1. w + 1 <= ArmLoss + PassTime + h + 1
      BY <1>2, <2>3, <2>8 DEF ArmInv
    <3> QED
      BY <2>1, <2>2, <2>3, <2>4, <2>8, <3>1 DEF ArmInv, PassTime
  <2> QED
    BY <2>5, <2>6, <2>7, <2>8
<1>8. CASE UNCHANGED flight
  <2>1. UNCHANGED vars /\ UNCHANGED <<clock, motion, waiting, lapses, env, due, phase, picture,
                                      sensor_ok, answered, since_try>>
    BY <1>8 DEF flight, sensors, world
  <2>2. w' = w /\ h' = h /\ Yet' = Yet /\ ArmLoss' = ArmLoss
    BY <2>1, OwingNext, HeldSame, ArmLosses
  <2>3. S!EnvLag' = S!EnvLag /\ (Seen' <=> Seen) /\ (High(Latest)' <=> High(Latest))
    BY <2>1 DEF S!EnvLag, Seen, Latest, High
  <2> QED
    BY <2>1, <2>2, <2>3 DEF ArmInv, PassTime
<1> QED
  BY <1>3, <1>4, <1>5, <1>6, <1>7, <1>8 DEF FlightNext

\* A capsule that hangs at altitude is armed in time, whatever outages the
\* barometer had before and after it got there, in whichever step of its pass
\* task_mission looks, and whenever the clock wraps.
THEOREM ArmHolds ==
  ASSUME cfg.arm_mode = "AUTO_ALT", cfg.arm_altitude_m <= Top
  PROVE  FlightSpec => []ArmedInTime
<1> DEFINE Inv == Base /\ ArmInv /\ ShownInv
<1>1. FlightInit => Inv
  <2> SUFFICES ASSUME FlightInit PROVE Inv
    OBVIOUS
  <2>1. Base /\ Owing("ATTACHED") = 0
    BY BaseInit DEF FlightInit, Owing
  <2>2. ShownInv
    BY DEF FlightInit, S!InitWith, S!EnvAsleep, ShownInv
  <2> QED
    BY <2>1, <2>2, ArmIdle
<1>2. Inv /\ [FlightNext]_flight => Inv'
  BY BaseStep, ArmStep, ShownStep
<1>3. Inv => ArmedInTime
  <2> SUFFICES ASSUME Inv, state = "ATTACHED" PROVE waiting <= ArmTime + ArmLoss
    BY DEF ArmedInTime, ArmLoss
  <2>1. waiting <= ArmLoss + ArmTime /\ waiting \in Nat
    BY ArmBound DEF Owing, Base
  <2>2. ArmLoss \in Nat /\ ArmTime \in Nat
    BY ArmLosses
  <2> QED
    BY <2>1, <2>2
<1> QED
  BY <1>1, <1>2, <1>3, PTL DEF FlightSpec
=============================================================================
