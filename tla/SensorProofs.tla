---------------------------- MODULE SensorProofs ----------------------------
(***************************************************************************)
(* Theorems about SensorManager: flags, ages and back-off, for every list  *)
(* of devices, every backoff and every width of the clock.                 *)
(***************************************************************************)
EXTENDS SensorManager, TLAPS

\* The devices of task_env are not that of task_imu, and no device is a place
\* of the pass.
LEMMA EnvNames ==
  /\ EnvSet \subseteq {"BARO", "SHT1", "SHT2"}
  /\ "BMI270" \notin EnvSet /\ "sleep" \notin EnvSet /\ "values" \notin EnvSet
  /\ DOMAIN EnvDevices = 1 .. Len(EnvDevices) /\ Len(EnvDevices) \in Nat \ {0}
  /\ Head(EnvDevices) = EnvDevices[1]
  /\ \A k \in DOMAIN EnvDevices : EnvDevices[k] \in EnvSet
<1>1. EnvDevices \in Seq({"BARO", "SHT1", "SHT2"}) /\ EnvDevices # <<>>
  BY SensorAssumption
<1>2. /\ DOMAIN EnvDevices = 1 .. Len(EnvDevices)
      /\ Len(EnvDevices) \in Nat \ {0}
      /\ Head(EnvDevices) = EnvDevices[1]
      /\ \A k \in DOMAIN EnvDevices : EnvDevices[k] \in {"BARO", "SHT1", "SHT2"}
  BY <1>1
<1>3. EnvSet \subseteq {"BARO", "SHT1", "SHT2"}
  BY <1>2 DEF EnvSet
<1>4. \A k \in DOMAIN EnvDevices : EnvDevices[k] \in EnvSet
  BY DEF EnvSet
<1> QED BY <1>2, <1>3, <1>4

\* hk_sensors_init leaves the flags true.
LEMMA FlagsInit ==
  Init => FlagsInv
<1> SUFFICES ASSUME NEW ok \in SUBSET {"BARO", "BMI270"}, InitWith(ok)
             PROVE  FlagsInv
  BY DEF Init
<1> USE DEF InitWith, EnvAsleep
<1>1. imu = "sleep" /\ \A d \in Devices : Told(d)
  BY DEF Told
<1>2. env.pc = "sleep" /\ DOMAIN env = DOMAIN EnvAsleep
  OBVIOUS
<1>3. \A k \in DOMAIN EnvDevices : env.pc # EnvDevices[k]
  BY <1>2, EnvNames
<1> QED BY <1>1, <1>2, <1>3 DEF FlagsInv, Devices

\* What leaves the pass of task_env and the truth about its devices alone
\* leaves its part of the invariant alone.
LEMMA PassKept ==
  ASSUME FlagsInv, env' = env,
         \A d \in EnvSet : /\ d \in sensor_ok' <=> d \in sensor_ok
                           /\ d \in answered' <=> d \in answered,
         imu' \in {"sleep", "flag"},
         IF imu' = "sleep" THEN Told("BMI270")' ELSE "BMI270" \in answered'
  PROVE  FlagsInv'
<1>1. \A d \in EnvSet : Told(d)' <=> Told(d)
  BY DEF Told
<1>2. \A k \in DOMAIN EnvDevices : \A j \in 1 .. k - 1 :
        EnvDevices[j] \in EnvSet
  BY EnvNames
<1>3. \A k \in DOMAIN EnvDevices :
        env'.pc = EnvDevices[k] => \A j \in 1 .. k - 1 : Told(EnvDevices[j])'
  BY <1>1, <1>2 DEF FlagsInv
<1> QED BY <1>1, <1>3 DEF FlagsInv

\* The passes of task_imu touch the flag and the answer of the BMI270 only.
LEMMA FlagsImu ==
  FlagsInv /\ Imu => FlagsInv'
<1> SUFFICES ASSUME FlagsInv, Imu PROVE FlagsInv'
  OBVIOUS
<1>1. CASE ImuSkip
  BY <1>1, PassKept DEF ImuSkip, shown, history, FlagsInv, Told
<1>2. CASE ImuFails
  <2>1. env' = env /\ imu' = "sleep"
    BY <1>2 DEF ImuFails, FlagsInv
  <2>2. /\ "BMI270" \notin sensor_ok' /\ "BMI270" \notin answered'
        /\ \A d \in EnvSet : /\ d \in sensor_ok' <=> d \in sensor_ok
                             /\ d \in answered' <=> d \in answered
    BY <1>2, EnvNames DEF ImuFails, Attempt
  <2> QED BY <2>1, <2>2, PassKept DEF Told
<1>3. CASE ImuFlag
  <2>1. env' = env /\ imu' = "sleep" /\ answered' = answered
    BY <1>3 DEF ImuFlag, history
  <2>2. /\ "BMI270" \in sensor_ok' /\ "BMI270" \in answered
        /\ \A d \in EnvSet : d \in sensor_ok' <=> d \in sensor_ok
    BY <1>3, EnvNames DEF ImuFlag, FlagsInv
  <2> QED BY <2>1, <2>2, PassKept DEF Told
<1>4. ASSUME NEW accel \in Accels, ImuReads(accel) PROVE FlagsInv'
  <2>1. env' = env /\ imu' = "flag" /\ sensor_ok' = sensor_ok
    BY <1>4 DEF ImuReads
  <2>2. /\ "BMI270" \in answered'
        /\ \A d \in EnvSet : d \in answered' <=> d \in answered
    BY <1>4, EnvNames DEF ImuReads, Attempt
  <2> QED BY <2>1, <2>2, PassKept
<1> QED BY <1>1, <1>2, <1>3, <1>4 DEF Imu

\* A pass of task_env: after the conversions its locals know the truth, and
\* each critical section publishes a part of it.
LEMMA FlagsEnv ==
  FlagsInv /\ Env => FlagsInv'
<1> SUFFICES ASSUME FlagsInv, Env PROVE FlagsInv'
  OBVIOUS
<1> USE EnvNames
<1>1. ASSUME NEW ok \in SUBSET EnvDue, NEW alt \in Alts, EnvSample(ok, alt)
      PROVE  FlagsInv'
  <2>1. /\ env'.pc = "values" /\ env'.try = EnvDue /\ env'.ok = ok
        /\ DOMAIN env' = DOMAIN EnvAsleep
        /\ imu' = imu /\ sensor_ok' = sensor_ok /\ env.pc = "sleep"
    BY <1>1 DEF EnvSample, EnvAsleep, shown
  <2>2. /\ EnvDue \subseteq EnvSet
        /\ answered' = (answered \ EnvDue) \cup ok
    BY <1>1 DEF EnvSample, Attempt, EnvDue
  <2>3. "BMI270" \in answered' <=> "BMI270" \in answered
    BY <2>2
  <2>4. \A d \in EnvSet : IF d \in EnvDue THEN d \in answered' <=> d \in ok
                          ELSE d \in sensor_ok <=> d \in answered'
    BY <2>1, <2>2 DEF FlagsInv, Told
  <2> QED BY <2>1, <2>3, <2>4 DEF FlagsInv, Told
<1>2. CASE EnvValues
  <2>1. env.pc = "values" /\ env' = [env EXCEPT !.pc = EnvDevices[1]]
    BY <1>2 DEF EnvValues
  <2>2. /\ env'.pc = EnvDevices[1] /\ env'.try = env.try /\ env'.ok = env.ok
        /\ DOMAIN env' = DOMAIN EnvAsleep
    BY <2>1 DEF FlagsInv, EnvAsleep
  <2>3. UNCHANGED <<sensor_ok, imu, answered>>
    BY <1>2 DEF EnvValues
  <2>4. \A k \in DOMAIN EnvDevices : env'.pc = EnvDevices[k] => k = 1
    BY <2>2, SensorAssumption
  <2> QED BY <2>1, <2>2, <2>3, <2>4 DEF FlagsInv, Told
<1>3. CASE EnvFlag
  <2> PICK k \in DOMAIN EnvDevices :
        /\ env.pc = EnvDevices[k]
        /\ sensor_ok' = FlagsAfter(EnvDevices[k])
        /\ IF k < Len(EnvDevices)
           THEN env' = [env EXCEPT !.pc = EnvDevices[k + 1]]
           ELSE env' = EnvAsleep
        /\ UNCHANGED <<imu, answered>>
    BY <1>3 DEF EnvFlag, history
  <2>1. Told(EnvDevices[k])'
    BY DEF FlagsAfter, FlagsInv, Told
  <2>2. \A d \in Devices \ {EnvDevices[k]} : d \in sensor_ok' <=> d \in sensor_ok
    BY DEF FlagsAfter
  <2>3. \A j \in 1 .. k : Told(EnvDevices[j])'
    <3> TAKE j \in 1 .. k
    <3>1. CASE j = k
      BY <2>1, <3>1
    <3>2. CASE j # k
      <4>1. j \in 1 .. k - 1 /\ j \in DOMAIN EnvDevices
        BY <3>2
      <4>2. EnvDevices[j] # EnvDevices[k] /\ EnvDevices[j] \in Devices
        BY <3>2, <4>1, SensorAssumption DEF Devices
      <4> QED BY <2>2, <4>1, <4>2 DEF FlagsInv, Told
    <3> QED BY <3>1, <3>2
  <2>4. imu' \in {"sleep", "flag"}
        /\ IF imu' = "sleep" THEN Told("BMI270")' ELSE "BMI270" \in answered'
    BY <2>2 DEF FlagsInv, Told, Devices
  <2>5. CASE k < Len(EnvDevices)
    <3>1. /\ env'.pc = EnvDevices[k + 1] /\ env'.try = env.try
          /\ env'.ok = env.ok /\ DOMAIN env' = DOMAIN EnvAsleep
      BY <2>5 DEF FlagsInv, EnvAsleep
    <3>2. k + 1 \in DOMAIN EnvDevices
      BY <2>5
    <3>3. env'.pc \in EnvSet
      BY <3>1, <3>2
    <3>4. \A n \in DOMAIN EnvDevices : env'.pc = EnvDevices[n] => n = k + 1
      BY <3>1, <3>2, SensorAssumption
    <3>5. \A n \in DOMAIN EnvDevices : env'.pc = EnvDevices[n]
            => \A j \in 1 .. n - 1 : Told(EnvDevices[j])'
      BY <2>3, <3>4
    <3>6. \A d \in EnvSet : IF d \in env.try THEN d \in answered' <=> d \in env.ok
                            ELSE Told(d)'
      BY <2>1, <2>2 DEF FlagsInv, Told, Devices
    <3> QED BY <2>4, <3>1, <3>3, <3>5, <3>6 DEF FlagsInv
  <2>6. CASE k = Len(EnvDevices)
    <3>1. env'.pc = "sleep" /\ DOMAIN env' = DOMAIN EnvAsleep
      BY <2>6 DEF EnvAsleep
    <3>2. \A d \in EnvSet : Told(d)'
      BY <2>3, <2>6 DEF EnvSet
    <3>3. \A n \in DOMAIN EnvDevices : env'.pc # EnvDevices[n]
      BY <3>1
    <3> QED BY <2>4, <3>1, <3>2, <3>3 DEF FlagsInv
  <2> QED BY <2>5, <2>6
<1> QED BY <1>1, <1>2, <1>3 DEF Env

\* No step of the tasks, and no tick, breaks the invariant.
LEMMA FlagsStep ==
  FlagsInv /\ [Next]_vars => FlagsInv'
<1> SUFFICES ASSUME FlagsInv, [Next]_vars PROVE FlagsInv'
  OBVIOUS
<1>1. CASE Tick
  BY <1>1 DEF Tick, shown, FlagsInv, Told
<1>2. CASE UNCHANGED vars
  BY <1>2 DEF vars, shown, tasks, history, FlagsInv, Told
<1> QED BY <1>1, <1>2, FlagsImu, FlagsEnv DEF Next

\* The flags never lie between two passes, for every list of devices and all
\* interleavings (sensor_manager.c:113-117, 128-142).
THEOREM FlagsHold == Spec => []FlagsTrue
<1>1. FlagsInv => FlagsTrue
  BY DEF FlagsInv, FlagsTrue, Told
<1> QED BY FlagsInit, FlagsStep, <1>1, PTL DEF Spec

-----------------------------------------------------------------------------
(* Freshness. *)

\* The wrapping clock: a tick makes every elapsed time one longer, as long as
\* it stays below half the clock, and what was tried so lately is due.
LEMMA ClockFacts ==
  ASSUME NEW t \in Clock, NEW u \in Clock
  PROVE  /\ Elapsed(t, u) \in Nat /\ Elapsed(t, t) = 0
         /\ Plus(t, 1) \in Clock /\ Plus(t, RETRY) \in Clock
         /\ Elapsed(t, u) < ClockMod \div 2
              => Elapsed(Plus(t, 1), u) = Elapsed(t, u) + 1
         /\ Elapsed(t, u) < EnvPeriod + EnvJitter => retry_due(t, u)
<1>1. /\ RETRY \in Nat \ {0} /\ ClockMod \in Nat
      /\ RETRY <= ClockMod \div 2 /\ EnvPeriod + EnvJitter <= ClockMod \div 2
      /\ EnvPeriod \in Nat \ {0} /\ EnvJitter \in 1 .. EnvPeriod
  BY SensorAssumption
<1>2. ClockMod \div 2 \in Nat /\ 2 * (ClockMod \div 2) <= ClockMod
  BY <1>1
<1>3. ClockMod >= 4 /\ RETRY < ClockMod
  BY <1>1, <1>2
<1> QED BY <1>1, <1>2, <1>3 DEF Plus, Elapsed, Clock, retry_due

\* The lags are small numbers.
LEMMA Lags ==
  ASSUME FreshInv
  PROVE  /\ EnvPeriod \in Nat \ {0} /\ EnvJitter \in 1 .. EnvPeriod
         /\ ImuLag \in 0 .. 1 /\ phase \in Nat
         /\ EnvLag \in Nat /\ EnvLag < EnvPeriod + EnvJitter
         /\ \A d : AgeLag(d) \in Nat /\ AgeLag(d) < EnvPeriod + EnvJitter
         /\ EnvPeriod + EnvJitter <= ClockMod \div 2
  BY SensorAssumption DEF FreshInv, ImuLag, EnvLag, AgeLag

\* Every device starts due, or in backoff, with no sample.
LEMMA FreshInit ==
  Init => FreshInv
<1> SUFFICES ASSUME NEW ok \in SUBSET {"BARO", "BMI270"}, InitWith(ok)
             PROVE  FreshInv
  BY DEF Init
<1>1. FlagsInv
  BY FlagsInit DEF Init
<1>2. now \in Clock /\ Plus(now, RETRY) \in Clock /\ Elapsed(now, now) = 0
  BY ClockFacts DEF InitWith
<1>3. retry_at_ms \in [Devices -> Clock] /\ age \in [Devices -> Nat]
  BY <1>2 DEF InitWith
<1>4. \A d \in Devices \cap answered : Elapsed(now, retry_at_ms[d]) = 0
  BY <1>2 DEF InitWith
<1>5. env.pc = "sleep" /\ env.ok = {} /\ imu = "sleep" /\ phase = 0
      /\ due = {"imu", "env"} /\ \A d \in Devices : age[d] = 0
      /\ sensor_ok = ok
  BY DEF InitWith, EnvAsleep
<1>6. ImuLag = 1 /\ EnvLag = EnvPeriod /\ \A d : AgeLag(d) \in Nat
  BY <1>5, SensorAssumption DEF ImuLag, EnvLag, AgeLag
<1>7. sensor_ok \subseteq Devices
  <2>1. 1 \in DOMAIN EnvDevices
    BY EnvNames
  <2>2. EnvDevices[1] = "BARO"
    BY EnvNames, SensorAssumption
  <2>3. "BARO" \in EnvSet
    BY <2>1, <2>2, EnvNames
  <2> QED BY <1>5, <2>3 DEF Devices
<1> QED BY <1>1, <1>2, <1>3, <1>4, <1>5, <1>6, <1>7, SensorAssumption
        DEF FreshInv, Devices

\* A BMI270 that answered is due, so no pass of task_imu is skipped under its
\* flag.
LEMMA FreshImu ==
  FreshInv /\ Imu => FreshInv'
<1> SUFFICES ASSUME FreshInv, Imu PROVE FreshInv'
  OBVIOUS
<1>1. FlagsInv'
  BY FlagsImu DEF FreshInv
<1>2. /\ ("BMI270" \in answered => retry_due(now, retry_at_ms["BMI270"]))
      /\ now \in Clock /\ Elapsed(now, now) = 0 /\ Plus(now, RETRY) \in Clock
  <2>1. now \in Clock /\ retry_at_ms["BMI270"] \in Clock
    BY DEF FreshInv, Devices
  <2>2. Elapsed(now, retry_at_ms["BMI270"]) \in Nat
    BY <2>1, ClockFacts
  <2>3. "BMI270" \in answered
          => Elapsed(now, retry_at_ms["BMI270"]) < EnvPeriod + EnvJitter
    BY <2>2, Lags DEF FreshInv
  <2> QED BY <2>1, <2>3, ClockFacts
<1>3. UNCHANGED <<now, env, phase>>
  BY DEF Imu, ImuSkip, ImuFails, ImuFlag, ImuReads
<1>4. ("env" \in due') <=> ("env" \in due)
  BY DEF Imu, ImuSkip, ImuFails, ImuFlag, ImuReads
<1>5. \A d \in EnvSet : /\ d \in answered' <=> d \in answered
                        /\ d \in sensor_ok' <=> d \in sensor_ok
                        /\ retry_at_ms'[d] = retry_at_ms[d] /\ age'[d] = age[d]
  BY EnvNames DEF Imu, ImuSkip, ImuFails, ImuFlag, ImuReads, Attempt, shown,
                  devices, history, FreshInv, Devices
<1>6. /\ EnvLag' = EnvLag /\ Written' = Written
      /\ \A d : AgeLag(d)' = AgeLag(d)
  BY <1>3, <1>4 DEF EnvLag, Written, AgeLag
<1>7. /\ retry_at_ms' \in [Devices -> Clock] /\ age' \in [Devices -> Nat]
      /\ sensor_ok' \subseteq Devices
  BY <1>2 DEF Imu, ImuSkip, ImuFails, ImuFlag, ImuReads, RetryAt, shown,
              devices, history, FreshInv, Devices
<1>8. /\ imu' = "flag" => "imu" \in due'
      /\ "BMI270" \in answered' => Elapsed(now, retry_at_ms'["BMI270"]) <= ImuLag'
      /\ "BMI270" \in sensor_ok' \/ imu' = "flag" => age'["BMI270"] <= ImuLag'
  <2>1. CASE ImuSkip
    <3>1. "BMI270" \notin answered /\ imu = "sleep"
      BY <2>1, <1>2 DEF ImuSkip
    <3>2. "BMI270" \notin sensor_ok
      BY <3>1 DEF FreshInv, FlagsInv, Told
    <3> QED BY <2>1, <3>1, <3>2 DEF ImuSkip, shown, history
  <2>2. CASE ImuFails
    BY <2>2, EnvNames DEF ImuFails, Attempt, FreshInv
  <2>3. CASE ImuFlag
    <3>1. ImuLag = 0 /\ imu' = "sleep" /\ "BMI270" \in answered
      BY <2>3 DEF ImuFlag, ImuLag, FreshInv, FlagsInv
    <3>2. age' = age /\ retry_at_ms' = retry_at_ms /\ ImuLag' \in 0 .. 1
      BY <2>3 DEF ImuFlag, history, devices, ImuLag
    <3>3. /\ Elapsed(now, retry_at_ms["BMI270"]) <= 0 /\ age["BMI270"] <= 0
      BY <2>3, <3>1 DEF ImuFlag, FreshInv
    <3>4. retry_at_ms["BMI270"] \in Clock /\ age["BMI270"] \in Nat
      BY DEF FreshInv, Devices
    <3>5. Elapsed(now, retry_at_ms["BMI270"]) \in Nat
      BY <3>4, <1>2, ClockFacts
    <3> QED BY <3>1, <3>2, <3>3, <3>4, <3>5
  <2>4. ASSUME NEW accel \in Accels, ImuReads(accel)
        PROVE  /\ imu' = "flag" => "imu" \in due'
               /\ "BMI270" \in answered'
                    => Elapsed(now, retry_at_ms'["BMI270"]) <= ImuLag'
               /\ "BMI270" \in sensor_ok' \/ imu' = "flag"
                    => age'["BMI270"] <= ImuLag'
    <3>1. /\ "imu" \in due' /\ ImuLag' = 0
          /\ retry_at_ms'["BMI270"] = now /\ age'["BMI270"] = 0
      BY <2>4 DEF ImuReads, ImuLag, RetryAt, FreshInv, Devices
    <3> QED BY <3>1, <1>2
  <2> QED BY <2>1, <2>2, <2>3, <2>4 DEF Imu
<1> QED BY <1>1, <1>2, <1>3, <1>4, <1>5, <1>6, <1>7, <1>8 DEF FreshInv

\* A pass of task_env tries every device that answered before, so a flag that
\* stays up has a new value under it by the end of the pass.
LEMMA FreshEnv ==
  FreshInv /\ Env => FreshInv'
<1> SUFFICES ASSUME FreshInv, Env PROVE FreshInv'
  OBVIOUS
<1>1. FlagsInv'
  BY FlagsEnv DEF FreshInv
<1>2. /\ now \in Clock /\ Elapsed(now, now) = 0 /\ Plus(now, RETRY) \in Clock
      /\ "BMI270" \notin EnvSet /\ EnvSet \subseteq Devices
  BY ClockFacts, EnvNames DEF FreshInv, Devices
<1>3. UNCHANGED <<now, imu, phase>>
  BY DEF Env, EnvSample, EnvValues, EnvFlag
<1>4. ("imu" \in due') <=> ("imu" \in due)
  BY DEF Env, EnvSample, EnvValues, EnvFlag
<1>5. ImuLag' = ImuLag
  BY <1>3, <1>4 DEF ImuLag
<1>6. ASSUME NEW ok \in SUBSET EnvDue, NEW alt \in Alts, EnvSample(ok, alt)
      PROVE  FreshInv'
  <2>1. /\ "env" \in due' /\ env.pc = "sleep" /\ "env" \in due
        /\ UNCHANGED <<age, sensor_ok>>
        /\ env'.pc = "values" /\ env'.now = now /\ env'.ok = ok
        /\ env'.try = EnvDue
    BY <1>6 DEF EnvSample, shown
  <2>2. /\ EnvDue \subseteq EnvSet
        /\ answered' = (answered \ EnvDue) \cup ok
    BY <1>6 DEF EnvSample, Attempt, EnvDue
  <2>3. \A d \in EnvSet \cap answered : d \in EnvDue
    <3> TAKE d \in EnvSet \cap answered
    <3>1. retry_at_ms[d] \in Clock /\ Elapsed(now, retry_at_ms[d]) <= EnvLag
      BY <1>2 DEF FreshInv
    <3>2. Elapsed(now, retry_at_ms[d]) \in Nat
      BY <3>1, <1>2, ClockFacts
    <3>3. Elapsed(now, retry_at_ms[d]) < EnvPeriod + EnvJitter
      BY <3>1, <3>2, Lags
    <3> QED BY <3>1, <3>3, <1>2, ClockFacts DEF EnvDue
  <2>4. /\ retry_at_ms' \in [Devices -> Clock]
        /\ retry_at_ms'["BMI270"] = retry_at_ms["BMI270"]
        /\ \A d \in ok : retry_at_ms'[d] = now
    BY <1>6, <1>2, <2>2 DEF EnvSample, Backoff, RetryAt, FreshInv, Devices
  <2>5. answered' \cap EnvSet \subseteq ok
    BY <2>2, <2>3
  <2>6. /\ Written' = {} /\ EnvLag' = phase
        /\ \A d : AgeLag(d)' = EnvPeriod + phase
    BY <2>1, <1>2, <1>3, EnvNames DEF Written, EnvLag, AgeLag
  <2>7. \A d \in EnvSet : d \in sensor_ok' => age'[d] <= EnvPeriod + phase
    <3>1. \A d : AgeLag(d) = EnvPeriod + phase
      BY <2>1, EnvNames DEF AgeLag, Written
    <3> QED BY <2>1, <3>1 DEF FreshInv
  <2>8. /\ "BMI270" \in answered' <=> "BMI270" \in answered
        /\ "BMI270" \in sensor_ok' <=> "BMI270" \in sensor_ok
    BY <1>2, <2>1, <2>2
  <2>9. env'.ok \subseteq EnvSet /\ answered' \cap EnvSet \subseteq env'.try
    BY <2>1, <2>2, <2>5
  <2>10. \A d \in EnvSet \cap answered' : Elapsed(now, retry_at_ms'[d]) <= EnvLag'
    BY <2>4, <2>5, <2>6, <1>2, Lags
  <2>11. phase \in 0 .. EnvPeriod - 1 /\ Elapsed(now, env'.now) <= phase
    BY <2>1, <1>2, Lags DEF FreshInv
  <2> QED BY <1>1, <1>2, <1>3, <1>4, <1>5, <2>1, <2>4, <2>6, <2>7, <2>8, <2>9,
             <2>10, <2>11 DEF FreshInv
<1>7. CASE EnvValues
  <2>1. /\ env.pc = "values" /\ env' = [env EXCEPT !.pc = EnvDevices[1]]
        /\ UNCHANGED <<sensor_ok, retry_at_ms, answered, due>>
        /\ age' = [d \in Devices |-> IF d \in env.ok THEN Elapsed(now, env.now)
                                     ELSE age[d]]
    BY <1>7, EnvNames DEF EnvValues, devices
  <2>2. /\ env'.pc = EnvDevices[1] /\ env'.pc \in EnvSet
        /\ env'.pc \notin {"sleep", "values"}
        /\ env'.now = env.now /\ env'.ok = env.ok /\ env'.try = env.try
    BY <2>1, EnvNames DEF FreshInv, FlagsInv, EnvAsleep
  <2>3. /\ "env" \in due /\ env.now \in Clock /\ Elapsed(now, env.now) <= phase
        /\ env.ok \subseteq EnvSet /\ answered \cap EnvSet \subseteq env.try
    BY <2>1 DEF FreshInv
  <2>4. Elapsed(now, env.now) \in Nat
    BY <1>2, <2>3, ClockFacts
  <2>5. age' \in [Devices -> Nat] /\ age'["BMI270"] = age["BMI270"]
    BY <1>2, <2>1, <2>3, <2>4 DEF FreshInv, Devices
  <2>6. /\ Written = {} /\ Written' = env.ok
        /\ EnvLag' = phase /\ EnvLag = phase
    BY <1>2, <1>3, <2>1, <2>2, EnvNames DEF Written, EnvLag
  <2>7. \A d \in EnvSet : d \in sensor_ok' \cup Written' => age'[d] <= AgeLag(d)'
    <3> SUFFICES ASSUME NEW d \in EnvSet, d \in sensor_ok \cup env.ok
                 PROVE  age'[d] <= AgeLag(d)'
      BY <2>1, <2>6
    <3>1. CASE d \in env.ok
      BY <3>1, <1>2, <1>3, <2>1, <2>3, <2>6 DEF AgeLag
    <3>2. CASE d \notin env.ok
      <4>1. age'[d] = age[d] /\ AgeLag(d)' = EnvPeriod + phase
        BY <3>2, <1>2, <1>3, <2>1, <2>3, <2>6 DEF AgeLag
      <4>2. age[d] <= AgeLag(d) /\ AgeLag(d) = EnvPeriod + phase
        BY <3>2, <2>3, <2>6 DEF AgeLag, FreshInv
      <4> QED BY <4>1, <4>2
    <3> QED BY <3>1, <3>2
  <2> QED BY <1>1, <1>2, <1>3, <1>4, <1>5, <2>1, <2>2, <2>3, <2>5, <2>6, <2>7
          DEF FreshInv
<1>8. CASE EnvFlag
  <2> PICK k \in DOMAIN EnvDevices :
        /\ env.pc = EnvDevices[k]
        /\ sensor_ok' = FlagsAfter(EnvDevices[k])
        /\ IF k < Len(EnvDevices)
           THEN env' = [env EXCEPT !.pc = EnvDevices[k + 1]] /\ due' = due
           ELSE env' = EnvAsleep /\ due' = due \ {"env"}
        /\ UNCHANGED <<retry_at_ms, age, answered>>
    BY <1>8 DEF EnvFlag, history, devices
  <2>1. /\ env.pc \in EnvSet /\ env.pc # "sleep" /\ "env" \in due
        /\ Written = env.ok /\ EnvLag = phase /\ env.ok \subseteq EnvSet
        /\ answered \cap EnvSet \subseteq env.try
    BY EnvNames DEF FreshInv, Written, EnvLag
  <2>2. /\ \A d : d \in sensor_ok' => d \in sensor_ok \cup env.ok
        /\ sensor_ok' \subseteq Devices
    BY EnvNames DEF FlagsAfter, FreshInv, Devices
  <2>3. "BMI270" \in sensor_ok' => "BMI270" \in sensor_ok
    BY <1>2, <2>1, <2>2
  <2>4. CASE k < Len(EnvDevices)
    <3>1. /\ env'.pc = EnvDevices[k + 1] /\ env'.try = env.try
          /\ env'.ok = env.ok /\ env'.now = env.now
      BY <2>4 DEF FreshInv, FlagsInv, EnvAsleep
    <3>2. env'.pc \in EnvSet /\ env'.pc # "sleep"
      BY <2>4, <3>1, EnvNames
    <3>3. Written' = Written /\ EnvLag' = EnvLag /\ \A d : AgeLag(d)' = AgeLag(d)
      BY <1>3, <2>1, <2>4, <3>1, <3>2 DEF Written, EnvLag, AgeLag
    <3> QED BY <1>1, <1>3, <1>4, <1>5, <2>1, <2>2, <2>3, <2>4, <3>1, <3>2, <3>3
            DEF FreshInv
  <2>5. CASE k = Len(EnvDevices)
    <3>1. env'.pc = "sleep" /\ env'.ok = {} /\ "env" \notin due'
      BY <2>5 DEF EnvAsleep
    <3>2. Written' = {} /\ EnvLag' = phase /\ \A d : AgeLag(d)' = phase
      BY <1>3, <3>1, EnvNames DEF Written, EnvLag, AgeLag
    <3>3. \A d \in EnvSet : d \in sensor_ok' => d \in env.ok
      <4>1. \A d \in EnvSet : d \in sensor_ok' => d \in answered
        BY <1>1, <3>1 DEF FlagsInv, Told
      <4> QED BY <4>1, <2>1 DEF FreshInv, FlagsInv
    <3>4. \A d \in env.ok : age[d] <= phase
      BY <2>1 DEF FreshInv, AgeLag
    <3> QED BY <1>1, <1>3, <1>4, <1>5, <2>1, <2>2, <2>3, <3>1, <3>2, <3>3, <3>4
            DEF FreshInv
  <2> QED BY <2>4, <2>5, EnvNames
<1> QED BY <1>6, <1>7, <1>8 DEF Env

\* Time passes only as far as the pass of task_env may last.
LEMMA FreshTick ==
  FreshInv /\ Tick => FreshInv'
<1> SUFFICES ASSUME FreshInv, Tick PROVE FreshInv'
  OBVIOUS
<1>1. FlagsInv'
  BY FlagsStep DEF FreshInv, Next
<1>2. /\ UNCHANGED <<sensor_ok, retry_at_ms, env, imu, answered>>
      /\ now' = Plus(now, 1) /\ age' = Older(age)
      /\ "imu" \notin due /\ imu = "sleep" /\ "imu" \in due'
      /\ phase' = IF phase + 1 < EnvPeriod THEN phase + 1 ELSE 0
      /\ "env" \in due' <=> "env" \in due \/ phase' = 0
      /\ "env" \in due => phase + 1 < EnvJitter
  BY DEF Tick, shown, devices, FreshInv, FlagsInv
<1>3. /\ ImuLag = 0 /\ ImuLag' = 1
      /\ EnvPeriod \in Nat \ {0} /\ EnvJitter \in 1 .. EnvPeriod
      /\ phase \in 0 .. EnvPeriod - 1 /\ phase' \in 0 .. EnvPeriod - 1
      /\ "env" \in due' => phase' < EnvJitter
  BY <1>2, Lags DEF ImuLag, FreshInv
<1>4. /\ env.pc # "sleep" => phase' = phase + 1 /\ "env" \in due
      /\ "env" \in due => phase' = phase + 1
  BY <1>2, <1>3 DEF FreshInv
<1>5. Written' = Written /\ (Written # {} => env.pc # "sleep")
  BY <1>2, EnvNames DEF Written
<1>6. /\ EnvLag' = EnvLag + 1
      /\ \A d : d \notin Written \/ "env" \in due => AgeLag(d)' = AgeLag(d) + 1
  BY <1>2, <1>3, <1>4, <1>5 DEF EnvLag, AgeLag, FreshInv
<1>7. now \in Clock /\ now' \in Clock
  BY <1>2, ClockFacts DEF FreshInv
<1>8. \A u \in Clock : Elapsed(now, u) < EnvPeriod + EnvJitter
                         => Elapsed(now', u) = Elapsed(now, u) + 1
  <2> TAKE u \in Clock
  <2>1. Elapsed(now, u) \in Nat
    BY <1>7, ClockFacts
  <2>2. Elapsed(now, u) < EnvPeriod + EnvJitter
          => Elapsed(now, u) < ClockMod \div 2
    BY <2>1, Lags, SensorAssumption
  <2> QED BY <2>2, <1>2, <1>7, ClockFacts
<1>9. /\ age' \in [Devices -> Nat]
      /\ \A d \in Devices : age'[d] <= age[d] + 1
  BY <1>2 DEF Older, FreshInv
<1>10. \A d \in Devices : /\ retry_at_ms[d] \in Clock /\ age[d] \in Nat
                          /\ Elapsed(now, retry_at_ms[d]) \in Nat
  BY <1>7, ClockFacts DEF FreshInv
<1>11. "BMI270" \in Devices /\ EnvSet \subseteq Devices
  BY DEF Devices
<1>12. /\ "BMI270" \in answered => Elapsed(now', retry_at_ms["BMI270"]) <= 1
       /\ "BMI270" \in sensor_ok => age'["BMI270"] <= 1
  BY <1>2, <1>3, <1>8, <1>9, <1>10, <1>11 DEF FreshInv
<1>13. \A d \in EnvSet \cap answered : Elapsed(now', retry_at_ms[d]) <= EnvLag'
  BY <1>6, <1>8, <1>10, <1>11, Lags DEF FreshInv
<1>14. \A d \in EnvSet : d \in sensor_ok \cup Written => age'[d] <= AgeLag(d)'
  <2> SUFFICES ASSUME NEW d \in EnvSet, d \in sensor_ok \cup Written
               PROVE  age'[d] <= AgeLag(d)'
    OBVIOUS
  <2>1. AgeLag(d)' = AgeLag(d) + 1
    BY <1>4, <1>5, <1>6
  <2>2. age[d] <= AgeLag(d) /\ AgeLag(d) \in Nat
    BY Lags DEF FreshInv
  <2> QED BY <2>1, <2>2, <1>9, <1>10, <1>11
<1>15. env.pc # "sleep" => Elapsed(now', env.now) <= phase'
  <2> HAVE env.pc # "sleep"
  <2>1. env.now \in Clock /\ Elapsed(now, env.now) <= phase
    BY DEF FreshInv
  <2>2. Elapsed(now, env.now) \in Nat
    BY <2>1, <1>7, ClockFacts
  <2>3. Elapsed(now, env.now) < EnvPeriod + EnvJitter
    BY <2>1, <2>2, <1>3, <1>4, <1>2
  <2>4. Elapsed(now', env.now) = Elapsed(now, env.now) + 1
    BY <2>1, <2>3, <1>8
  <2> QED BY <2>1, <2>2, <2>4, <1>3, <1>4
<1> QED BY <1>1, <1>2, <1>3, <1>4, <1>5, <1>7, <1>9, <1>12, <1>13, <1>14, <1>15
        DEF FreshInv

\* What is shown under a flag is recent, for every list of devices, every
\* period and jitter of task_env, every backoff and every width of the clock
\* that holds them (sensor_manager.c:106-117, 136-142).
THEOREM FreshHolds == Spec => []OkIsFresh
<1>1. FreshInv /\ [Next]_vars => FreshInv'
  <2> SUFFICES ASSUME FreshInv, [Next]_vars PROVE FreshInv'
    OBVIOUS
  <2>1. CASE UNCHANGED vars
    <3>1. /\ UNCHANGED <<now, retry_at_ms, age, phase, due, imu, env, answered,
                         sensor_ok>>
          /\ FlagsInv'
      BY <2>1, FlagsStep DEF vars, shown, devices, tasks, history, FreshInv
    <3> QED BY <3>1 DEF FreshInv, ImuLag, EnvLag, Written, AgeLag
  <2> QED BY <2>1, FreshImu, FreshEnv, FreshTick DEF Next
<1>2. FreshInv => OkIsFresh
  <2> SUFFICES ASSUME FreshInv, NEW d \in sensor_ok
               PROVE  age[d] <= Fresh(d)
    BY DEF OkIsFresh
  <2> d \in Devices
    BY DEF FreshInv
  <2>1. CASE d = "BMI270"
    BY <2>1, Lags DEF FreshInv, Fresh, Devices
  <2>2. CASE d \in EnvSet
    <3>1. age[d] <= AgeLag(d) /\ AgeLag(d) < EnvPeriod + EnvJitter
      BY <2>2, Lags DEF FreshInv
    <3>2. d # "BMI270" /\ age[d] \in Nat /\ AgeLag(d) \in Nat
      BY <2>2, EnvNames, Lags DEF FreshInv
    <3> QED BY <3>1, <3>2, SensorAssumption DEF Fresh
  <2> QED BY <2>1, <2>2 DEF Devices
<1> QED BY FreshInit, <1>1, <1>2, PTL DEF Spec
-----------------------------------------------------------------------------
(* Backoff. *)

\* The wrapping clock ahead of a date: a date less than half the clock ahead
\* is not due, and a tick brings it nearer.
LEMMA DateAhead ==
  ASSUME NEW t \in Clock, NEW u \in Clock
  PROVE  /\ Elapsed(u, t) \in Nat /\ Elapsed(t, u) \in Nat
         /\ Elapsed(u, t) \in 1 .. RETRY => ~retry_due(t, u)
         /\ Elapsed(u, t) >= 1 => Elapsed(u, Plus(t, 1)) = Elapsed(u, t) - 1
         /\ Elapsed(u, t) = 1 => Elapsed(Plus(t, 1), u) = 0
         /\ Plus(t, RETRY) \in Clock /\ Elapsed(Plus(t, RETRY), t) = RETRY
<1>1. RETRY \in Nat \ {0} /\ ClockMod \in Nat /\ RETRY <= ClockMod \div 2
  BY SensorAssumption
<1>2. ClockMod \div 2 \in Nat /\ 2 * (ClockMod \div 2) <= ClockMod
  BY <1>1
<1>3. ClockMod >= 2 /\ RETRY < ClockMod /\ ClockMod - RETRY >= ClockMod \div 2
  BY <1>1, <1>2
<1> QED BY <1>1, <1>2, <1>3 DEF Plus, Elapsed, Clock, retry_due

\* What the invariant says of one device.
Waits(d) ==
  IF d \in answered THEN since_try[d] = Elapsed(now, retry_at_ms[d])
  ELSE /\ since_try[d] <= RETRY - 1 + Lag(d)
       /\ IF since_try[d] < RETRY
          THEN since_try[d] + Elapsed(retry_at_ms[d], now) = RETRY
          ELSE since_try[d] = RETRY + Elapsed(now, retry_at_ms[d])

\* An attempt starts the wait of a device anew; a lag is never negative.
LEMMA Tried ==
  ASSUME NEW d \in Devices, now \in Clock, Lag(d)' \in Nat, now' = now,
         since_try'[d] = 0, retry_at_ms'[d] = RetryAt(now, d \in answered')
  PROVE  Waits(d)'
<1>1. RETRY \in Nat \ {0}
  BY SensorAssumption
<1>2. Elapsed(now, now) = 0 /\ Elapsed(Plus(now, RETRY), now) = RETRY
  BY ClockFacts, DateAhead
<1>3. CASE d \in answered'
  BY <1>2, <1>3 DEF RetryAt, Waits
<1>4. CASE d \notin answered'
  <2>1. retry_at_ms'[d] = Plus(now, RETRY)
    BY <1>4 DEF RetryAt
  <2>2. since_try'[d] < RETRY /\ since_try'[d] <= RETRY - 1 + Lag(d)'
    BY <1>1
  <2>3. since_try'[d] + Elapsed(retry_at_ms'[d], now') = RETRY
    BY <1>1, <1>2, <2>1
  <2> QED BY <1>4, <2>2, <2>3 DEF Waits
<1> QED BY <1>3, <1>4

\* A device that is not due has not waited long: its pass may be over.
LEMMA Early ==
  ASSUME TryInv, NEW d \in Devices, ~retry_due(now, retry_at_ms[d])
  PROVE  d \notin answered /\ since_try[d] < RETRY
<1>1. /\ now \in Clock /\ retry_at_ms[d] \in Clock /\ since_try[d] \in Nat
      /\ Waits(d) /\ RETRY \in Nat \ {0}
  BY SensorAssumption DEF TryInv, FreshInv, Waits
<1>2. /\ Lag(d) \in Nat /\ Lag(d) < EnvPeriod + EnvJitter
      /\ EnvPeriod \in Nat /\ EnvJitter \in Nat
      /\ d \in answered => Elapsed(now, retry_at_ms[d]) <= Lag(d)
  <2>1. FreshInv
    BY DEF TryInv
  <2>2. CASE d = "BMI270"
    BY <2>1, <2>2, Lags DEF Lag, FreshInv
  <2>3. CASE d # "BMI270"
    BY <2>1, <2>3, Lags DEF Lag, FreshInv, Devices
  <2> QED BY <2>2, <2>3
<1>3. /\ Elapsed(now, retry_at_ms[d]) \in Nat
      /\ ~(Elapsed(now, retry_at_ms[d]) < EnvPeriod + EnvJitter)
  BY <1>1, ClockFacts
<1>4. d \notin answered
  BY <1>2, <1>3
<1>5. ~(since_try[d] >= RETRY)
  BY <1>1, <1>2, <1>3, <1>4 DEF Waits
<1> QED BY <1>1, <1>4, <1>5

LEMMA TryInit ==
  Init => TryInv
<1> SUFFICES ASSUME NEW ok \in SUBSET {"BARO", "BMI270"}, InitWith(ok)
             PROVE  TryInv
  BY DEF Init
<1>1. FreshInv
  BY FreshInit DEF Init
<1>2. /\ now \in Clock /\ RETRY \in Nat \ {0} /\ EnvPeriod \in Nat \ {0}
      /\ Elapsed(now, now) = 0 /\ Elapsed(Plus(now, RETRY), now) = RETRY
  BY ClockFacts, DateAhead, SensorAssumption DEF InitWith
<1>3. since_try \in [Devices -> Nat]
  BY <1>2 DEF InitWith
<1>4. ASSUME NEW d \in Devices PROVE Waits(d)
  <2>1. Lag(d) \in Nat /\ (d # "BMI270" => Lag(d) >= 1)
    BY <1>2 DEF InitWith, EnvAsleep, Lag, ImuLag, EnvLag
  <2>2. CASE d \in ok
    BY <1>2, <2>2 DEF InitWith, Waits
  <2>3. CASE d \in {"BARO", "BMI270"} \ ok
    <3>1. since_try[d] = 0 /\ retry_at_ms[d] = Plus(now, RETRY) /\ d \notin answered
      BY <2>3 DEF InitWith
    <3> QED BY <1>2, <2>1, <3>1 DEF Waits
  <2>4. CASE d \notin {"BARO", "BMI270"}
    <3>1. since_try[d] = RETRY /\ retry_at_ms[d] = now /\ d \notin answered
      BY <2>4 DEF InitWith
    <3> QED BY <1>2, <2>1, <2>4, <3>1 DEF Waits
  <2> QED BY <2>2, <2>3, <2>4
<1> QED BY <1>1, <1>3, <1>4 DEF TryInv, Waits

\* A pass of task_imu tries the BMI270 or finds it early.
LEMMA TryImu ==
  TryInv /\ Imu => TryInv'
<1> SUFFICES ASSUME TryInv, Imu PROVE TryInv'
  OBVIOUS
<1>1. FreshInv /\ FreshInv'
  BY FreshImu DEF TryInv
<1>2. /\ ImuLag' \in 0 .. 1 /\ now \in Clock /\ now' = now /\ "BMI270" \in Devices
      /\ EnvLag' = EnvLag /\ answered \subseteq answered
  <2>1. (FreshInv => ImuLag \in 0 .. 1)'
    <3>1. FreshInv => ImuLag \in 0 .. 1
      BY Lags
    <3> QED BY <3>1, Lags DEF ImuLag
  <2>2. ("env" \in due') <=> ("env" \in due)
    BY DEF Imu, ImuSkip, ImuFails, ImuFlag, ImuReads
  <2>3. UNCHANGED <<now, env, phase>>
    BY DEF Imu, ImuSkip, ImuFails, ImuFlag, ImuReads
  <2> QED BY <1>1, <2>1, <2>2, <2>3 DEF EnvLag, FreshInv, Devices
<1>3. \A d \in Devices : Waits(d) /\ since_try[d] \in Nat
  BY DEF TryInv, Waits
<1>4. ASSUME NEW d \in EnvSet PROVE Waits(d)'
  <2>1. /\ d \in answered' <=> d \in answered
        /\ since_try'[d] = since_try[d] /\ retry_at_ms'[d] = retry_at_ms[d]
    <3>1. /\ d # "BMI270" /\ d \in Devices /\ since_try \in [Devices -> Nat]
          /\ retry_at_ms \in [Devices -> Clock]
      BY EnvNames DEF Devices, TryInv, FreshInv
    <3>2. CASE ImuSkip \/ ImuFlag
      BY <3>2 DEF ImuSkip, ImuFlag, history, devices
    <3>3. CASE ImuFails
      BY <3>1, <3>3 DEF ImuFails, Attempt
    <3>4. CASE \E accel \in Accels : ImuReads(accel)
      BY <3>1, <3>4 DEF ImuReads, Attempt
    <3> QED BY <3>2, <3>3, <3>4 DEF Imu
  <2>2. Lag(d)' = Lag(d) /\ d \in Devices
    BY <1>2, EnvNames DEF Lag, Devices
  <2> QED BY <1>2, <1>3, <2>1, <2>2 DEF Waits
<1>5. Waits("BMI270")'
  <2> DEFINE b == "BMI270"
  <2>1. CASE ImuSkip
    <3>1. b \notin answered /\ since_try[b] < RETRY
      BY <1>2, <2>1, Early DEF ImuSkip
    <3>2. UNCHANGED <<answered, since_try, retry_at_ms>>
      BY <2>1 DEF ImuSkip, history, devices
    <3>3. since_try[b] <= RETRY - 1 + Lag(b)'
      <4>1. Lag(b)' \in 0 .. 1 /\ RETRY \in Nat /\ since_try[b] \in Nat
        BY <1>2, <1>3, SensorAssumption DEF Lag
      <4> QED BY <3>1, <4>1
    <3> QED BY <1>2, <1>3, <3>1, <3>2, <3>3 DEF Waits
  <2>2. CASE ImuFlag
    <3>1. UNCHANGED <<answered, since_try, retry_at_ms>> /\ b \in answered
      BY <2>2 DEF ImuFlag, history, devices, TryInv, FreshInv, FlagsInv
    <3> QED BY <1>2, <1>3, <3>1 DEF Waits
  <2>3. CASE ImuFails \/ \E accel \in Accels : ImuReads(accel)
    <3>1. since_try'[b] = 0 /\ retry_at_ms'[b] = RetryAt(now, b \in answered')
      BY <1>2, <2>3 DEF ImuFails, ImuReads, Attempt, RetryAt, TryInv, FreshInv
    <3>2. Lag(b)' \in Nat
      BY <1>2 DEF Lag
    <3> QED BY <1>2, <3>1, <3>2, Tried
  <2> QED BY <2>1, <2>2, <2>3 DEF Imu
<1>6. since_try' \in [Devices -> Nat]
  <2>1. CASE ImuSkip \/ ImuFlag
    BY <2>1 DEF ImuSkip, ImuFlag, history, TryInv
  <2>2. CASE ImuFails \/ \E accel \in Accels : ImuReads(accel)
    <3>1. since_try' = [d \in Devices |-> IF d \in {"BMI270"} THEN 0 ELSE since_try[d]]
      BY <2>2 DEF ImuFails, ImuReads, Attempt
    <3> QED BY <1>3, <3>1
  <2> QED BY <2>1, <2>2 DEF Imu
<1> QED BY <1>1, <1>4, <1>5, <1>6 DEF TryInv, Waits, Devices

\* A pass of task_env tries every device that is due.
LEMMA TryEnv ==
  TryInv /\ Env => TryInv'
<1> SUFFICES ASSUME TryInv, Env PROVE TryInv'
  OBVIOUS
<1>1. FreshInv /\ FreshInv'
  BY FreshEnv DEF TryInv
<1>2. /\ now \in Clock /\ UNCHANGED <<now, imu, phase>> /\ EnvSet \subseteq Devices
      /\ "imu" \in due' <=> "imu" \in due
  BY <1>1 DEF Env, EnvSample, EnvValues, EnvFlag, FreshInv, Devices
<1>3. \A d \in Devices : Waits(d) /\ since_try[d] \in Nat
  BY DEF TryInv, Waits
<1>4. CASE EnvValues \/ EnvFlag
  <2>1. UNCHANGED <<retry_at_ms, since_try, answered>>
    BY <1>4 DEF EnvValues, EnvFlag, devices, history
  <2>2. EnvLag' = EnvLag
    <3>1. env.pc # "sleep"
      BY <1>4, EnvNames DEF EnvValues, EnvFlag
    <3>2. env'.pc # "sleep" \/ "env" \notin due'
      <4>1. CASE EnvValues
        <5>1. "pc" \in DOMAIN env
          BY <1>1 DEF FreshInv, FlagsInv, EnvAsleep
        <5>2. env'.pc = Head(EnvDevices)
          BY <4>1, <5>1 DEF EnvValues
        <5>3. Head(EnvDevices) \in EnvSet
          BY EnvNames
        <5> QED BY <5>2, <5>3, EnvNames
      <4>2. CASE EnvFlag
        <5> PICK k \in DOMAIN EnvDevices :
               IF k < Len(EnvDevices)
               THEN env' = [env EXCEPT !.pc = EnvDevices[k + 1]]
               ELSE due' = due \ {"env"}
          BY <4>2 DEF EnvFlag
        <5>1. CASE k < Len(EnvDevices)
          <6>1. k + 1 \in DOMAIN EnvDevices
            BY <5>1, EnvNames
          <6>2. env'.pc = EnvDevices[k + 1]
            BY <1>1, <5>1 DEF FreshInv, FlagsInv, EnvAsleep
          <6> QED BY <6>1, <6>2, EnvNames
        <5> QED BY <5>1
      <4> QED BY <1>4, <4>1, <4>2
    <3> QED BY <1>2, <3>1, <3>2 DEF EnvLag
  <2>3. \A d : Lag(d)' = Lag(d)
    BY <1>2, <2>2 DEF Lag, ImuLag
  <2>4. \A d \in Devices : Waits(d)'
    BY <1>2, <1>3, <2>1, <2>3 DEF Waits
  <2> QED BY <1>1, <2>1, <2>4 DEF TryInv, Waits
<1>5. ASSUME NEW ok \in SUBSET EnvDue, NEW alt \in Alts, EnvSample(ok, alt)
      PROVE  TryInv'
  <2>1. /\ retry_at_ms' = [d \in Devices |-> Backoff(d, ok)]
        /\ since_try' = [d \in Devices |-> IF d \in EnvDue THEN 0 ELSE since_try[d]]
        /\ answered' = (answered \ EnvDue) \cup ok /\ env'.pc = "values"
    BY <1>5 DEF EnvSample, Attempt
  <2>2. EnvLag' = phase /\ phase \in Nat /\ ImuLag' = ImuLag
    BY <1>1, <1>2, <2>1, Lags DEF EnvLag, ImuLag
  <2>3. \A d \in Devices : d \in answered' => d \in EnvDue \/ d \in answered
    BY <2>1
  <2>4. ASSUME NEW d \in Devices PROVE Waits(d)'
    <3>1. CASE d \in EnvDue
      <4>1. d \in answered' <=> d \in ok
        BY <2>1, <3>1
      <4>2. retry_at_ms'[d] = RetryAt(now, d \in ok) /\ since_try'[d] = 0
        BY <2>1, <3>1 DEF Backoff
      <4>3. retry_at_ms'[d] = RetryAt(now, d \in answered')
        BY <4>1, <4>2 DEF RetryAt
      <4>4. Lag(d)' \in Nat
        BY <2>2, <3>1, EnvNames DEF Lag, EnvDue
      <4> QED BY <1>2, <4>2, <4>3, <4>4, Tried
    <3>2. CASE d \notin EnvDue
      <4>1. /\ retry_at_ms'[d] = retry_at_ms[d] /\ since_try'[d] = since_try[d]
            /\ d \in answered' <=> d \in answered
        BY <2>1, <3>2 DEF Backoff
      <4>2. CASE d = "BMI270"
        <5>1. Lag(d)' = Lag(d)
          BY <2>2, <4>2 DEF Lag
        <5> QED BY <1>2, <1>3, <4>1, <5>1 DEF Waits
      <4>3. CASE d # "BMI270"
        <5>1. ~retry_due(now, retry_at_ms[d])
          BY <3>2, <4>3 DEF EnvDue, Devices
        <5>2. d \notin answered /\ since_try[d] < RETRY
          BY <5>1, Early
        <5>3. since_try[d] <= RETRY - 1 + Lag(d)'
          <6>1. Lag(d)' \in Nat /\ RETRY \in Nat /\ since_try[d] \in Nat
            BY <1>3, <2>2, <4>3, SensorAssumption DEF Lag
          <6> QED BY <5>2, <6>1
        <5> QED BY <1>2, <1>3, <4>1, <5>2, <5>3 DEF Waits
      <4> QED BY <4>2, <4>3
    <3> QED BY <3>1, <3>2
  <2>5. since_try' \in [Devices -> Nat]
    BY <1>3, <2>1
  <2> QED BY <1>1, <2>4, <2>5 DEF TryInv, Waits
<1> QED BY <1>4, <1>5 DEF Env

\* A wait is as long as the clock says.
LEMMA TryTick ==
  TryInv /\ Tick => TryInv'
<1> SUFFICES ASSUME TryInv, Tick PROVE TryInv'
  OBVIOUS
<1>1. FreshInv /\ FreshInv'
  BY FreshTick DEF TryInv
<1>2. /\ now' = Plus(now, 1) /\ now \in Clock /\ since_try' = Older(since_try)
      /\ UNCHANGED <<retry_at_ms, answered>> /\ retry_at_ms \in [Devices -> Clock]
      /\ RETRY \in Nat \ {0} /\ EnvPeriod \in Nat \ {0} /\ EnvJitter \in Nat \ {0}
      /\ EnvPeriod + EnvJitter <= ClockMod \div 2
  BY <1>1, SensorAssumption DEF Tick, devices, FreshInv
<1>3. ImuLag = 0 /\ ImuLag' = 1 /\ EnvLag' = EnvLag + 1
  <2>1. /\ UNCHANGED <<env, imu>> /\ "imu" \notin due /\ imu = "sleep" /\ "imu" \in due'
        /\ phase' = IF phase + 1 < EnvPeriod THEN phase + 1 ELSE 0
        /\ "env" \in due' <=> "env" \in due \/ phase' = 0
        /\ "env" \in due => phase + 1 < EnvJitter
        /\ phase \in 0 .. EnvPeriod - 1 /\ EnvJitter \in 1 .. EnvPeriod
        /\ env.pc # "sleep" => "env" \in due
    BY <1>1, SensorAssumption DEF Tick, FreshInv, FlagsInv
  <2> QED BY <1>2, <2>1 DEF ImuLag, EnvLag
<1>4. ASSUME NEW d \in Devices PROVE Waits(d)' /\ since_try'[d] \in Nat
  <2>1. since_try[d] \in Nat /\ Waits(d) /\ retry_at_ms[d] \in Clock
    BY <1>2 DEF TryInv, Waits
  <2>2. /\ Lag(d) \in Nat /\ Lag(d)' = Lag(d) + 1 /\ Lag(d)' < EnvPeriod + EnvJitter
        /\ d \in answered => Elapsed(now, retry_at_ms[d]) <= Lag(d)
    <3>1. EnvLag \in Nat /\ ImuLag \in Nat
      BY <1>1, Lags
    <3>2. EnvLag' < EnvPeriod + EnvJitter
      <4>1. /\ phase' \in 0 .. EnvPeriod - 1
            /\ "env" \in due' => phase' < EnvJitter
        BY <1>1 DEF FreshInv
      <4>2. EnvPeriod \in Nat /\ EnvJitter \in Nat \ {0}
        BY SensorAssumption
      <4>3. CASE "env" \in due' /\ env'.pc = "sleep"
        <5>1. EnvLag' = EnvPeriod + phase'
          BY <4>3 DEF EnvLag
        <5>2. \A j \in Nat : j < EnvJitter => EnvPeriod + j < EnvPeriod + EnvJitter
          BY <4>2
        <5>3. phase' \in Nat /\ phase' < EnvJitter
          BY <4>1, <4>2, <4>3
        <5> QED BY <5>1, <5>2, <5>3
      <4>4. CASE ~("env" \in due' /\ env'.pc = "sleep")
        <5>1. EnvLag' = phase'
          BY <4>4 DEF EnvLag
        <5> QED BY <4>1, <4>2, <5>1
      <4> QED BY <4>3, <4>4
    <3>3. CASE d = "BMI270"
      BY <1>1, <1>2, <1>3, <3>1, <3>3 DEF Lag, FreshInv
    <3>4. CASE d # "BMI270"
      BY <1>1, <1>2, <1>3, <3>1, <3>2, <3>4 DEF Lag, FreshInv, Devices
    <3> QED BY <3>3, <3>4
  <2> DEFINE n == since_try[d]
             u == retry_at_ms[d]
             m == Elapsed(now, u)
             a == Elapsed(u, now)
             l == Lag(d)
  <2>3. m \in Nat /\ a \in Nat
    BY <1>2, <2>1, DateAhead
  <2>4. n <= Longest
    <3>1. d \in answered => n = m
      BY <2>1 DEF Waits
    <3>2. d \notin answered => n <= RETRY - 1 + l
      BY <2>1 DEF Waits
    <3> HIDE DEF n, m, l
    <3>3. /\ n \in Nat /\ l \in Nat /\ l + 1 < EnvPeriod + EnvJitter
          /\ d \in answered => m <= l
      BY <2>1, <2>2 DEF n, m, l
    <3> QED BY <1>2, <2>3, <3>1, <3>2, <3>3 DEF Longest
  <2>5. since_try'[d] = n + 1
    BY <1>2, <2>1, <2>4 DEF Older, Longest
  <2>6. m < EnvPeriod + EnvJitter => Elapsed(now', u) = m + 1
    <3>1. m < EnvPeriod + EnvJitter => m < ClockMod \div 2
      <4>1. ClockMod \div 2 \in Int
        BY SensorAssumption
      <4> HIDE DEF m
      <4> QED BY <1>2, <2>3, <4>1
    <3> QED BY <1>2, <2>1, <3>1, ClockFacts
  <2>7. /\ a >= 1 => Elapsed(u, now') = a - 1
        /\ a = 1 => Elapsed(now', u) = 0
    BY <1>2, <2>1, DateAhead
  <2>8. since_try'[d] \in Nat
    BY <2>1, <2>5
  <2>9. CASE d \in answered
    <3>1. n = m /\ m < EnvPeriod + EnvJitter
      <4>1. n = m /\ m <= l
        BY <2>1, <2>2, <2>9 DEF Waits
      <4> HIDE DEF m, l
      <4>2. l \in Nat /\ l + 1 < EnvPeriod + EnvJitter
        BY <2>2 DEF l
      <4> QED BY <1>2, <2>3, <4>1, <4>2
    <3> QED BY <1>2, <2>5, <2>6, <2>8, <2>9, <3>1 DEF Waits
  <2>10. CASE d \notin answered
    <3>1. /\ n <= RETRY - 1 + l
          /\ n < RETRY => n + a = RETRY
          /\ n >= RETRY => n = RETRY + m
      BY <1>2, <2>1, <2>10 DEF Waits
    <3>2. l \in Nat /\ Lag(d)' = l + 1 /\ l + 1 < EnvPeriod + EnvJitter /\ n \in Nat
      BY <2>1, <2>2
    <3> DEFINE m1 == Elapsed(now', u)
               a1 == Elapsed(u, now')
    <3>3. /\ n + 1 <= RETRY - 1 + (l + 1)
          /\ n + 1 < RETRY => n + 1 + a1 = RETRY
          /\ n + 1 >= RETRY => n + 1 = RETRY + m1
      <4> HIDE DEF n, u, m, a, l
      <4>1. /\ m < EnvPeriod + EnvJitter => m1 = m + 1
            /\ a >= 1 => a1 = a - 1
            /\ a = 1 => m1 = 0
        BY <2>6, <2>7
      <4> HIDE DEF m1, a1
      <4>2. n < RETRY => n + a = RETRY /\ a >= 1
        BY <1>2, <2>3, <3>1, <3>2
      <4>3. CASE n + 1 < RETRY
        BY <1>2, <2>3, <3>1, <3>2, <4>1, <4>2, <4>3
      <4>4. CASE n + 1 = RETRY
        BY <1>2, <2>3, <3>1, <3>2, <4>1, <4>2, <4>4
      <4>5. CASE n >= RETRY
        BY <1>2, <2>3, <3>1, <3>2, <4>1, <4>5
      <4> QED BY <1>2, <3>2, <4>3, <4>4, <4>5
    <3> QED BY <1>2, <2>5, <2>10, <3>2, <3>3 DEF Waits
  <2> QED BY <2>8, <2>9, <2>10
<1>5. since_try' \in [Devices -> Nat]
  BY <1>2, <1>4 DEF Older
<1> QED BY <1>1, <1>4, <1>5 DEF TryInv, Waits

LEMMA TryStep ==
  TryInv /\ [Next]_vars => TryInv'
<1> SUFFICES ASSUME TryInv, [Next]_vars PROVE TryInv'
  OBVIOUS
<1>1. CASE UNCHANGED vars
  <2>1. UNCHANGED <<now, retry_at_ms, age, phase, due, imu, env, answered,
                    sensor_ok, since_try>> /\ FlagsInv'
    BY <1>1, FlagsStep DEF vars, shown, devices, tasks, history, TryInv, FreshInv
  <2>2. FreshInv'
    BY <2>1 DEF TryInv, FreshInv, ImuLag, EnvLag, Written, AgeLag
  <2> QED BY <2>1, <2>2 DEF TryInv, Lag, ImuLag, EnvLag
<1> QED BY <1>1, TryImu, TryEnv, TryTick DEF Next

\* No device is given up, however the passes are delayed within their jitter
\* (retry_due, sensor_manager.c).
THEOREM ProbesHold == Spec => []ProbedAgain
<1>1. TryInv => ProbedAgain
  <2> SUFFICES ASSUME TryInv, NEW d \in Devices PROVE since_try[d] <= Longest
    BY DEF ProbedAgain
  <2>1. since_try[d] \in Nat /\ Waits(d) /\ FreshInv
    BY DEF TryInv, Waits
  <2>2. /\ Lag(d) \in Nat /\ Lag(d) < EnvPeriod + EnvJitter
        /\ d \in answered => Elapsed(now, retry_at_ms[d]) <= Lag(d)
    <3>1. CASE d = "BMI270"
      BY <2>1, <3>1, Lags DEF Lag, FreshInv
    <3>2. CASE d # "BMI270"
      BY <2>1, <3>2, Lags DEF Lag, FreshInv, Devices
    <3> QED BY <3>1, <3>2
  <2>3. RETRY \in Nat \ {0} /\ EnvPeriod \in Nat /\ EnvJitter \in Nat
    BY SensorAssumption
  <2>4. since_try[d] <= Lag(d) \/ since_try[d] <= RETRY - 1 + Lag(d)
    BY <2>1, <2>2 DEF Waits
  <2> QED BY <2>1, <2>2, <2>3, <2>4 DEF Longest
<1> QED BY TryInit, TryStep, <1>1, PTL DEF Spec

\* Each silent device is left alone for HK_SENSOR_RETRY_MS, also while the
\* clock wraps (retry_due, sensor_manager.c).
THEOREM BackoffHolds == Spec => BackoffKept
<1> DEFINE Kept == \A d \in Devices \ answered :
                     since_try[d] > 0 /\ since_try'[d] = 0 => since_try[d] >= RETRY
<1>1. TryInv /\ [Next]_vars => [Kept]_vars
  <2> SUFFICES ASSUME TryInv, Next, NEW d \in Devices \ answered,
                      since_try[d] > 0, since_try'[d] = 0
               PROVE  since_try[d] >= RETRY
    OBVIOUS
  <2>1. /\ since_try[d] \in Nat /\ now \in Clock /\ retry_at_ms[d] \in Clock
        /\ RETRY \in Nat \ {0}
        /\ since_try[d] < RETRY => since_try[d] + Elapsed(retry_at_ms[d], now) = RETRY
    BY SensorAssumption DEF TryInv, FreshInv
  <2> DEFINE n == since_try[d]
             a == Elapsed(retry_at_ms[d], now)
  <2>2. n < RETRY => a \in 1 .. RETRY
    <3>1. a \in Nat
      BY <2>1, DateAhead
    <3>2. n \in Nat /\ n > 0 /\ RETRY \in Nat /\ (n < RETRY => n + a = RETRY)
      BY <2>1
    <3> HIDE DEF n, a
    <3> QED BY <3>1, <3>2
  <2>3. retry_due(now, retry_at_ms[d]) => since_try[d] >= RETRY
    BY <2>1, <2>2, DateAhead
  <2>4. ~Tick
    <3> SUFFICES ASSUME Tick PROVE FALSE
      OBVIOUS
    <3>1. since_try'[d] = IF n > Longest THEN n ELSE n + 1
      BY DEF Tick, Older
    <3>2. n \in Nat /\ n > 0
      BY <2>1
    <3> QED BY <3>1, <3>2
  <2>5. CASE Imu
    <3>1. CASE ImuSkip \/ ImuFlag
      BY <3>1 DEF ImuSkip, ImuFlag, history
    <3>2. CASE ImuFails \/ \E accel \in Accels : ImuReads(accel)
      <4>1. /\ since_try'[d] = IF d = "BMI270" THEN 0 ELSE since_try[d]
            /\ retry_due(now, retry_at_ms["BMI270"])
        BY <3>2 DEF ImuFails, ImuReads, Attempt
      <4>2. d = "BMI270"
        BY <4>1
      <4> QED BY <2>3, <4>1, <4>2
    <3> QED BY <2>5, <3>1, <3>2 DEF Imu
  <2>6. CASE Env
    <3>1. CASE EnvValues \/ EnvFlag
      BY <3>1 DEF EnvValues, EnvFlag, history
    <3>2. CASE \E ok \in SUBSET EnvDue, alt \in Alts : EnvSample(ok, alt)
      <4>1. since_try'[d] = IF d \in EnvDue THEN 0 ELSE since_try[d]
        BY <3>2 DEF EnvSample, Attempt
      <4>2. d \in EnvDue
        BY <4>1
      <4> QED BY <2>3, <4>2 DEF EnvDue
    <3> QED BY <2>6, <3>1, <3>2 DEF Env
  <2> QED BY <2>4, <2>5, <2>6 DEF Next
<1> QED BY TryInit, TryStep, <1>1, PTL DEF Spec, BackoffKept
-----------------------------------------------------------------------------
(* Types. *)

\* An age is bounded by the passes, so it never grows beyond what the history
\* counts.
LEMMA Counts ==
  /\ Longest \in Nat /\ RETRY <= Longest + 1 /\ EnvPeriod <= Longest + 1
  /\ 0 \in 0 .. Longest + 1 /\ 0 \in Clock
  /\ \A a \in [Devices -> 0 .. Longest + 1] :
       Older(a) \in [Devices -> 0 .. Longest + 1]
<1>1. Longest \in Nat /\ RETRY <= Longest + 1 /\ EnvPeriod <= Longest + 1
  BY SensorAssumption DEF Longest
<1>2. 0 \in 0 .. Longest + 1
  BY <1>1
<1>3. 0 \in Clock
  BY SensorAssumption DEF Clock
<1>4. ASSUME NEW a \in [Devices -> 0 .. Longest + 1], NEW d \in Devices
      PROVE  (IF a[d] > Longest THEN a[d] ELSE a[d] + 1) \in 0 .. Longest + 1
  <2> DEFINE n == a[d]
             top == Longest
  <2>1. n \in 0 .. top + 1 /\ top \in Nat
    BY <1>1, <1>4
  <2> HIDE DEF n, top
  <2>2. (IF n > top THEN n ELSE n + 1) \in 0 .. top + 1
    BY <2>1
  <2> QED BY <2>2 DEF n, top
<1> QED BY <1>1, <1>2, <1>3, <1>4 DEF Older

LEMMA TypeInit ==
  Init => TypeOK
<1> SUFFICES ASSUME NEW ok \in SUBSET {"BARO", "BMI270"}, InitWith(ok)
             PROVE  TypeOK
  BY DEF Init
<1>1. ok \subseteq Devices
  BY EnvNames, SensorAssumption DEF Devices
<1>2. now \in Clock /\ retry_at_ms \in [Devices -> Clock]
  BY ClockFacts DEF InitWith
<1>3. /\ age \in [Devices -> 0 .. Longest + 1]
      /\ since_try \in [Devices -> 0 .. Longest + 1]
  BY Counts, SensorAssumption DEF InitWith
<1>4. env \in [pc : {"sleep", "values"} \cup EnvSet, now : Clock,
               try : SUBSET EnvSet, ok : SUBSET EnvSet,
               alt_m : Alts \cup {0}, vs : Int]
  <2> QED BY Counts DEF InitWith, EnvAsleep
<1>5. vspeed \in [value : Int, prev_x : Alts \cup {0}, primed : BOOLEAN]
  BY DEF InitWith
<1>6. /\ picture \in [alt_m : Alts \cup {0}, vspeed_ms : Int,
                      accel_g : Accels \cup {0}]
      /\ scaled \in BOOLEAN /\ env.ok \subseteq env.try
      /\ due \subseteq {"imu", "env"} /\ phase \in 0 .. EnvPeriod - 1
      /\ imu \in {"sleep", "flag"} /\ answered = ok /\ sensor_ok = ok
  BY SensorAssumption DEF InitWith, EnvAsleep, hk_bmi270_init
<1> QED BY <1>1, <1>2, <1>3, <1>4, <1>5, <1>6 DEF TypeOK

LEMMA TypeImu ==
  TypeOK /\ Imu => TypeOK'
<1> SUFFICES ASSUME TypeOK, Imu PROVE TypeOK'
  OBVIOUS
<1> USE DEF TypeOK
<1>1. CASE ImuSkip
  BY <1>1 DEF ImuSkip, shown, devices, history
<1>2. CASE ImuFlag
  BY <1>2 DEF ImuFlag, Devices, devices, history
<1>3. /\ now \in Clock /\ "BMI270" \in Devices
      /\ \A ok \in BOOLEAN : RetryAt(now, ok) \in Clock
  BY ClockFacts, DateAhead DEF Devices, RetryAt
<1>4. ASSUME NEW ok \in SUBSET {"BMI270"}, Attempt({"BMI270"}, ok)
      PROVE  /\ since_try' \in [Devices -> 0 .. Longest + 1]
             /\ answered' \subseteq Devices
  <2>1. /\ since_try' = [d \in Devices |-> IF d \in {"BMI270"} THEN 0 ELSE since_try[d]]
        /\ answered' = (answered \ {"BMI270"}) \cup ok
    BY <1>4 DEF Attempt
  <2>2. since_try \in [Devices -> 0 .. Longest + 1] /\ 0 \in 0 .. Longest + 1
    BY Counts
  <2>3. since_try' \in [Devices -> 0 .. Longest + 1]
    BY <2>1, <2>2
  <2> QED BY <1>3, <2>1, <2>3
<1>5. CASE ImuFails
  BY <1>3, <1>4, <1>5 DEF ImuFails
<1>6. ASSUME NEW accel \in Accels, ImuReads(accel) PROVE TypeOK'
  <2>1. age' \in [Devices -> 0 .. Longest + 1]
    <3>1. age' = [age EXCEPT !["BMI270"] = 0] /\ 0 \in 0 .. Longest + 1
      BY <1>6, Counts DEF ImuReads
    <3> QED BY <3>1
  <2>2. hk_bmi270_read(accel) \in Accels \cup {0}
    BY DEF hk_bmi270_read
  <2> QED BY <1>3, <1>4, <1>6, <2>1, <2>2 DEF ImuReads
<1> QED BY <1>1, <1>2, <1>5, <1>6 DEF Imu

LEMMA TypeEnv ==
  TypeOK /\ FreshInv /\ Env => TypeOK'
<1> SUFFICES ASSUME TypeOK, FreshInv, Env PROVE TypeOK'
  OBVIOUS
<1> USE DEF TypeOK
<1> DEFINE Passes == [pc : {"sleep", "values"} \cup EnvSet, now : Clock,
                      try : SUBSET EnvSet, ok : SUBSET EnvSet,
                      alt_m : Alts \cup {0}, vs : Int]
<1>1. ASSUME NEW ok \in SUBSET EnvDue, NEW alt \in Alts, EnvSample(ok, alt)
      PROVE  TypeOK'
  <2>1. EnvDue \subseteq EnvSet /\ EnvSet \subseteq Devices
    BY DEF EnvDue, Devices
  <2>2. vspeed' \in [value : Int, prev_x : Alts \cup {0}, primed : BOOLEAN]
    <3>1. vspeed.value \in Int /\ vspeed.prev_x \in Int /\ alt \in Int
      <4>1. Alts \subseteq Int /\ Alts \cup {0} \subseteq Int
        BY SensorAssumption
      <4>2. vspeed.value \in Int /\ vspeed.prev_x \in Alts \cup {0}
        OBVIOUS
      <4> QED BY <4>1, <4>2
    <3>2. vspeed.value + (3 * (20 * (alt - vspeed.prev_x) - vspeed.value)) \div 10
            \in Int
      BY <3>1
    <3>3. hk_deriv_lpf_update(vspeed, alt)
            \in [value : Int, prev_x : Alts \cup {0}, primed : BOOLEAN]
      BY <3>2 DEF hk_deriv_lpf_update
    <3> QED BY <1>1, <3>3 DEF EnvSample
  <2>3. env' \in Passes /\ env'.ok \subseteq env'.try
    BY <1>1, <2>1, <2>2 DEF EnvSample
  <2>4. retry_at_ms' \in [Devices -> Clock]
    <3>1. \A d \in Devices : Backoff(d, ok) \in Clock
      BY DateAhead DEF Backoff, RetryAt
    <3> QED BY <1>1, <3>1 DEF EnvSample
  <2>5. /\ since_try' \in [Devices -> 0 .. Longest + 1]
        /\ answered' \subseteq Devices
    BY <1>1, <2>1, Counts DEF EnvSample, Attempt
  <2> HIDE DEF Passes
  <2>6. UNCHANGED <<now, picture, sensor_ok, scaled, imu, due, phase, age>>
    BY <1>1 DEF EnvSample, shown
  <2> QED BY <2>2, <2>3, <2>4, <2>5, <2>6 DEF Passes
<1>2. CASE EnvValues
  <2>1. Elapsed(now, env.now) \in 0 .. Longest + 1
    <3>1. Elapsed(now, env.now) \in Nat /\ Elapsed(now, env.now) <= phase
      BY <1>2, EnvNames, ClockFacts DEF EnvValues, FreshInv
    <3>2. phase \in 0 .. EnvPeriod - 1 /\ EnvPeriod \in Nat
      BY SensorAssumption
    <3> DEFINE n == Elapsed(now, env.now)
    <3> HIDE DEF n
    <3>3. n \in Nat /\ n <= phase
      BY <3>1 DEF n
    <3>4. n \in 0 .. Longest + 1
      BY <3>2, <3>3, Counts
    <3> QED BY <3>4 DEF n
  <2>2. age' \in [Devices -> 0 .. Longest + 1]
    BY <1>2, <2>1 DEF EnvValues
  <2>3. env' \in Passes /\ env'.ok \subseteq env'.try
    <3>1. EnvDevices[1] \in EnvSet
      <4>1. 1 \in DOMAIN EnvDevices
        BY EnvNames
      <4> QED BY <4>1, EnvNames
    <3>2. env' = [env EXCEPT !.pc = EnvDevices[1]]
      BY <1>2, EnvNames DEF EnvValues
    <3> QED BY <3>1, <3>2
  <2>4. picture' \in [alt_m : Alts \cup {0}, vspeed_ms : Int,
                      accel_g : Accels \cup {0}]
    BY <1>2 DEF EnvValues
  <2>5. UNCHANGED <<now, sensor_ok, devices, imu, due, phase, since_try, answered>>
    BY <1>2 DEF EnvValues
  <2> HIDE DEF Passes
  <2> QED BY <2>2, <2>3, <2>4, <2>5 DEF devices, Passes
<1>3. CASE EnvFlag
  <2> PICK k \in DOMAIN EnvDevices :
         /\ env.pc = EnvDevices[k]
         /\ sensor_ok' = FlagsAfter(EnvDevices[k])
         /\ IF k < Len(EnvDevices)
            THEN env' = [env EXCEPT !.pc = EnvDevices[k + 1]] /\ UNCHANGED due
            ELSE env' = EnvAsleep /\ due' = due \ {"env"}
         /\ UNCHANGED <<now, picture, devices, imu, phase, history>>
    BY <1>3 DEF EnvFlag
  <2>1. sensor_ok' \subseteq Devices
    BY EnvNames DEF FlagsAfter, Devices
  <2>2. env' \in Passes /\ env'.ok \subseteq env'.try
    <3>1. CASE k < Len(EnvDevices)
      <4>1. EnvDevices[k + 1] \in EnvSet
        BY <3>1, EnvNames
      <4> QED BY <3>1, <4>1
    <3>2. CASE ~(k < Len(EnvDevices))
      BY <3>2, Counts DEF EnvAsleep
    <3> QED BY <3>1, <3>2
  <2>3. due' \subseteq {"imu", "env"}
    OBVIOUS
  <2> HIDE DEF Passes
  <2> QED BY <2>1, <2>2, <2>3 DEF devices, history, Passes
<1> QED BY <1>1, <1>2, <1>3 DEF Env

LEMMA TypeTick ==
  TypeOK /\ Tick => TypeOK'
<1> SUFFICES ASSUME TypeOK, Tick PROVE TypeOK'
  OBVIOUS
<1>1. /\ age' \in [Devices -> 0 .. Longest + 1]
      /\ since_try' \in [Devices -> 0 .. Longest + 1]
  BY Counts DEF TypeOK, Tick
<1>2. phase' \in 0 .. EnvPeriod - 1
  BY SensorAssumption DEF TypeOK, Tick
<1>3. now' \in Clock
  BY ClockFacts DEF TypeOK, Tick
<1>4. /\ due' \subseteq {"imu", "env"}
      /\ UNCHANGED <<shown, devices, env, imu, answered>>
  BY DEF TypeOK, Tick
<1> QED BY <1>1, <1>2, <1>3, <1>4 DEF TypeOK, shown, devices

\* Every variable keeps its type, the filtered speed and the locals of an
\* interrupted pass included.
THEOREM TypeHolds == Spec => []TypeOK
<1>1. TypeOK /\ FreshInv /\ [Next]_vars => TypeOK'
  <2> SUFFICES ASSUME TypeOK, FreshInv, [Next]_vars PROVE TypeOK'
    OBVIOUS
  <2>1. CASE UNCHANGED vars
    BY <2>1 DEF vars, shown, devices, tasks, history, TypeOK
  <2> QED BY <2>1, TypeImu, TypeEnv, TypeTick DEF Next
<1>2. TryInv => FreshInv
  BY DEF TryInv
<1> QED BY TypeInit, TryInit, TryStep, <1>1, <1>2, PTL DEF Spec
=============================================================================
