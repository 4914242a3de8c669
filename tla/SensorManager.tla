--------------------------- MODULE SensorManager ---------------------------
(***************************************************************************)
(* The sampling of the I2C sensors (App/services/sensor_manager) by        *)
(* task_imu and task_env, and the picture of App/services/system_state     *)
(* they publish it in.  Values and validity flags are published in         *)
(* critical sections of their own, so any other task may look between.     *)
(*                                                                         *)
(* A tick of this model is a period of task_imu.  A sample is a number,    *)
(* kept for those two values that the mission machine reads; age is the    *)
(* history that tells how long ago the device delivered what is shown.     *)
(***************************************************************************)
EXTENDS Integers, Sequences

CONSTANTS
  EnvDevices,   \* the devices of task_env in the order it reports on them
  EnvPeriod,    \* ticks between two releases of task_env
  EnvJitter,    \* ticks within which a released pass of task_env is over
  RETRY,        \* HK_SENSOR_RETRY_MS
  ClockMod,     \* number of values of the ms clock
  Alts, Accels, \* what the BMP581 and a configured BMI270 may deliver
  OneG          \* accel_g of a capsule at rest

EnvSet  == {EnvDevices[k] : k \in DOMAIN EnvDevices}
Devices == EnvSet \cup {"BMI270"}
Clock   == 0 .. ClockMod - 1

\* The longest time between two attempts at one device: one pass comes a tick
\* too early, and the next as late as it may.
Longest == RETRY - 1 + EnvPeriod + EnvJitter - 1

ASSUME SensorAssumption ==
  /\ EnvDevices \in Seq({"BARO", "SHT1", "SHT2"}) /\ Head(EnvDevices) = "BARO"
  /\ EnvDevices # <<>>
  /\ \A j, k \in DOMAIN EnvDevices :
       EnvDevices[j] = EnvDevices[k] => j = k
  /\ EnvPeriod \in Nat \ {0} /\ EnvJitter \in 1 .. EnvPeriod
  /\ RETRY \in Nat \ {0} /\ ClockMod \in Nat
  /\ RETRY <= ClockMod \div 2 /\ EnvPeriod + EnvJitter <= ClockMod \div 2
  /\ Alts \subseteq Int /\ Accels \subseteq Nat /\ OneG \in Nat

VARIABLES
  now,          \* hk_millis
  picture,      \* the published values of hk_system_state_t
  sensor_ok,    \* its flags
  retry_at_ms,  \* one for each device
  vspeed,       \* the hk_deriv_lpf_t of the altitude
  scaled,       \* hk_bmi270_init got as far as the scale factors
  env,          \* the pass of task_env: its place and its locals
  imu,          \* the pass of task_imu: its place
  due,          \* the tasks whose pass is released and not yet over
  phase,        \* ticks since the last release of task_env
  age,          \* history: ticks since the device delivered what is shown
  since_try,    \* history: ticks since the last attempt at the device
  answered      \* history: what that attempt came to

shown   == <<picture, sensor_ok>>
devices == <<retry_at_ms, vspeed, scaled>>
tasks   == <<env, imu, due, phase>>
history == <<age, since_try, answered>>
vars == <<now, shown, devices, tasks, history>>

EnvAsleep == [pc |-> "sleep", now |-> 0, try |-> {}, ok |-> {},
              alt_m |-> 0, vs |-> 0]

-----------------------------------------------------------------------------
(* Helpers. *)

Plus(t, d)    == IF t + d < ClockMod THEN t + d ELSE t + d - ClockMod
Elapsed(t, u) == IF u <= t THEN t - u ELSE t - u + ClockMod

\* Mutant: a comparison that does not survive the wrap of the clock.
DueUnwrapped(t, at) == t >= at

\* The sign of a uint32_t difference.
retry_due(t, at) == Elapsed(t, at) < ClockMod \div 2

\* The altitude filter over 0.5 s and with alpha = 0.3, speeds in 0.1 m/s.
hk_deriv_lpf_update(f, alt) ==
  IF ~f.primed
  THEN [f EXCEPT !.prev_x = alt, !.primed = TRUE]
  ELSE [value |-> f.value + (3 * (20 * (alt - f.prev_x) - f.value)) \div 10,
        prev_x |-> alt, primed |-> TRUE]

\* Mutants: a failure that may be retried at once, and a clock that does not
\* wrap.
RetryAtOnce(t, ok)    == t
RetryUnwrapped(t, ok) == IF ok THEN t ELSE t + RETRY

RetryAt(t, ok) == IF ok THEN t ELSE Plus(t, RETRY)

Attempt(try, ok) ==
  /\ since_try' = [d \in Devices |-> IF d \in try THEN 0 ELSE since_try[d]]
  /\ answered' = (answered \ try) \cup ok

\* A BMI270 whose initialisation failed is read with scale factors of 0.
hk_bmi270_read(accel) == IF scaled THEN accel ELSE 0

-----------------------------------------------------------------------------
(* task_imu: hk_sensors_sample_imu. *)

ImuSkip ==
  /\ "imu" \in due /\ imu = "sleep"
  /\ ~retry_due(now, retry_at_ms["BMI270"])
  /\ due' = due \ {"imu"}
  /\ UNCHANGED <<now, shown, devices, env, imu, phase, history>>

\* Mutant: the failure is noted and the flag forgotten.
ImuFailsQuietly ==
  /\ "imu" \in due /\ imu = "sleep"
  /\ retry_due(now, retry_at_ms["BMI270"])
  /\ retry_at_ms' = [retry_at_ms EXCEPT !["BMI270"] = RetryAt(now, FALSE)]
  /\ Attempt({"BMI270"}, {})
  /\ due' = due \ {"imu"}
  /\ UNCHANGED <<now, shown, vspeed, scaled, env, imu, phase, age>>

ImuFails ==
  /\ "imu" \in due /\ imu = "sleep"
  /\ retry_due(now, retry_at_ms["BMI270"])
  /\ retry_at_ms' = [retry_at_ms EXCEPT !["BMI270"] = RetryAt(now, FALSE)]
  /\ Attempt({"BMI270"}, {})
  /\ sensor_ok' = sensor_ok \ {"BMI270"}
  /\ due' = due \ {"imu"}
  /\ UNCHANGED <<now, picture, vspeed, scaled, env, imu, phase, age>>

ImuReads(accel) ==
  /\ "imu" \in due /\ imu = "sleep"
  /\ retry_due(now, retry_at_ms["BMI270"])
  /\ retry_at_ms' = [retry_at_ms EXCEPT !["BMI270"] = RetryAt(now, TRUE)]
  /\ Attempt({"BMI270"}, {"BMI270"})
  /\ picture' = [picture EXCEPT !.accel_g = hk_bmi270_read(accel)]
  /\ age' = [age EXCEPT !["BMI270"] = 0]
  /\ imu' = "flag"
  /\ UNCHANGED <<now, sensor_ok, vspeed, scaled, env, due, phase>>

ImuFlag ==
  /\ imu = "flag"
  /\ sensor_ok' = sensor_ok \cup {"BMI270"}
  /\ imu' = "sleep"
  /\ due' = due \ {"imu"}
  /\ UNCHANGED <<now, picture, devices, env, phase, history>>

-----------------------------------------------------------------------------
(* task_env: hk_sensors_sample_env. *)

EnvDue == {d \in EnvSet : retry_due(now, retry_at_ms[d])}

\* Mutant: a pass that skips a device starts its wait anew.
RestartBackoff(d, ok) ==
  IF d \in EnvSet THEN RetryAt(now, d \in ok) ELSE retry_at_ms[d]

Backoff(d, ok) ==
  IF d \in EnvDue THEN RetryAt(now, d \in ok) ELSE retry_at_ms[d]

\* The conversions.  Of the devices tried, those in ok answer.
EnvSample(ok, alt) ==
  /\ "env" \in due /\ env.pc = "sleep"
  /\ ok \subseteq EnvDue
  /\ retry_at_ms' = [d \in Devices |-> Backoff(d, ok)]
  /\ Attempt(EnvDue, ok)
  /\ vspeed' = IF "BARO" \in ok THEN hk_deriv_lpf_update(vspeed, alt)
               ELSE vspeed
  /\ env' = [pc |-> "values", now |-> now, try |-> EnvDue, ok |-> ok,
             alt_m |-> IF "BARO" \in ok THEN alt ELSE 0, vs |-> vspeed'.value]
  /\ UNCHANGED <<now, shown, scaled, imu, due, phase, age>>

\* The critical section of the values.
EnvValues ==
  /\ env.pc = "values"
  /\ picture' = IF "BARO" \in env.ok
                THEN [picture EXCEPT !.alt_m = env.alt_m, !.vspeed_ms = env.vs]
                ELSE picture
  /\ age' = [d \in Devices |->
               IF d \in env.ok THEN Elapsed(now, env.now) ELSE age[d]]
  /\ env' = [env EXCEPT !.pc = Head(EnvDevices)]
  /\ UNCHANGED <<now, sensor_ok, devices, imu, due, phase, since_try, answered>>

\* Mutant: a flag that no failure clears.
FlagsKept(d) == IF d \in env.ok THEN sensor_ok \cup {d} ELSE sensor_ok

FlagsAfter(d) == IF d \notin env.try THEN sensor_ok
                 ELSE IF d \in env.ok THEN sensor_ok \cup {d}
                 ELSE sensor_ok \ {d}

\* The critical section of the flag of one device.
EnvFlag ==
  \E k \in DOMAIN EnvDevices :
    /\ env.pc = EnvDevices[k]
    /\ sensor_ok' = FlagsAfter(EnvDevices[k])
    /\ IF k < Len(EnvDevices)
       THEN env' = [env EXCEPT !.pc = EnvDevices[k + 1]] /\ UNCHANGED due
       ELSE env' = EnvAsleep /\ due' = due \ {"env"}
    /\ UNCHANGED <<now, picture, devices, imu, phase, history>>

-----------------------------------------------------------------------------
\* Counters of the history stop beyond the last value a property names.
Older(a) == [d \in Devices |-> IF a[d] > Longest THEN a[d] ELSE a[d] + 1]

\* vTaskDelayUntil: task_imu is done within each tick, task_env within
\* EnvJitter ticks of its release.
Tick ==
  /\ "imu" \notin due
  /\ "env" \in due => phase + 1 < EnvJitter
  /\ now' = Plus(now, 1)
  /\ phase' = IF phase + 1 < EnvPeriod THEN phase + 1 ELSE 0
  /\ due' = due \cup {"imu"} \cup (IF phase' = 0 THEN {"env"} ELSE {})
  /\ age' = Older(age) /\ since_try' = Older(since_try)
  /\ UNCHANGED <<shown, devices, env, imu, answered>>

\* The scale factors come last: an initialisation that fails leaves them 0.
hk_bmi270_init(ok) == scaled = ok

\* hk_state_init, then hk_sensors_init, whose attempts at the BMP581 and the
\* BMI270, with or without clearing the bus in between, came to ok.
InitWith(ok) ==
  /\ now \in Clock
  /\ picture = [alt_m |-> 0, vspeed_ms |-> 0, accel_g |-> 0]
  /\ sensor_ok = ok
  /\ retry_at_ms = [d \in Devices |->
                      IF d \in {"BARO", "BMI270"} \ ok THEN Plus(now, RETRY)
                      ELSE now]
  /\ vspeed = [value |-> 0, prev_x |-> 0, primed |-> FALSE]
  /\ hk_bmi270_init("BMI270" \in ok)
  /\ env = EnvAsleep /\ imu = "sleep"
  /\ due = {"imu", "env"} /\ phase = 0
  /\ age = [d \in Devices |-> 0]
  /\ since_try = [d \in Devices |->
                    IF d \in {"BARO", "BMI270"} THEN 0 ELSE RETRY]
  /\ answered = ok

Init == \E ok \in SUBSET {"BARO", "BMI270"} : InitWith(ok)

Imu == ImuSkip \/ ImuFails \/ ImuFlag \/ \E accel \in Accels : ImuReads(accel)
Env == \/ EnvValues \/ EnvFlag
       \/ \E ok \in SUBSET EnvDue, alt \in Alts : EnvSample(ok, alt)

Next == Imu \/ Env \/ Tick

Spec == Init /\ [][Next]_vars

-----------------------------------------------------------------------------
(* Properties. *)

TypeOK ==
  /\ now \in Clock
  /\ picture \in [alt_m : Alts \cup {0}, vspeed_ms : Int,
                  accel_g : Accels \cup {0}]
  /\ sensor_ok \subseteq Devices
  /\ retry_at_ms \in [Devices -> Clock]
  /\ vspeed \in [value : Int, prev_x : Alts \cup {0}, primed : BOOLEAN]
  /\ scaled \in BOOLEAN
  /\ env \in [pc : {"sleep", "values"} \cup EnvSet, now : Clock,
              try : SUBSET EnvSet, ok : SUBSET EnvSet,
              alt_m : Alts \cup {0}, vs : Int]
  /\ env.ok \subseteq env.try
  /\ imu \in {"sleep", "flag"}
  /\ due \subseteq {"imu", "env"} /\ phase \in 0 .. EnvPeriod - 1
  /\ age \in [Devices -> 0 .. Longest + 1]
  /\ since_try \in [Devices -> 0 .. Longest + 1]
  /\ answered \subseteq Devices

\* The age a value may reach under its flag: that of a sample taken at once
\* on release, seen until the next pass, as late as it may be, is over.
Fresh(d) == IF d = "BMI270" THEN 1 ELSE EnvPeriod + EnvJitter - 1

\* Whoever sees the flag of a device sees a recent value: publishing in two
\* critical sections (sensor_manager.c:106-117) never shows an old value under
\* a new flag, and an outage clears the flag in the pass that meets it.
OkIsFresh == \A d \in sensor_ok : age[d] <= Fresh(d)

\* Between two passes the flags say what the last real attempt at each device
\* came to: "a skipped one keeps the flag" (sensor_manager.c:113-114).
FlagsTrue ==
  /\ env.pc = "sleep" => sensor_ok \cap EnvSet = answered \cap EnvSet
  /\ imu = "sleep" => ("BMI270" \in sensor_ok <=> "BMI270" \in answered)

\* The inductive invariant behind FlagsTrue: in the middle of a pass the
\* flags of the devices reported on are true, and so are those of the devices
\* it did not try; of the others the locals of the pass know the truth.
Told(d) == d \in sensor_ok <=> d \in answered

FlagsInv ==
  /\ imu \in {"sleep", "flag"}
  /\ IF imu = "sleep" THEN Told("BMI270") ELSE "BMI270" \in answered
  /\ DOMAIN env = DOMAIN EnvAsleep
  /\ env.pc \in {"sleep", "values"} \cup EnvSet
  /\ env.pc = "sleep" => \A d \in EnvSet : Told(d)
  /\ env.pc # "sleep" => \A d \in EnvSet :
                           IF d \in env.try THEN d \in answered <=> d \in env.ok
                           ELSE Told(d)
  /\ \A k \in DOMAIN EnvDevices :
       env.pc = EnvDevices[k] => \A j \in 1 .. k - 1 : Told(EnvDevices[j])

\* The inductive invariant behind OkIsFresh: a device that answered was tried
\* so lately that it is due at every pass, and the age of what is shown under
\* a flag is bounded by how far the present pass has come.
ImuLag    == IF "imu" \in due /\ imu = "sleep" THEN 1 ELSE 0
EnvLag    == IF "env" \in due /\ env.pc = "sleep" THEN EnvPeriod + phase ELSE phase
Written   == IF env.pc \in EnvSet THEN env.ok ELSE {}
AgeLag(d) == IF "env" \in due /\ d \notin Written THEN EnvPeriod + phase ELSE phase

FreshInv ==
  /\ FlagsInv
  /\ now \in Clock /\ retry_at_ms \in [Devices -> Clock]
  /\ age \in [Devices -> Nat] /\ sensor_ok \subseteq Devices
  /\ phase \in 0 .. EnvPeriod - 1 /\ ("env" \in due => phase < EnvJitter)
  /\ imu = "flag" => "imu" \in due
  /\ "BMI270" \in answered => Elapsed(now, retry_at_ms["BMI270"]) <= ImuLag
  /\ "BMI270" \in sensor_ok \/ imu = "flag" => age["BMI270"] <= ImuLag
  /\ env.ok \subseteq EnvSet
  /\ env.pc # "sleep" => /\ "env" \in due
                         /\ env.now \in Clock /\ Elapsed(now, env.now) <= phase
                         /\ answered \cap EnvSet \subseteq env.try
  /\ \A d \in EnvSet \cap answered : Elapsed(now, retry_at_ms[d]) <= EnvLag
  /\ \A d \in EnvSet : d \in sensor_ok \cup Written => age[d] <= AgeLag(d)

\* The inductive invariant behind the next two: the date of the next attempt
\* and the time since the last one tell the same, and a device that waits is
\* tried by the first pass after its backoff.
Lag(d) == IF d = "BMI270" THEN ImuLag ELSE EnvLag

TryInv ==
  /\ FreshInv
  /\ since_try \in [Devices -> Nat]
  /\ \A d \in Devices :
       IF d \in answered THEN since_try[d] = Elapsed(now, retry_at_ms[d])
       ELSE /\ since_try[d] <= RETRY - 1 + Lag(d)
            /\ IF since_try[d] < RETRY
               THEN since_try[d] + Elapsed(retry_at_ms[d], now) = RETRY
               ELSE since_try[d] = RETRY + Elapsed(now, retry_at_ms[d])

\* A silent device is left alone for HK_SENSOR_RETRY_MS, also while the clock
\* wraps: each early probe would cost the task a bus time-out.
BackoffKept ==
  [][ \A d \in Devices \ answered :
        since_try[d] > 0 /\ since_try'[d] = 0 => since_try[d] >= RETRY ]_vars

\* No device is given up: it is probed again one period after that.
ProbedAgain == \A d \in Devices : since_try[d] <= Longest
=============================================================================
