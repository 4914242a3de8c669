------------------------------- MODULE Flight -------------------------------
(***************************************************************************)
(* A flight: the mission machine (Mission) reading the picture that the    *)
(* sampling tasks publish (SensorManager), on a capsule that is carried    *)
(* up, hangs, and falls once its carrier loses it or lets it go.  The      *)
(* tasks interleave; task_mission runs once per tick, before or after the  *)
(* pass of task_imu, and in the middle of a pass of task_env.              *)
(*                                                                         *)
(* The world is the assumption: a barometer that answers is right, and the *)
(* IMU shows 1 g unless the capsule falls, but for at most MaxSpikes       *)
(* samples.  Each device fails to answer at most MaxLapses times.          *)
(***************************************************************************)
EXTENDS Mission, Sequences

CONSTANTS
  EnvPeriod, EnvJitter, RETRY,   \* as in SensorManager
  Top,         \* altitude at which the carrier stops, m
  Climb, Fall, \* m per tick on the way up and in the fall
  ColdStarts,  \* the devices that may be silent in hk_sensors_init
  MaxGround,   \* bound: ticks on the ground before the climb
  MaxHang,     \* bound: ticks hanging before the fall
  MaxLapses,   \* bound: failed attempts at one device in one flight
  MaxSpikes    \* bound: wild samples of the IMU in one flight

ASSUME FlightAssumption ==
  /\ EnvPeriod \in Nat \ {0} /\ EnvJitter \in 1 .. EnvPeriod
  /\ RETRY \in Nat \ {0} /\ RETRY <= ClockMod \div 2
  /\ EnvPeriod + EnvJitter <= ClockMod \div 2
  /\ Top \in Nat /\ {Climb, Fall} \subseteq 1 .. Top
  /\ ColdStarts \subseteq Sensors
  /\ {MaxGround, MaxHang, MaxLapses, MaxSpikes} \subseteq Nat

VARIABLES
  \* SensorManager
  clock,       \* hk_millis, of which now is the value in the last task_mission
  picture, sensor_ok, retry_at_ms, vspeed, scaled, env, imu, due, phase,
  age, since_try, answered,
  \* the world
  height,      \* of the capsule, in m
  motion,      \* what it does
  dwell,       \* for how many ticks
  lapses,      \* failed attempts at each device so far
  spikes,      \* wild samples so far
  waiting      \* history: ticks for which the machine has owed a transition

sensors == <<clock, picture, sensor_ok, retry_at_ms, vspeed, scaled, env, imu,
             due, phase, age, since_try, answered>>
world   == <<height, motion, dwell, lapses, spikes, waiting>>
flight  == <<sensors, vars, world>>

EnvDevices == <<"BARO">>

S == INSTANCE SensorManager
       WITH now <- clock, Alts <- 0 .. Top, Accels <- {0, OneG}

-----------------------------------------------------------------------------
(* The sampling tasks on this world. *)

TrueAccel == IF motion = "fall" THEN 0 ELSE OneG

Imu ==
  /\ S!ImuSkip \/ S!ImuFlag \/ S!ImuReads(TrueAccel)
  /\ UNCHANGED <<vars, world>>

ImuSpike ==
  /\ spikes < MaxSpikes
  /\ S!ImuReads(OneG - TrueAccel)
  /\ spikes' = spikes + 1
  /\ UNCHANGED <<vars, height, motion, dwell, lapses, waiting>>

Env ==
  /\ S!EnvSample(S!EnvDue, height) \/ S!EnvValues \/ S!EnvFlag
  /\ UNCHANGED <<vars, world>>

Outage ==
  \E d \in Sensors :
    /\ lapses[d] < MaxLapses
    /\ IF d = "BMI270" THEN S!ImuFails
       ELSE S!EnvDue # {} /\ S!EnvSample({}, height)
    /\ lapses' = [lapses EXCEPT ![d] = @ + 1]
    /\ UNCHANGED <<vars, height, motion, dwell, spikes, waiting>>

-----------------------------------------------------------------------------
(* task_mission. *)

\* The picture as the input of hk_mission_step; rev-2 has no commands.
MissionIn ==
  [alt_m |-> picture.alt_m, vspeed_ms |-> picture.vspeed_ms,
   accel_g |-> picture.accel_g, sensor_ok_mask |-> sensor_ok, cmd |-> {}]

task_mission ==
  /\ now # clock
  /\ Tick(Elapsed(clock, now), MissionIn)
  /\ waiting' = IF state' = state THEN waiting ELSE 0
  /\ UNCHANGED <<sensors, height, motion, dwell, lapses, spikes>>

-----------------------------------------------------------------------------
(* The world. *)

\* The carrier leaves the ground, climbs to Top and stays; the capsule falls
\* when the carrier loses it, or when it is released.
Moves ==
  \/ motion = "ground" /\ dwell < MaxGround /\ motion' = "ground"
  \/ motion = "ground" /\ motion' = "climb"
  \/ motion = "climb" /\ motion' = IF height + Climb < Top THEN "climb"
                                   ELSE "hang"
  \/ motion = "hang" /\ dwell < MaxHang /\ motion' = "hang"
  \/ motion = "hang" /\ motion' = "fall"
  \/ motion = "fall" /\ motion' = IF height > Fall THEN "fall" ELSE "landed"

\* What the world calls for: arming at altitude, and release in a fall.
Owed == \/ state = "ATTACHED" /\ motion' = "hang"
        \/ state = "ARMED" /\ motion' = "fall"

\* Bound: a flight is followed to the end of the release, or to the ground.
TimePasses ==
  /\ now = clock /\ state # "DESCENT"
  /\ S!Tick
  /\ Moves
  /\ dwell' = IF motion' = motion THEN dwell + 1 ELSE 0
  /\ height' = CASE motion' = "climb"  -> height + Climb
                 [] motion' = "hang"   -> Top
                 [] motion' = "fall"   -> height - Fall
                 [] OTHER              -> 0
  /\ waiting' = IF Owed THEN waiting + 1 ELSE 0
  /\ UNCHANGED <<vars, lapses, spikes>>

\* A device that was silent at boot has failed once.
FlightInit ==
  /\ Init /\ now = 1 /\ clock = Plus(now, 1)
  /\ \E cold \in SUBSET ColdStarts :
       /\ S!InitWith(Sensors \ cold)
       /\ lapses = [d \in Sensors |-> IF d \in cold THEN 1 ELSE 0]
  /\ height = 0 /\ motion = "ground" /\ dwell = 0
  /\ spikes = 0 /\ waiting = 0

FlightNext == Imu \/ ImuSpike \/ Env \/ Outage \/ task_mission \/ TimePasses

FlightSpec == FlightInit /\ [][FlightNext]_flight

-----------------------------------------------------------------------------
(* Properties. *)

\* Nothing but a fall releases the capsule: not a wild sample of the IMU, not
\* an outage at any moment, not the zeroes of the picture before the first
\* samples, although the flags are set by then (sensor_manager.c:43-44).
ReleaseMeansFall ==
  [][state = "ARMED" /\ state' = "RELEASE"
       => motion \in {"fall", "landed"}]_flight

\* A capsule at altitude is armed in time, whatever outages there were: one
\* pass of task_env shows the altitude, and each outage of the barometer costs
\* no more than the backoff, a pass and the hold time that it cut short
\* (sensor_manager.c:81-86); those of the IMU cost nothing.
\* The tick of a timer that starts at clock 0 and is stored as 1 is in it.
PassTime  == EnvPeriod + EnvJitter
ArmTime   == PassTime + cfg.arm_hold_ms + 1
ArmedInTime ==
  state = "ATTACHED" =>
    waiting <= ArmTime
               + lapses["BARO"] * (RETRY + PassTime + cfg.arm_hold_ms)

\* A falling capsule is released in time, by whichever sensor sees it first:
\* the hold time, a tick each for the sample, the mission task and a timer
\* that starts at clock 0, and as much again for what an outage and a wild
\* sample of the IMU can spoil (mission.c:137-143).
CatchTime == cfg.release_hold_ms + 3
FallCaught ==
  state = "ARMED" =>
    waiting <= CatchTime + lapses["BMI270"] * (RETRY + CatchTime)
               + spikes * CatchTime
=============================================================================
