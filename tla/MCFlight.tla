------------------------------ MODULE MCFlight ------------------------------
(* A tick is half the period of task_env, about 250 ms, and the thresholds *)
(* are the firmware's: arming at 30 m, release below 0.35 g or at -8 m/s    *)
(* (in 0.1 m/s).  The hold times are a few ticks, that of the release as    *)
(* long as a period of task_env, and what comes after it as short as can be. *)
EXTENDS Flight

MCcfg == [selftest_required_mask |-> {"BARO", "BMI270"},
          selftest_timeout_ms |-> 2, arm_mode |-> "AUTO_ALT",
          arm_altitude_m |-> 30, arm_hold_ms |-> 3,
          release_freefall_g |-> 35, release_hold_ms |-> 2,
          release_vspeed_ms |-> -80, release_actuation_ms |-> 1,
          landed_vspeed_ms |-> 7, landed_accel_tol_g |-> 15,
          landed_hold_ms |-> 1, descent_timeout_ms |-> 1,
          recovery_after_ms |-> 1]
=============================================================================
