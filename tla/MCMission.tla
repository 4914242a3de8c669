----------------------------- MODULE MCMission -----------------------------
(* Small instance of Mission: a clock of 8 values, so that every hold and  *)
(* every time-out straddles its wrap.                                      *)
EXTENDS Mission

MCcfg == [selftest_required_mask |-> {"BARO", "BMI270"},
          selftest_timeout_ms |-> 4, arm_mode |-> "AUTO_ALT",
          arm_altitude_m |-> 30, arm_hold_ms |-> 3,
          release_freefall_g |-> 35, release_hold_ms |-> 2,
          release_vspeed_ms |-> -8, release_actuation_ms |-> 3,
          landed_vspeed_ms |-> 1, landed_accel_tol_g |-> 15,
          landed_hold_ms |-> 3, descent_timeout_ms |-> 6,
          recovery_after_ms |-> 4]

\* Both sides of every threshold, every combination of dead sensors (whose
\* readings would fire if the machine looked at them), and a disarm that comes
\* together with a release.
Picture(alts, vspeeds, accels, masks, cmds) ==
  [alt_m : alts, vspeed_ms : vspeeds, accel_g : accels,
   sensor_ok_mask : masks, cmd : cmds]

MCInputs ==
  Picture({29}, {-8, 0, 1}, {0, 100, 115}, {{"BARO", "BMI270"}}, {{}})
  \cup Picture({29}, {-8, 0, 1}, {0, 100}, {{"BARO"}}, {{}})
  \cup Picture({29}, {-8, 0}, {0, 100, 115}, {{"BMI270"}}, {{}})
  \cup Picture({29}, {-8, 0}, {0, 100}, {{}}, {{}})
  \cup Picture({29}, {-8}, {0, 100}, {{"BMI270"}},
               {{"disarm"}, {"release"}, {"disarm", "release"}})
  \cup Picture({30}, {0}, {100}, SUBSET Sensors, {{}, {"arm"}})
=============================================================================
