--------------------------- MODULE MCSensorManager ---------------------------
(* Two devices of task_env: the barometer and one that task_env reports on  *)
(* after it.                                                                *)
EXTENDS SensorManager

MCEnvDevices == <<"BARO", "SHT1">>
=============================================================================
