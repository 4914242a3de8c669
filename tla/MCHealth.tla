------------------------------ MODULE MCHealth ------------------------------
(* The firmware's figures halved: units of 200 ms, env about every 500 ms,  *)
(* the fast tasks faster than a unit, a watchdog of 2 s.                    *)
EXTENDS Health

MCPeriod == [IMU |-> 1, ENV |-> 3, STORAGE |-> 1, health |-> 1]

\* Env may run one unit late, the others in the unit of their release.
MCJitter == [IMU |-> 1, ENV |-> 2, STORAGE |-> 1, health |-> 1]
=============================================================================
