----------------------------- MODULE MCGpsRx ------------------------------
(* A few short sentences over small buffers, which wrap more than once; a   *)
(* late poll overruns the ring.                                             *)
EXTENDS GpsRx

Sentence(t, k, p, f, l) ==
  [type |-> t, says |-> k, position |-> p, first |-> f, last |-> l]

MCStream ==
  <<Sentence("OTHER", "none", FALSE, 1, 3), Sentence("GGA", "yes", TRUE, 4, 6),
    Sentence("RMC", "no", FALSE, 7, 8), Sentence("GGA", "none", FALSE, 9, 11)>>
MCByte == 0 .. 11
=============================================================================
