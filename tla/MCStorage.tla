----------------------------- MODULE MCStorage -----------------------------
(* Small cards and queues: a queue of two or three frames, sessions of a few *)
(* records, one or two faults at any call and one power loss.                *)
EXTENDS Storage

MCFailAt == Steps
=============================================================================
