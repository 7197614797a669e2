------------------------------ MODULE MCHdc2080 ------------------------------
(***************************************************************************)
(* Hdc2080 for TLC: a bounded number of measurements, and of calls of       *)
(* i2cdev_init that are never undone.  At the bounds the model stops.       *)
(***************************************************************************)
EXTENDS Hdc2080

CONSTANTS MaxTriggers, MaxBuses

MCNext == Next /\ triggered' <= MaxTriggers /\ buses' <= MaxBuses

MCSpec == Init /\ [][MCNext]_vars
=============================================================================
