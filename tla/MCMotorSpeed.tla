----------------------------- MODULE MCMotorSpeed -----------------------------
(***************************************************************************)
(* MotorSpeed for TLC, with the constants of the code: default, extreme and *)
(* absurd settings, the steps at which the ramp begins, turns and ends, and *)
(* a bounded number of changes of a setting.                               *)
(***************************************************************************)
EXTENDS MotorSpeed

CONSTANT MaxSets

MCDesireds == {-100, -50, -1, 0, 1, 50, 100}
MCMinSpeeds == {-1, 8, 12000, 22000, 65534}

VARIABLE sets

mcvars == <<vars, sets>>

MCInit == Init /\ sets = 0

MCNext ==
    \/ Update /\ UNCHANGED sets
    \/ sets < MaxSets /\ Setter /\ sets' = sets + 1

MCSpec == MCInit /\ [][MCNext]_mcvars
=============================================================================
