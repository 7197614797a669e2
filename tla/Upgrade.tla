------------------------------- MODULE Upgrade -------------------------------
(***************************************************************************)
(* What a firmware upgrade promises, however its file comes in.            *)
(*                                                                         *)
(* The spare partition holds nothing that counts, or a start of the offered *)
(* firmware that only ever grows, or all of it.  It is booted only when it  *)
(* holds all of it, and nothing is written in between.  An upgrade may be   *)
(* dropped at any time before.                                             *)
(***************************************************************************)
EXTENDS Integers, Sequences

CONSTANTS
    Files,      \* the files there are
    Firmware    \* file -> the sequence of the firmware's units

VARIABLES
    state,      \* "none", "coming", "whole" or "booted"
    file,       \* the one on offer
    part        \* what is in the partition, as far as it counts

uvars == <<state, file, part>>

Starts(m) == {SubSeq(Firmware[m], 1, n) : n \in 0 .. Len(Firmware[m])}

Init == state = "none" /\ file \in Files /\ part = <<>>

Offer ==
    /\ state = "none"
    /\ file' \in Files
    /\ UNCHANGED <<state, part>>

Begin ==
    /\ state = "none" /\ state' = "coming"
    /\ part' \in Starts(file)
    /\ UNCHANGED file

Grow ==
    /\ state = "coming"
    /\ part' \in Starts(file) /\ Len(part) <= Len(part')
    /\ UNCHANGED <<state, file>>

Accept ==
    /\ state = "coming" /\ part = Firmware[file]
    /\ state' = "whole"
    /\ UNCHANGED <<file, part>>

Boot ==
    /\ state = "whole" /\ state' = "booted"
    /\ UNCHANGED <<file, part>>

Drop ==
    /\ state \in {"coming", "whole"} /\ state' = "none"
    /\ part' = <<>>
    /\ UNCHANGED file

Next == Offer \/ Begin \/ Grow \/ Accept \/ Boot \/ Drop

Spec == Init /\ [][Next]_uvars
=============================================================================
