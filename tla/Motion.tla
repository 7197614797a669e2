------------------------------- MODULE Motion --------------------------------
(***************************************************************************)
(* What a blind motor promises, whatever its control loop does.            *)
(*                                                                         *)
(* The motor is in use or at rest.  Only in use is it driven, and only     *)
(* while its encoder counts.  What it knows of its position may change     *)
(* while it is in use; before it comes to rest, and only with the drive    *)
(* cut, it asks the flash to keep what it knows, so that a restart at rest *)
(* forgets nothing the flash did not refuse.                               *)
(***************************************************************************)
EXTENDS Integers

CONSTANTS
    Position,   \* the positions there are
    Unknown     \* what is assumed when there is nothing to go by

VARIABLES
    phase,      \* "absent" (no motor), "boot", "rest" or "use"
    duty,       \* sign of the drive
    counting,   \* the encoder counts
    known,      \* the position, as known in memory
    kept,       \* the position a restart finds
    refused     \* the flash refused the position the motor knows

mvars == <<phase, duty, counting, known, kept, refused>>

Init ==
    /\ phase \in {"absent", "boot"}
    /\ duty = 0
    /\ counting = (phase = "boot")
    /\ known = Unknown
    /\ kept = Unknown
    /\ refused = FALSE

\* The motor shows itself by a short movement at boot.
Identify ==
    /\ phase = "boot"
    /\ duty' \in {0, 1}
    /\ UNCHANGED <<phase, counting, known, kept, refused>>

\* The boot is over, or a command came in at rest.
Begin ==
    /\ phase \in {"boot", "rest"} /\ duty = 0
    /\ phase' = "use" /\ refused' = FALSE
    /\ UNCHANGED <<duty, counting, known, kept>>

Drive ==
    /\ phase = "use" /\ counting
    /\ duty' \in {-1, 0, 1}
    /\ UNCHANGED <<phase, counting, known, kept, refused>>

\* The encoder comes on, and with it perhaps the drive.
PowerUp ==
    /\ phase = "use" /\ ~counting
    /\ counting' = TRUE
    /\ duty' \in {-1, 0, 1}
    /\ UNCHANGED <<phase, known, kept, refused>>

See ==
    /\ phase = "use"
    /\ known' \in Position /\ refused' = FALSE
    /\ UNCHANGED <<phase, duty, counting, kept>>

\* A refusal may have written all the same.
Keep ==
    /\ phase = "use" /\ duty = 0
    /\ \/ kept' = known /\ refused' = FALSE
       \/ kept' \in {kept, known} /\ refused' = TRUE
    /\ UNCHANGED <<phase, duty, counting, known>>

Rest ==
    /\ phase = "use" /\ duty = 0
    /\ kept = known \/ refused
    /\ phase' = "rest" /\ counting' = FALSE
    /\ UNCHANGED <<duty, known, kept, refused>>

Restart ==
    /\ phase' \in {"absent", "boot"}
    /\ counting' = (phase' = "boot")
    /\ known' = IF phase' = "boot" THEN kept ELSE Unknown
    /\ duty' = 0 /\ refused' = FALSE
    /\ UNCHANGED kept

Next ==
    \/ Identify \/ Begin \/ Drive \/ PowerUp \/ See \/ Keep \/ Rest \/ Restart

Spec == Init /\ [][Next]_mvars
=============================================================================
