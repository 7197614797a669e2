------------------------------ MODULE MCPosition ------------------------------
(***************************************************************************)
(* Position for TLC: words of 16 values, percentages in quarters, and a      *)
(* blind at the middle of the range, where a step carries into the high word. *)
(***************************************************************************)
EXTENDS Position

CONSTANTS MaxSamples, MaxCommands

MCEnds == {<<117, 137>>, <<0, 255>>}
MCJumps == {-10, -4, 0, 1, 5, 10}
MCNudges == {-3, 2}

VARIABLES samples, commands

mcvars == <<vars, samples, commands>>

MCInit == Init /\ samples = 0 /\ commands = 0

MCSample ==
    /\ samples < MaxSamples
    /\ \E d \in Jumps : Sample(d)
    /\ samples' = samples + 1 /\ UNCHANGED commands

MCTask ==
    /\ \/ \E word \in {"hi", "lo"} : StoreFirst(word)
       \/ StoreSecond \/ ReadPercent \/ ReadLift \/ Turn \/ Report
    /\ UNCHANGED <<samples, commands>>

MCCommand ==
    /\ commands < MaxCommands
    /\ Command
    /\ commands' = commands + 1 /\ UNCHANGED samples

MCNext == MCSample \/ MCTask \/ MCCommand

MCSpec == MCInit /\ [][MCNext]_mcvars
=============================================================================
