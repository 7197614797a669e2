------------------------------- MODULE MCMotor -------------------------------
(***************************************************************************)
(* Motor for TLC: the world is given a budget of edges, of commands and of *)
(* mishaps, which are restarts and puts that fail, and one for all three;  *)
(* everything the program does by itself is unbounded.                     *)
(***************************************************************************)
EXTENDS Motor

CONSTANTS MaxEdges, MaxCommands, MaxMishaps, MaxEvents

MCEnds == {<<28, 36>>}
MCNudges == {3}

VARIABLES edges, commands, mishaps

mcvars == <<vars, edges, commands, mishaps>>

MCInit == Init /\ edges = 0 /\ commands = 0 /\ mishaps = 0

Events == edges + commands + mishaps

MCEdge ==
    /\ edges < MaxEdges /\ Events < MaxEvents
    /\ \E d \in {-1, 1} : Edge(d)
    /\ edges' = edges + 1 /\ UNCHANGED <<commands, mishaps>>

MCCommand ==
    /\ commands < MaxCommands /\ Events < MaxEvents
    /\ Command
    /\ commands' = commands + 1 /\ UNCHANGED <<edges, mishaps>>

MCRestart ==
    /\ mishaps < MaxMishaps /\ Events < MaxEvents
    /\ PcntFault \/ Restart
    /\ mishaps' = mishaps + 1 /\ UNCHANGED <<edges, commands>>

MCProgram ==
    /\ PcntCb \/ MotorStep \/ AppStep
    /\ mishaps' = mishaps + Cardinality(unsaved' \ unsaved)
    /\ UNCHANGED <<edges, commands>>
    /\ mishaps' <= MaxMishaps /\ Events' <= MaxEvents

MCNext == MCEdge \/ MCCommand \/ MCRestart \/ MCProgram

MCSpec == MCInit /\ [][MCNext]_mcvars

\* The same, with the tasks scheduled.
MCFairSpec == MCSpec /\ Fairness

=============================================================================
