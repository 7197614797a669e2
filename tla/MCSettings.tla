------------------------------- MODULE MCSettings -------------------------------
(***************************************************************************)
(* Settings for TLC: a bounded number of events, which are settings written *)
(* (setup excepted), samples at a new position, and restarts; one setting   *)
(* at a time whose write failed.  Reports go on for ever.                   *)
(***************************************************************************)
EXTENDS Settings

CONSTANT MaxEvents

VARIABLE events

mcvars == <<vars, events>>

MCInit ==
    /\ Init /\ fMin < fMax /\ ~fInvert /\ fPlain = CreatedPlain
    /\ events = 0

Event == events < MaxEvents /\ events' = events + 1

MCHandler ==
    /\ Handler
    /\ \A k, l \in failed' : k = l
    /\ IF zb = "idle" /\ setup' = setup THEN Event ELSE UNCHANGED events

MCSample == Sample /\ IF pos' # pos THEN Event ELSE UNCHANGED events

MCRestart == Restart /\ Event

MCOther == (OnConnect \/ Report) /\ UNCHANGED events

MCNext == MCHandler \/ MCSample \/ MCRestart \/ MCOther

MCSpec == MCInit /\ [][MCNext]_mcvars
=============================================================================
