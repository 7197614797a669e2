------------------------------ MODULE MCBindings ------------------------------
(***************************************************************************)
(* Bindings for TLC: a bounded number of changes to a bounded table, and a  *)
(* bounded number of walks.                                                *)
(***************************************************************************)
EXTENDS Bindings

CONSTANTS MaxTable, MaxChanges, MaxSearches

VARIABLES changes, searches

mcvars == <<vars, changes, searches>>

MCInit == Init /\ changes = 0 /\ searches = 0

MCTableChanges ==
    /\ changes < MaxChanges /\ TableChanges /\ Len(table') <= MaxTable
    /\ changes' = changes + 1 /\ UNCHANGED searches

MCSearch ==
    /\ searches < MaxSearches
    /\ \E w \in Walks : SearchBindings(w)
    /\ searches' = searches + 1 /\ UNCHANGED changes

MCProgram ==
    /\ Callback \/ \E w \in Walks : Answer(w)
    /\ UNCHANGED <<changes, searches>>

MCNext == MCTableChanges \/ MCSearch \/ MCProgram

MCSpec == MCInit /\ [][MCNext]_mcvars
MCFairSpec == MCSpec /\ Fairness
=============================================================================
