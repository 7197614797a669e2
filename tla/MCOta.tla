-------------------------------- MODULE MCOta --------------------------------
(***************************************************************************)
(* Ota for TLC: a few files, and a bound on the transfers started.         *)
(***************************************************************************)
EXTENDS Ota

CONSTANTS MaxTransfers

\* A right and a wrong file of each kind.
File(id, size, delta) ==
    [id |-> id, size |-> size, delta |-> delta, tag |-> "image",
     length |-> TRUE, chip |-> TRUE, base |-> TRUE]
MCPlain == {File(1, 4, FALSE), [File(2, 4, FALSE) EXCEPT !.tag = "other"],
            [File(3, 4, FALSE) EXCEPT !.length = FALSE]}
MCDelta == {File(4, 7, TRUE), [File(5, 7, TRUE) EXCEPT !.base = FALSE],
            [File(6, 7, TRUE) EXCEPT !.chip = FALSE]}
MCImages == MCPlain \cup MCDelta

VARIABLE transfers

mcvars == <<vars, transfers>>

MCInit == Init /\ transfers = 0

MCStart ==
    /\ transfers < MaxTransfers /\ transfers' = transfers + 1
    /\ \E m \in Images : Start(m)

MCOther ==
    /\ BeginFails \/ \E n \in Blocks : Receive(n)
       \/ Abandon \/ Restart \/ Check \/ Apply \/ Finish \/ FinalizeFails \/ EndFails
    /\ UNCHANGED transfers

MCSpec == MCInit /\ [][MCStart \/ MCOther]_mcvars
=============================================================================
