------------------------------- MODULE Members -------------------------------
(***************************************************************************)
(* What the list of bound devices promises to those who send to it.         *)
(*                                                                         *)
(* The members are the addresses on the list.  They change only in a pass,  *)
(* which begins with a judgement of what is wanted; a pass forgets what is  *)
(* not wanted before it learns what is, so a wanted member stays on the     *)
(* list all the time.  A pass that had nothing to forget, and memory for    *)
(* what it learned, ends with all that is wanted.                           *)
(***************************************************************************)
CONSTANT Addresses

VARIABLES
    members,    \* the addresses on the list
    passing,    \* a pass is under way
    wanted,     \* what the last judgement found
    sure        \* that pass has had nothing to forget, and memory

mvars == <<members, passing, wanted, sure>>

Init == members = {} /\ passing = FALSE /\ wanted = {} /\ sure = TRUE

\* Nothing is bound any more.
Clear ==
    /\ ~passing
    /\ members' = {} /\ wanted' = {} /\ sure' = TRUE
    /\ UNCHANGED passing

Judge ==
    /\ ~passing /\ passing' = TRUE
    /\ wanted' \subseteq Addresses
    /\ sure' = (members \subseteq wanted')
    /\ UNCHANGED members

Forget ==
    /\ passing
    /\ \E a \in members \ wanted : members' = members \ {a}
    /\ UNCHANGED <<passing, wanted, sure>>

\* From here on nothing is left to forget.
Judged == passing /\ members \subseteq wanted

Learn ==
    /\ Judged
    /\ \E a \in wanted : members' = members \cup {a}
    /\ UNCHANGED <<passing, wanted, sure>>

RunOut ==
    /\ Judged
    /\ sure' = FALSE
    /\ UNCHANGED <<members, passing, wanted>>

End ==
    /\ Judged
    /\ sure => members = wanted
    /\ passing' = FALSE
    /\ UNCHANGED <<members, wanted, sure>>

Next == Clear \/ Judge \/ Forget \/ Learn \/ RunOut \/ End

Spec == Init /\ [][Next]_mvars
=============================================================================
