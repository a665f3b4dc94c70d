------------------------------ MODULE MCNames -------------------------------
(***************************************************************************)
(* The names with a record of whether a claim was still writing its rule   *)
(* when the core was stopped, or has been asked for since.                 *)
(***************************************************************************)
EXTENDS Names, TLC

VARIABLE quiet  \* neither

HistInit == Init /\ quiet = TRUE

HistNext ==
    /\ Next
    /\ quiet' = IF \E r \in Requests : AskToClaim(r) THEN phase = "up"
                ELSE IF Stop THEN \A r \in Requests : at[r] \notin {"create"} \cup Writing
                ELSE quiet

HistSpec == HistInit /\ [][HistNext]_<<vars, quiet>>

\* main.rs:523-526: with no claim still writing when it stops and none asked for
\* after, a core gives the names back: it leaves no rule that a claim completed.
GivenBackWhenQuiet == phase = "ended" /\ quiet => "mark" \notin rule

Symmetry == Permutations(Requests)
=============================================================================
