------------------------------ MODULE MCRouting -----------------------------
(***************************************************************************)
(* The routing with a record, for the task inside install_union, of the    *)
(* rows that have been asked for, or leased, all the time since it took    *)
(* the routing lock.                                                       *)
(***************************************************************************)
EXTENDS Routing, TLC

VARIABLES keptAsked, keptLeased

kept == <<keptAsked, keptLeased>>

AskedNow  == {r \in asked : Routable(r)}
LeasedNow == {r \in DOMAIN held : Routable(r)}

HistInit ==
    /\ RouteInit
    /\ keptAsked = {} /\ keptLeased = {}

\* Starts over with each pass, then loses whatever stops being there.
Since(rows, current) == IF holder' # holder THEN current ELSE rows \cap current

HistNext ==
    /\ Next
    /\ keptAsked' = Since(keptAsked, AskedNow')
    /\ keptLeased' = Since(keptLeased, LeasedNow')

HistSpec == HistInit /\ [][HistNext]_<<vars, kept>> /\ \A p \in Proc : WF_vars(Continue(p))

-----------------------------------------------------------------------------
\* core.rs:208-211, "a set arriving from the application never takes away an
\* address a name is currently resolving to, and an expiring lease never takes
\* away a prefix the application asked for": no pass removes a row that one of
\* the two halves has held on to for as long as the pass has run.
NeitherHalfErasesTheOther ==
    [][(keptAsked \cup keptLeased) \cap (table \ table') = {}]_<<vars, kept>>
=============================================================================
