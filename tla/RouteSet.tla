------------------------------ MODULE RouteSet ------------------------------
(***************************************************************************)
(* What the routing of the core promises, whoever asks and in whatever     *)
(* order: a set of rows is due, and the rows installed follow it.  They    *)
(* may differ while the core is at work, and whenever it comes to rest     *)
(* they differ only by rows the operating system refused                   *)
(* (docs of install_union, set_routes and Routes::apply).                  *)
(***************************************************************************)
CONSTANT Rows

VARIABLES
    due,        \* what ought to be routed: asked for or leased, and routable
    rows,       \* what is routed
    refusals,   \* the rows refused in the latest pass
    atRest      \* no change is being carried out

setVars == <<due, rows, refusals, atRest>>

Differ == (due \ rows) \cup (rows \ due)

SetInit ==
    /\ due = {}
    /\ rows = {}
    /\ refusals = {}
    /\ atRest = TRUE

\* What is due changes, or a new pass is asked for: there is work to do.
Disturb ==
    /\ due' \in SUBSET Rows
    /\ atRest' = FALSE
    /\ UNCHANGED <<rows, refusals>>

MoveOne ==
    /\ ~atRest
    /\ \E r \in Rows : rows' = rows \cup {r} \/ rows' = rows \ {r}
    /\ UNCHANGED <<due, refusals, atRest>>

\* A pass begins with no refusal and collects those it meets.
Refuse ==
    /\ ~atRest
    /\ refusals' \in SUBSET Rows
    /\ UNCHANGED <<due, rows, atRest>>

ComeToRest ==
    /\ ~atRest
    /\ Differ \subseteq refusals
    /\ atRest' = TRUE
    /\ UNCHANGED <<due, rows, refusals>>

SetNext == Disturb \/ MoveOne \/ Refuse \/ ComeToRest

SetSpec == SetInit /\ [][SetNext]_setVars
=============================================================================
