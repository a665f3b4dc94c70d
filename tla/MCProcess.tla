---------------------------- MODULE MCProcess ----------------------------
(***************************************************************************)
(* Process for TLC, with the time since the last replacement of a device,  *)
(* whichever start made it.                                                *)
(***************************************************************************)
EXTENDS Process

VARIABLE since   \* "never", "recent" or "old": the last device registered in place of another

HistInit == ProcessInit /\ since = "never"

\* An interval ends for the machine as for the start that is running.
HistNext ==
  \/ /\ ProcessNext
     /\ since' = IF made' > made /\ pc = "serve" THEN "recent"
                 ELSE IF last = "recent" /\ last' = "old" THEN "old" ELSE since
  \/ /\ since = "recent" /\ last # "recent"
     /\ since' = "old" /\ UNCHANGED vars

hvars == <<vars, since>>
HistSpec == HistInit /\ [][HistNext]_hvars

\* enrolment.rs:8-11: a refused device is replaced "no more often than"
\* MIN_INTERVAL.
ReplacedSparingly ==
  [][made' > made /\ pc = "serve" => since # "recent"]_hvars
=============================================================================
