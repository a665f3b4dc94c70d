------------------------------- MODULE Engine -------------------------------
(***************************************************************************)
(* The engine (src/engine.rs) and the choice of carrier it makes through   *)
(* src/transport/carrier.rs: open a tunnel over HTTP/3 or HTTP/2, carry    *)
(* packets until something stops, judge what stopped it, wait, and again.  *)
(*                                                                         *)
(* Around it: the line, which lets some carriers through and may move or   *)
(* start filtering at any time; Windows, which reports line changes; the   *)
(* control pipe, which asks for a reconnect or a stop; and the thread that *)
(* reads the adapter.  A request or a report wakes only what is waiting    *)
(* for one at that moment (core.rs reconnect_asked, line_change).          *)
(*                                                                         *)
(* Time is left out: a timer may go off whenever it is set.                *)
(***************************************************************************)
EXTENDS Naturals, Sequences

CONSTANTS
    Sources,        \* the addresses the endpoint can be reached from
    CutShortRun,    \* CUT_SHORT_RUN
    BackOff,        \* BACKOFF, in seconds
    MostFailures,   \* where the count of failures stops (model bound)
    MostRequests,   \* how often a reconnect is asked for (model bound)
    MostChanges     \* how often the line changes (model bound)

Carriers == {"h2", "h3"}

ASSUME EngineAssumption ==
    /\ CutShortRun \in Nat \ {0}
    /\ BackOff \in Seq(Nat) /\ BackOff # <<>>
    /\ MostFailures \in Nat /\ MostFailures >= Len(BackOff)
    /\ MostRequests \in Nat /\ MostChanges \in Nat

VARIABLES
    at,         \* where run() is
    choice,     \* the carrier the run chose, with its handshake taken in
    phase,      \* Core.phase, without the reason and the stages
    retryIn,    \* the wait the phase Lost announces
    failures,   \* attempts in a row that opened nothing
    cutShort,   \* tunnels in a row that died young having carried little
    handed,     \* an HTTP/3 tunnel is waiting to take over
    upgraded,   \* the tunnel in hand is one that took over
    carrier,    \* what the tunnel in hand rides
    parked,     \* HTTP/3 is being left alone
    answering,  \* the pump's third future: asleep, settling or asking
    upgrading,  \* the pump's fifth future: off, asleep or opening
    from        \* EndpointLine.from

engineVars == <<at, choice, phase, retryIn, failures, cutShort, handed, upgraded,
                carrier, parked, answering, upgrading, from>>

VARIABLES
    through,    \* the carriers the line lets through
    source,     \* the address the endpoint is reached from
    tunnel,     \* the one in hand: none, or one that carries, hangs or is broken
    declined,   \* the endpoint refuses this device
    delivering, \* the adapter's reader is still there
    told,       \* what woke what was waiting: a reconnect asked for, a line change
    stopped,    \* Core.stop
    requests, changes

worldVars == <<through, source, tunnel, declined, delivering, told, stopped,
               requests, changes>>

vars == <<engineVars, worldVars>>

NotTold == [reconnect |-> FALSE, line |-> FALSE]

Init ==
    /\ at = "top"
    /\ choice \in {"auto", "h3", "h2"}
    /\ phase = "connecting"
    /\ retryIn = 0
    /\ failures = 0 /\ cutShort = 0
    /\ handed = FALSE /\ upgraded = FALSE
    /\ carrier = "h2"
    /\ parked = FALSE
    /\ answering = "asleep" /\ upgrading = "off"
    /\ through \in SUBSET Carriers
    /\ source \in Sources /\ from = source
    /\ tunnel = "none"
    /\ declined \in BOOLEAN
    /\ delivering = TRUE
    /\ told = NotTold
    /\ stopped = FALSE
    /\ requests = 0 /\ changes = 0

-----------------------------------------------------------------------------
(* Opening a tunnel.                                                       *)

\* carrier.rs, plan(): what an attempt made now tries first.
TriesH3 == choice = "h3" \/ (choice = "auto" /\ ~parked)

\* http3_would_be_tried(): it would, with HTTP/2 behind it.
WouldTryH3 == choice = "auto" /\ ~parked

\* A tunnel is in hand: the schedule starts over and the phase says so.
TakeUp ==
    /\ failures' = 0
    /\ phase' = "up"
    /\ at' = "probe"

\* The top of run()'s loop: a tunnel that was handed over, or an attempt.
Top ==
    /\ at = "top"
    /\ upgraded' = handed
    /\ handed' = FALSE
    /\ \/ handed /\ TakeUp
       \/ /\ ~handed
          /\ phase' = "connecting"
          /\ at' = IF TriesH3 THEN "h3" ELSE "h2"
          /\ UNCHANGED failures
    /\ UNCHANGED <<choice, retryIn, cutShort, carrier, parked, answering,
                   upgrading, from, worldVars>>

Opens(c) ==
    /\ at = c
    /\ c \in through /\ ~declined
    /\ carrier' = c
    /\ tunnel' = "carries"
    /\ TakeUp
    /\ UNCHANGED <<choice, retryIn, cutShort, handed, upgraded, parked, answering,
                   upgrading, from, through, source, declined, delivering,
                   told, stopped, requests, changes>>

\* The tail of run()'s loop: announce the wait and begin to listen.
Lose ==
    /\ retryIn' = BackOff[IF failures < Len(BackOff) THEN failures + 1 ELSE Len(BackOff)]
    /\ failures' = IF failures < MostFailures THEN failures + 1 ELSE failures
    /\ phase' = "lost"
    /\ at' = "lost"
    /\ told' = NotTold

\* The fallback forgotten: HTTP/3 alone is tried, whatever was chosen.
H3FailsAlone ==
    /\ at = "h3"
    /\ "h3" \notin through \/ declined
    /\ Lose
    /\ UNCHANGED <<choice, parked, cutShort, handed, upgraded, carrier, answering,
                   upgrading, from, through, source, tunnel, declined, delivering,
                   stopped, requests, changes>>

\* HTTP/3 did not open.  Under auto it is parked, and HTTP/2 tried in the attempt.
H3Fails ==
    /\ at = "h3"
    /\ "h3" \notin through \/ declined
    /\ \/ /\ choice = "auto"
          /\ parked' = TRUE
          /\ at' = "h2"
          /\ UNCHANGED <<phase, retryIn, failures, told>>
       \/ /\ choice # "auto"
          /\ Lose
          /\ UNCHANGED parked
    /\ UNCHANGED <<choice, cutShort, handed, upgraded, carrier, answering, upgrading,
                   from, through, source, tunnel, declined, delivering,
                   stopped, requests, changes>>

\* HTTP/2 did not open: no answer, an error, or the attempt's 20 seconds are over.
H2Fails ==
    /\ at = "h2"
    /\ "h2" \notin through
    /\ Lose
    /\ UNCHANGED <<choice, cutShort, handed, upgraded, carrier, parked, answering,
                   upgrading, from, through, source, tunnel, declined,
                   delivering, stopped, requests, changes>>

\* The endpoint declined the device over HTTP/2.  Another is registered and the
\* core asked to stop, unless it cannot be or was too recently.
H2Refuses ==
    /\ at = "h2"
    /\ "h2" \in through /\ declined
    /\ stopped' \in {stopped, TRUE}
    /\ Lose
    /\ UNCHANGED <<choice, cutShort, handed, upgraded, carrier, parked, answering,
                   upgrading, from, through, source, tunnel, declined,
                   delivering, requests, changes>>

\* v6 is measured if need be (Measure of Routing), what went stale in the queue is
\* dropped (DropStale of PacketQueue), and the pump starts, with it the listening.
Probe ==
    /\ at = "probe"
    /\ at' = "pump"
    /\ answering' = "asleep"
    /\ upgrading' = IF carrier = "h2" THEN "asleep" ELSE "off"
    /\ told' = NotTold
    /\ UNCHANGED <<choice, phase, retryIn, failures, cutShort, handed, upgraded,
                   carrier, parked, from, through, source, tunnel, declined,
                   delivering, stopped, requests, changes>>

-----------------------------------------------------------------------------
(* The pump: five futures, the first to end ends it.                       *)

\* The pump returns: its futures are dropped, and the tunnel with them.
EndPump ==
    /\ at' = "judge"
    /\ answering' = "asleep" /\ upgrading' = "off"
    /\ tunnel' = "none"

\* EndpointLine::moved(), and what is done about it.
LookAgain ==
    /\ from' = source
    /\ parked' = (parked /\ from = source)

LineWakes ==
    /\ at = "pump" /\ answering = "asleep" /\ told.line
    /\ LookAgain
    /\ answering' = "settling"
    /\ UNCHANGED <<at, choice, phase, retryIn, failures, cutShort, handed, upgraded,
                   carrier, upgrading,  worldVars>>

\* PING_EVERY has passed.
IntervalEnds ==
    /\ at = "pump" /\ answering = "asleep"
    /\ answering' = "asking"
    /\ UNCHANGED <<at, choice, phase, retryIn, failures, cutShort, handed, upgraded,
                   carrier, parked, upgrading, from, worldVars>>

\* The wait begun anew after a report, and its interval with it.
SettledAsleep ==
    /\ at = "pump" /\ answering = "settling"
    /\ answering' = "asleep"
    /\ told' = [told EXCEPT !.line = FALSE]
    /\ UNCHANGED <<at, choice, phase, retryIn, failures, cutShort, handed, upgraded,
                   carrier, parked, upgrading, from, through, source, tunnel,
                   declined, delivering, stopped, requests, changes>>

\* SETTLING has passed since the report that was heard.
Settled ==
    /\ at = "pump" /\ answering = "settling"
    /\ answering' = "asking"
    /\ UNCHANGED <<at, choice, phase, retryIn, failures, cutShort, handed, upgraded,
                   carrier, parked, upgrading, from, worldVars>>

\* The endpoint answered; only now does the next wait listen for the line again.
Answered ==
    /\ at = "pump" /\ answering = "asking" /\ tunnel = "carries"
    /\ answering' = "asleep"
    /\ told' = [told EXCEPT !.line = FALSE]
    /\ UNCHANGED <<at, choice, phase, retryIn, failures, cutShort, handed, upgraded,
                   carrier, parked, upgrading, from, through, source, tunnel,
                   declined, delivering, stopped, requests, changes>>

\* PING_TIMEOUT has passed without an answer.  Nothing else tells a tunnel that hangs.
Unanswered ==
    /\ at = "pump" /\ answering = "asking" /\ tunnel = "hung"
    /\ EndPump
    /\ UNCHANGED <<choice, phase, retryIn, failures, cutShort, handed, upgraded, carrier,
                   parked, from, through, source, declined, delivering, told, stopped,
                   requests, changes>>

\* A broken tunnel tells so itself: sending, receiving or asking returns an error, the
\* endpoint has closed, or the adapter takes no packet.
Fails ==
    /\ at = "pump" /\ tunnel = "broken"
    /\ EndPump
    /\ UNCHANGED <<choice, phase, retryIn, failures, cutShort, handed, upgraded, carrier,
                   parked, from, through, source, declined, delivering, told, stopped,
                   requests, changes>>

\* A reconnect was asked for.
ReconnectWakes ==
    /\ at = "pump" /\ told.reconnect
    /\ parked' = FALSE
    /\ EndPump
    /\ UNCHANGED <<choice, phase, retryIn, failures, cutShort, handed, upgraded, carrier,
                   from, through, source, declined, delivering, told, stopped,
                   requests, changes>>

\* Nothing reads the adapter any more: the core is asked to stop.
AdapterEnds ==
    /\ at = "pump" /\ ~delivering
    /\ stopped' = TRUE
    /\ EndPump
    /\ UNCHANGED <<choice, phase, retryIn, failures, cutShort, handed, upgraded, carrier,
                   parked, from, through, source, declined, delivering, told,
                   requests, changes>>

TryUpgrade ==
    /\ at = "pump" /\ upgrading = "asleep"
    /\ WouldTryH3
    /\ upgrading' = "opening"
    /\ UNCHANGED <<at, choice, phase, retryIn, failures, cutShort, handed, upgraded,
                   carrier, parked, answering, from, worldVars>>

\* A failed try that does not park, so the next is made at once.
UpgradeFailsUnparked ==
    /\ at = "pump" /\ upgrading = "opening"
    /\ "h3" \notin through \/ declined
    /\ upgrading' = "asleep"
    /\ UNCHANGED <<at, choice, phase, retryIn, failures, cutShort, handed, upgraded,
                   carrier, parked, answering, from, worldVars>>

\* A failed try that ends the fifth future.
UpgradeFailsForGood ==
    /\ at = "pump" /\ upgrading = "opening"
    /\ "h3" \notin through \/ declined
    /\ parked' = TRUE
    /\ upgrading' = "off"
    /\ UNCHANGED <<at, choice, phase, retryIn, failures, cutShort, handed, upgraded,
                   carrier, answering, from, worldVars>>

UpgradeFails ==
    /\ at = "pump" /\ upgrading = "opening"
    /\ "h3" \notin through \/ declined
    /\ parked' = TRUE
    /\ upgrading' = "asleep"
    /\ UNCHANGED <<at, choice, phase, retryIn, failures, cutShort, handed, upgraded,
                   carrier, answering, from, worldVars>>

\* The handover judged and waited out like any other end of a tunnel.
UpgradeOpensAsLoss ==
    /\ at = "pump" /\ upgrading = "opening"
    /\ "h3" \in through /\ ~declined
    /\ handed' = TRUE
    /\ carrier' = "h3"
    /\ tunnel' = "carries"
    /\ at' = "judge"
    /\ answering' = "asleep" /\ upgrading' = "off"
    /\ UNCHANGED <<choice, phase, retryIn, failures, cutShort, upgraded, parked,
                   from, through, source, declined,
                   delivering, told, stopped, requests, changes>>

\* HTTP/3 opened beside: the pump ends and the new tunnel is handed over.
UpgradeOpens ==
    /\ at = "pump" /\ upgrading = "opening"
    /\ "h3" \in through /\ ~declined
    /\ handed' = TRUE
    /\ carrier' = "h3"
    /\ tunnel' = "carries"
    /\ at' = "top"
    /\ answering' = "asleep" /\ upgrading' = "off"
    /\ UNCHANGED <<choice, phase, retryIn, failures, cutShort, upgraded, parked,
                   from, through, source, declined,
                   delivering, told, stopped, requests, changes>>

\* The run of short lives as it is after this one, counted as far as it matters.
RunWith(short) ==
    IF ~short THEN 0 ELSE IF cutShort < CutShortRun THEN cutShort + 1 ELSE cutShort

\* What the tunnel's life says of the line, and then the wait.
Judge(short) ==
    /\ at = "judge"
    /\ cutShort' = RunWith(short)
    /\ parked' = \/ parked
                 \/ /\ short
                    /\ RunWith(short) >= CutShortRun \/ upgraded
                    /\ carrier = "h3"
    /\ Lose
    /\ UNCHANGED <<choice, handed, upgraded, carrier, answering, upgrading, from,
                    through, source, tunnel, declined, delivering, stopped,
                   requests, changes>>

\* The wait ends: by itself, ...
WaitEnds ==
    /\ at = "lost"
    /\ at' = "top"
    /\ UNCHANGED <<choice, phase, retryIn, failures, cutShort, handed, upgraded, carrier,
                   parked, answering, upgrading, from, worldVars>>

\* ... with a reconnect asked for, ...
ReconnectEndsWait ==
    /\ at = "lost" /\ told.reconnect
    /\ parked' = FALSE
    /\ at' = "top"
    /\ UNCHANGED <<choice, phase, retryIn, failures, cutShort, handed, upgraded, carrier,
                   answering, upgrading, from, worldVars>>

\* ... or with a line change.
LineEndsWait ==
    /\ at = "lost" /\ told.line
    /\ LookAgain
    /\ at' = "top"
    /\ UNCHANGED <<choice, phase, retryIn, failures, cutShort, handed, upgraded, carrier,
                   answering, upgrading,  worldVars>>

\* PARK_FOR has passed.
ParkingEnds ==
    /\ parked
    /\ parked' = FALSE
    /\ UNCHANGED <<at, choice, phase, retryIn, failures, cutShort, handed, upgraded,
                   carrier, answering, upgrading, from, worldVars>>

\* main.rs drops the engine, and the tunnel with it.
Drop ==
    /\ stopped /\ at # "gone"
    /\ at' = "gone"
    /\ tunnel' = "none"
    /\ UNCHANGED <<choice, phase, retryIn, failures, cutShort, handed, upgraded, carrier,
                   parked, answering, upgrading, from, through, source,
                   declined, delivering, told, stopped, requests, changes>>

-----------------------------------------------------------------------------
(* What happens around the engine.                                         *)

HearsReconnect == at \in {"pump", "lost"}
HearsLine == at = "lost" \/ (at = "pump" /\ answering = "asleep")

\* core.rs, reconnect(): those waiting are told, nobody else will be.
Reconnect ==
    /\ at # "gone" /\ requests < MostRequests
    /\ requests' = requests + 1
    /\ told' = [told EXCEPT !.reconnect = @ \/ HearsReconnect]
    /\ UNCHANGED <<engineVars, through, source, tunnel, declined, delivering, stopped,
                   changes>>

\* What becomes of the tunnel when the line changes: it goes on, hangs or breaks.  One
\* that hangs may carry again, one that broke does not.
Suffers(lets) ==
    \/ /\ tunnel \in {"none", "broken"}
       /\ UNCHANGED tunnel
    \/ /\ tunnel \in {"carries", "hung"}
       /\ tunnel' \in {"hung", "broken"} \cup (IF carrier \in lets THEN {"carries"} ELSE {})

\* Windows reports an interface although nothing moved, as often as it likes.
Report ==
    /\ at # "gone"
    /\ told' = [told EXCEPT !.line = @ \/ HearsLine]
    /\ UNCHANGED <<engineVars, through, source, tunnel, declined, delivering, stopped,
                   requests, changes>>

\* The line changes and Windows reports it: the path has moved, or lets other carriers
\* through.
LineChange(there, lets) ==
    /\ at # "gone" /\ changes < MostChanges
    /\ changes' = changes + 1
    /\ source' = there
    /\ through' = lets
    /\ Suffers(lets)
    /\ told' = [told EXCEPT !.line = @ \/ HearsLine]
    /\ UNCHANGED <<engineVars, declined, delivering, stopped, requests>>

\* The line starts or stops dropping a carrier, or cuts a tunnel: no report.
Filter(lets) ==
    /\ at # "gone" /\ changes < MostChanges
    /\ changes' = changes + 1
    /\ through' = lets
    /\ Suffers(lets)
    /\ UNCHANGED <<engineVars, source, declined, delivering, told, stopped, requests>>

\* QUIC gives up a connection it has heard nothing on for IDLE_TIMEOUT.
IdleEnds ==
    /\ tunnel = "hung" /\ carrier = "h3"
    /\ tunnel' = "broken"
    /\ UNCHANGED <<engineVars, through, source, declined, delivering, told, stopped,
                   requests, changes>>

ReaderLeaves ==
    /\ at # "gone" /\ delivering
    /\ delivering' = FALSE
    /\ UNCHANGED <<engineVars, through, source, tunnel, declined, told, stopped,
                   requests, changes>>

AskToStop ==
    /\ ~stopped
    /\ stopped' = TRUE
    /\ UNCHANGED <<engineVars, through, source, tunnel, declined, delivering, told,
                   requests, changes>>

-----------------------------------------------------------------------------
Loop ==
    \/ Top
    \/ \E c \in Carriers : Opens(c)
    \/ H3Fails \/ H2Fails \/ H2Refuses
    \/ Probe
    \/ \E short \in BOOLEAN : Judge(short)
    \/ WaitEnds

Wake == LineWakes \/ ReconnectWakes \/ ReconnectEndsWait \/ LineEndsWait

Check == Answered \/ Unanswered

Upgrade == TryUpgrade \/ UpgradeFails \/ UpgradeOpens

Around ==
    \/ Reconnect \/ Report
    \/ \E there \in Sources, lets \in SUBSET Carriers : LineChange(there, lets)
    \/ \E lets \in SUBSET Carriers : Filter(lets)
    \/ IdleEnds \/ ReaderLeaves \/ AskToStop

\* The process is on its way out.
Over == at = "gone" /\ UNCHANGED vars

Next ==
    \/ Loop \/ Wake \/ IntervalEnds \/ Settled \/ Check \/ Fails
    \/ AdapterEnds \/ Upgrade
    \/ ParkingEnds \/ Drop
    \/ Around
    \/ Over

\* Timers go off, attempts and questions end within their bounds, and tokio polls a
\* future that has been woken.  Each timer is fair only while it is set: a wait that
\* is begun anew begins its interval anew.  Nothing is assumed of the line, of QUIC's
\* own timeout, nor of those who ask or report.
Fairness ==
    /\ WF_vars(Loop) /\ WF_vars(Wake)
    /\ WF_vars(IntervalEnds) /\ WF_vars(Settled) /\ WF_vars(Check)
    /\ WF_vars(Fails) /\ WF_vars(AdapterEnds)
    /\ WF_vars(Upgrade) /\ WF_vars(ParkingEnds)
    /\ WF_vars(Drop)

Spec == Init /\ [][Next]_vars

FairSpec == Spec /\ Fairness

-----------------------------------------------------------------------------
\* Every variable holds what the code could hold there: in particular the pump
\* looks for HTTP/3 (upgrading) exactly while it carries over HTTP/2.
EngineTypeOK ==
    /\ at \in {"top", "h3", "h2", "probe", "pump", "judge", "lost", "gone"}
    /\ choice \in {"auto", "h3", "h2"}
    /\ phase \in {"connecting", "up", "lost"}
    /\ retryIn \in Nat
    /\ failures \in 0..MostFailures
    /\ cutShort \in 0..CutShortRun
    /\ handed \in BOOLEAN /\ upgraded \in BOOLEAN
    /\ carrier \in Carriers
    /\ parked \in BOOLEAN
    /\ answering \in {"asleep", "settling", "asking"}
    /\ upgrading \in {"off", "asleep", "opening"}
    /\ at = "pump" => (upgrading = "off" <=> carrier = "h3")
    /\ source \in Sources /\ from \in Sources
    /\ through \in SUBSET Carriers
    /\ tunnel \in {"none", "carries", "hung", "broken"}
    /\ declined \in BOOLEAN /\ delivering \in BOOLEAN
    /\ told \in [reconnect : BOOLEAN, line : BOOLEAN]
    /\ stopped \in BOOLEAN
    /\ requests \in 0..MostRequests /\ changes \in 0..MostChanges

=============================================================================
