------------------------------- MODULE MCEngine -----------------------------
(***************************************************************************)
(* The engine with a record of why HTTP/3 may be tried.                    *)
(***************************************************************************)
EXTENDS Engine, TLC

MCBackOff == <<1, 2>>

VARIABLE reason     \* something has spoken for HTTP/3 since it last failed or was cut

HistInit == Init /\ reason = TRUE

H3Failed == H3Fails \/ UpgradeFails

Spoken == ParkingEnds \/ ReconnectWakes \/ ReconnectEndsWait \/ from' # from

HistNext ==
    /\ Next
    /\ reason' = IF H3Failed \/ (at = "judge" /\ ~parked /\ parked') THEN FALSE
                 ELSE reason \/ Spoken

HistSpec == HistInit /\ [][HistNext]_<<vars, reason>> /\ Fairness

-----------------------------------------------------------------------------
\* tunnel.md:141-144 and carrier.rs:10-13, "a link that drops QUIC thus costs
\* its timeout once, not on every reconnect": after HTTP/3 failed, or was found
\* to be cut, it is not tried again before the line moved, a reconnect was asked
\* for or PARK_FOR passed.
HTTP3PaysOnce ==
    [][(at = "top" /\ at' = "h3" /\ choice = "auto")
          \/ (upgrading = "asleep" /\ upgrading' = "opening") => reason]_<<vars, reason>>

\* engine.rs:126-132 and tunnel.md:167-169: from the moment HTTP/3 opens beside
\* HTTP/2 until it dies, nobody is told of a tunnel lost or being opened.
HandoverIsSilent == handed \/ (upgraded /\ at \in {"probe", "pump"}) => phase = "up"

\* engine.rs:211-214 and 332-378: a tunnel that neither closes nor carries is found
\* out by the question alone, put on the interval or once a report has settled.
\* Whatever Windows reports meanwhile, and however often, the question is put and its
\* timeout ends the tunnel, unless it carries again or ended otherwise.
DeadTunnelNoticed == tunnel = "hung" ~> tunnel # "hung"

Steady == delivering /\ ~stopped /\ ~declined

\* A line that lets HTTP/2 through from some time on, or both, ends up carried
\* over, whatever failed before.
CarriesWhereItCan ==
    choice # "h3" /\ <>[]("h2" \in through /\ Steady) => <>[](at = "pump" /\ tunnel = "carries")

\* tunnel.md:165-171: once the line carries HTTP/3 again the run is back on it,
\* even if nothing moves and no tunnel is lost.
ReturnsToH3 ==
    choice = "auto" /\ <>[](through = Carriers /\ Steady) => <>[](carrier = "h3")

=============================================================================
