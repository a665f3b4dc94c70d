--------------------------------- MODULE H3 ---------------------------------
(***************************************************************************)
(* A tunnel over HTTP/3 (src/transport/quic.rs): opening it, the tasks     *)
(* that read what the endpoint says, and the three halves that carry it.   *)
(*                                                                         *)
(* The connection is QUIC's and is modelled by what it tells this side:    *)
(* bytes of a stream in any pieces, datagrams, an end.  An endpoint may    *)
(* always say less than its part in Endpoints.                             *)
(***************************************************************************)
EXTENDS H3Frames, ConnectIp

CONSTANTS
    first, second,    \* the streams the endpoint opens
    Endpoints,        \* what an endpoint can say: [script: stream -> its bytes with the
                      \* type in front, pieces: bound, in how many a stream arrives,
                      \* answer: the frames of its response]
    StreamId,         \* the request's
    Inbound,          \* datagrams the endpoint may send
    Outbound,         \* packets there are to send
    MaxDatagrams      \* bound: datagrams that arrive

Streams == {first, second}

ASSUME H3Assumption ==
    /\ first # second
    /\ \A endpoint \in Endpoints : DOMAIN endpoint.script = Streams
    /\ StreamId \in Nat
    /\ MaxDatagrams \in Nat

VARIABLES
    connection,  \* [is, why]: whether it is open, and the code it was closed with
    room,        \* max_datagram_size, once it is asked for: "none", "small", or "enough"
    holders,     \* who holds the Link: the future that connects, then the halves
    connect,     \* where connect_at is, the answer left to read, what came of it
    offered,     \* the oneshot of PeerSettings, and the offer in it
    ended,       \* the watch of Option<Ended>
    peer,        \* stream -> its task, reader and what is still to arrive on it
    seen,        \* Peer.control_seen
    receiver,    \* which branch of its select the receiver looks at
    asked,       \* Health::probe: not asked, asked, or answered since
    arrived,     \* datagrams waiting to be read
    coming,      \* how many more there can be
    got          \* the half that came to an end, and to which

vars == <<connection, room, holders, connect, offered, ended, peer, seen, receiver, asked,
          arrived, coming, got>>

tunnelVars == <<receiver, asked, arrived, coming, got>>

\* Why a connection is closed: a code this side gave, or none of its doing.
NotClosed == 0
ByQuic == 1

Broke(error) == ConnectError("H3", error)

GoingAway == Plain("GoingAway")

\* No half came to an end: packets go out and come back, probes are answered.
Nothing == Plain("nothing")

NothingCame == [half |-> "none", came |-> Nothing]

Connecting == {"control", "settings", "request", "response", "telling", "room"}

Exchanging == {"control", "settings", "request", "response"}

H3Init ==
    /\ connection = [is |-> "none", why |-> NotClosed]
    /\ room = "unasked"
    /\ holders = {}
    /\ offered = [is |-> "waiting", offer |-> NoOffer]
    /\ ended = NoError
    /\ \E endpoint \in Endpoints :
            /\ connect = [at |-> "handshake", answer |-> endpoint.answer, came |-> NoError]
            /\ peer = [s \in Streams |->
                        [at |-> "unopened", reader |-> EmptyReader, settled |-> FALSE,
                         error |-> "none", left |-> endpoint.script[s], pieces |-> endpoint.pieces]]
    /\ seen = FALSE
    /\ receiver = "datagram"
    /\ asked = "no"
    /\ arrived = <<>> /\ coming = MaxDatagrams
    /\ got = NothingCame

Open == connection.is = "open"

\* The first reason given stands.
Closes(why) ==
    connection' = IF Open THEN [is |-> "closed", why |-> why] ELSE connection

\* Closed with the tunnel only, as if the Link were made with the Session.
ReleasesTunnel(who) ==
    /\ holders' = holders \ who
    /\ IF holders' = {} /\ who \subseteq Halves THEN Closes(NO_ERROR)
       ELSE UNCHANGED connection

\* Link::drop, when the last of them lets go of it.
Releases(who) ==
    /\ holders' = holders \ who
    /\ IF holders' = {} THEN Closes(NO_ERROR) ELSE UNCHANGED connection

-----------------------------------------------------------------------------
(* connect_at                                                              *)

Stops(came) == connect' = [connect EXCEPT !.at = "failed", !.came = came]

\* The address, the TLS setup, the socket, or no answer within HANDSHAKE_WAIT.
NoHandshake ==
    /\ connect.at = "handshake"
    /\ \E kind \in {"BadEndpoint", "TlsSetup", "Io", "QuicUnavailable"} : Stops(Plain(kind))
    /\ UNCHANGED <<connection, room, holders, offered, ended, peer, seen, tunnelVars>>

\* From here the Link closes the connection on every way out.
Handshake ==
    /\ connect.at = "handshake"
    /\ connection' = [is |-> "open", why |-> NotClosed]
    /\ holders' = {"connecting"}
    /\ connect' = [connect EXCEPT !.at = "control"]
    /\ UNCHANGED <<room, offered, ended, peer, seen, tunnelVars>>

Steps(from, to) ==
    /\ connect.at = from /\ Open
    /\ connect' = [connect EXCEPT !.at = to]
    /\ UNCHANGED <<connection, room, holders, offered, ended, peer, seen, tunnelVars>>

OpenControl == Steps("control", "settings")

OpenRequest == Steps("request", "response")

\* An error of the exchange: one of HTTP/3's closes the connection with its code,
\* and then what the endpoint's streams recorded is looked up.
Fails(problem) ==
    /\ connect' = [connect EXCEPT !.at = "telling", !.came = problem]
    /\ IF problem.kind = "H3" THEN Closes(Code[problem.about]) ELSE UNCHANGED connection
    /\ UNCHANGED <<room, holders, ended, peer, seen, tunnelVars>>

TakeSettings ==
    /\ connect.at = "settings"
    /\ offered.is = "here"
    /\ offered' = [offered EXCEPT !.is = "taken"]
    /\ IF offered.offer.h3_datagram /\ offered.offer.extended_connect
       THEN /\ connect' = [connect EXCEPT !.at = "request"]
            /\ UNCHANGED <<connection, room, holders, ended, peer, seen, tunnelVars>>
       ELSE Fails(Plain("H3Unfit"))

\* Peer, and the oneshot's sender in it, goes when the connection is closed and
\* every task has come to its end.
PeerGone ==
    connection.is = "closed" /\ \A s \in Streams : peer[s].at \in {"unopened", "done"}

SettingsLost ==
    /\ connect.at = "settings" /\ offered.is = "waiting"
    /\ PeerGone
    /\ Fails(Plain("Quic"))
    /\ UNCHANGED offered

\* open_uni, open_bi or a write on a connection that has gone.
ExchangeLost ==
    /\ connect.at \in {"control", "request"} /\ ~ Open
    /\ Fails(Plain("Quic"))
    /\ UNCHANGED offered

\* read_response: interim responses are passed over.
ReadResponse ==
    /\ connect.at = "response" /\ connect.answer # <<>>
    /\ LET status == ResponseStatus(Head(connect.answer))
       IN  \/ /\ status = "interim"
              /\ connect' = [connect EXCEPT !.answer = Tail(@)]
              /\ UNCHANGED <<connection, room, holders, ended, peer, seen, tunnelVars>>
           \/ /\ status = "success"
              /\ connect' = [connect EXCEPT !.at = "room", !.answer = <<>>]
              /\ room' \in {"none", "small", "enough"}
              /\ UNCHANGED <<connection, holders, ended, peer, seen, tunnelVars>>
           \/ /\ status = "refusal"
              /\ Stops(Plain("H3Refused"))
              /\ Releases({"connecting"})
              /\ UNCHANGED <<room, ended, peer, seen, tunnelVars>>
           \/ /\ status \in H3Errors
              /\ Fails(Broke(status))
    /\ UNCHANGED offered

\* It ended before a response, or the connection went.
ResponseEnds ==
    /\ connect.at = "response" /\ (connect.answer = <<>> \/ ~ Open)
    /\ Fails(IF Open THEN Broke("Message") ELSE Plain("QuicRead"))
    /\ UNCHANGED offered

Tell ==
    /\ connect.at = "telling"
    /\ Stops(IF ended = NoError THEN connect.came ELSE ended)
    /\ Releases({"connecting"})
    /\ UNCHANGED <<room, offered, ended, peer, seen, tunnelVars>>

\* The timeout covers the request only: settings are waited for without one.
UnansweredRequest ==
    /\ connect.at \in {"request", "response"}
    /\ Stops(Plain("H3Unanswered"))
    /\ Releases({"connecting"})
    /\ UNCHANGED <<room, offered, ended, peer, seen, tunnelVars>>

\* EXCHANGE_WAIT has passed.
Unanswered ==
    /\ connect.at \in Exchanging
    /\ Stops(Plain("H3Unanswered"))
    /\ Releases({"connecting"})
    /\ UNCHANGED <<room, offered, ended, peer, seen, tunnelVars>>

\* wait_for_room, which asks the connection and nobody else.
RoomEnough ==
    /\ connect.at = "room" /\ room = "enough"
    /\ connect' = [connect EXCEPT !.at = "open"]
    /\ holders' = Halves
    /\ UNCHANGED <<connection, room, offered, ended, peer, seen, tunnelVars>>

RoomLacking ==
    /\ connect.at = "room"
    /\ \/ room = "none" /\ Stops(Plain("H3Unfit"))
       \/ room = "small" /\ ~ Open /\ Stops(ConnectError("Quic", "room"))
       \/ room = "small" /\ Stops(Plain("H3Unfit"))        \* PATH_WAIT has passed
    /\ Releases({"connecting"})
    /\ UNCHANGED <<room, offered, ended, peer, seen, tunnelVars>>

\* The engine drops the future it is waiting for: a stop, a reconnect, a new line.
Abandon ==
    /\ connect.at \in Connecting
    /\ Stops(Plain("abandoned"))
    /\ Releases({"connecting"})
    /\ UNCHANGED <<room, offered, ended, peer, seen, tunnelVars>>

-----------------------------------------------------------------------------
(* accept_streams, serve_stream and serve_control                          *)

OfPeer == <<connection, room, holders, connect, offered, ended, seen, receiver, arrived, coming, got>>

\* Word from the endpoint, whatever it is, answers a probe.
Heard == asked' = IF asked = "asked" THEN "answered" ELSE asked

Accept(s) ==
    /\ Open /\ peer[s].at = "unopened" /\ peer[s].left # <<>>
    /\ peer' = [peer EXCEPT ![s].at = "type"]
    /\ Heard
    /\ UNCHANGED OfPeer

Waits(s) == peer[s].at \in {"type", "frames", "drain"}

\* read_chunk: the last of the pieces is the rest.
Chunk(s, n) ==
    /\ Open /\ Waits(s) /\ peer[s].left # <<>>
    /\ n = Len(peer[s].left) \/ peer[s].pieces > 1
    /\ peer' = [peer EXCEPT ![s].left = Advance(@, n), ![s].pieces = @ - 1,
                            ![s].reader = IF peer[s].at = "drain" THEN @
                                          ELSE Extend(@, SubSeq(peer[s].left, 1, n)),
                            ![s].at = CASE @ = "type"   -> "opening"
                                        [] @ = "frames" -> "look"
                                        [] OTHER        -> @]
    /\ Heard
    /\ UNCHANGED OfPeer

\* The stream opens with its type.
Opening(s) ==
    LET kind   == Get(peer[s].reader.pending)
        broken == kind.value = CONTROL /\ seen
    IN  /\ peer[s].at = "opening"
        /\ peer' = [peer EXCEPT
                ![s].reader.pending = Advance(@, kind.used),
                ![s].error = IF kind.used # 0 /\ broken THEN "SecondControl" ELSE @,
                ![s].at = IF kind.used = 0 THEN "type"
                          ELSE IF broken THEN "failing"
                          ELSE IF kind.value = CONTROL THEN "look"
                          ELSE IF kind.value \in {QPACK_ENCODER, QPACK_DECODER} THEN "drain"
                          ELSE "done"]
        /\ seen' = (seen \/ (kind.used # 0 /\ kind.value = CONTROL))
        /\ UNCHANGED <<connection, room, holders, connect, offered, ended, tunnelVars>>

\* The goodbye put over whatever was recorded before it.
SaysGoodbyeLast(event) == IF event.what = "goaway" THEN GoingAway ELSE ended

\* A rule broken earlier says more than the goodbye.
SaysGoodbye(event) ==
    IF event.what = "goaway" /\ ended = NoError THEN GoingAway ELSE ended

\* next_frame, and on_frame of what it gives.
Look(s) ==
    LET pass  == Pass(peer[s].reader)
        event == IF pass.says = "frame" THEN OnFrame(peer[s].settled, pass.frame)
                 ELSE Event(pass.says, NoOffer)
    IN  /\ peer[s].at = "look"
        /\ peer' = [peer EXCEPT
                ![s].reader = pass.reader,
                ![s].settled = @ \/ event.what = "settings",
                ![s].error = IF event.what \in H3Errors THEN event.what ELSE @,
                ![s].at = CASE event.what \in H3Errors -> "failing"
                            [] event.what = "wait"     -> "frames"
                            [] OTHER                   -> "look"]
        /\ offered' = IF event.what = "settings" /\ offered.is = "waiting"
                      THEN [is |-> "here", offer |-> event.offer] ELSE offered
        /\ ended' = SaysGoodbye(event)
        /\ UNCHANGED <<connection, room, holders, connect, seen, tunnelVars>>

\* The endpoint finishes or resets a stream: an error of the control stream only.
StreamEnds(s) ==
    /\ Open /\ Waits(s)
    /\ peer' = [peer EXCEPT ![s].at = IF @ = "frames" THEN "failing" ELSE "done",
                            ![s].error = IF peer[s].at = "frames" THEN "ControlClosed" ELSE @]
    /\ Heard
    /\ UNCHANGED OfPeer

\* The connection went: reported by the halves, and not from here.
StreamLost(s) ==
    /\ connection.is = "closed" /\ Waits(s)
    /\ peer' = [peer EXCEPT ![s].at = "done"]
    /\ UNCHANGED <<OfPeer, asked>>

\* The connection closed before the reason is recorded.
FailInHaste(s) ==
    \/ /\ peer[s].at = "failing"
       /\ Closes(Code[peer[s].error])
       /\ peer' = [peer EXCEPT ![s].at = "closing"]
       /\ UNCHANGED <<room, holders, connect, offered, ended, seen, tunnelVars>>
    \/ /\ peer[s].at = "closing"
       /\ ended' = Broke(peer[s].error)
       /\ peer' = [peer EXCEPT ![s].at = "done"]
       /\ UNCHANGED <<connection, room, holders, connect, offered, seen, tunnelVars>>

\* Peer::fail: recorded first, then closed.
Fail(s) ==
    \/ /\ peer[s].at = "failing"
       /\ ended' = Broke(peer[s].error)
       /\ peer' = [peer EXCEPT ![s].at = "closing"]
       /\ UNCHANGED <<connection, room, holders, connect, offered, seen, tunnelVars>>
    \/ /\ peer[s].at = "closing"
       /\ Closes(Code[peer[s].error])
       /\ peer' = [peer EXCEPT ![s].at = "done"]
       /\ UNCHANGED <<room, holders, connect, offered, ended, seen, tunnelVars>>

-----------------------------------------------------------------------------
(* The halves.                                                             *)

\* The pump calls the halves again and again until one comes to an end.
Driven == holders = Halves /\ got.came = Nothing

OfHalf == <<connection, room, holders, connect, offered, ended, peer, seen>>

Comes(h, to) == got' = [half |-> h, came |-> to]

\* gone: what the streams recorded, and QUIC's own account otherwise.
Gone == IF ended = NoError THEN Plain("Quic") ELSE ended

\* Sender::send, of one packet of the run.
Send(packet) ==
    /\ Driven
    /\ MayLeave(packet) /\ (~ Open \/ room # "enough")
    /\ Comes("sender", IF Open THEN Plain("H3Unfit") ELSE Gone)
    /\ UNCHANGED <<OfHalf, receiver, asked, arrived, coming>>

\* Receiver::recv looks at its three branches in this order, and again when woken.
ReadDatagram ==
    /\ Driven /\ receiver = "datagram"
    /\ \/ /\ arrived # <<>>
          /\ arrived' = Tail(arrived)
          /\ UNCHANGED <<receiver, got>>
       \/ /\ arrived = <<>> /\ ~ Open
          /\ Comes("receiver", Gone)
          /\ UNCHANGED <<receiver, arrived>>
       \/ /\ arrived = <<>> /\ Open
          /\ receiver' = "response"
          /\ UNCHANGED <<got, arrived>>
    /\ UNCHANGED <<OfHalf, asked, coming>>

ReadAnswer ==
    /\ Driven /\ receiver = "response"
    /\ \/ /\ ~ Open
          /\ Comes("receiver", Plain("QuicRead"))
          /\ UNCHANGED receiver
       \/ /\ Open                             \* the endpoint ended the request stream
          /\ Comes("receiver", Plain("end"))
          /\ UNCHANGED receiver
       \/ /\ Open
          /\ receiver' = "watch"
          /\ UNCHANGED got
    /\ UNCHANGED <<OfHalf, asked, arrived, coming>>

\* A goodbye left to the end of the connection it announces.
ReadWatchBroken ==
    /\ Driven /\ receiver = "watch"
    /\ IF ended.kind = "H3" THEN Comes("receiver", ended) ELSE UNCHANGED got
    /\ receiver' = "datagram"
    /\ UNCHANGED <<OfHalf, asked, arrived, coming>>

\* Nothing has marked the watch as seen before: what was recorded while the
\* tunnel opened is a change too.
ReadWatch ==
    /\ Driven /\ receiver = "watch"
    /\ IF ended # NoError THEN Comes("receiver", ended) ELSE UNCHANGED got
    /\ receiver' = "datagram"
    /\ UNCHANGED <<OfHalf, asked, arrived, coming>>

\* Health::probe
Probe ==
    /\ Driven /\ asked = "no"
    /\ asked' = "asked"
    /\ UNCHANGED <<OfHalf, receiver, arrived, coming, got>>

ProbeAnswer ==
    /\ Driven
    /\ \/ /\ asked # "no" /\ ~ Open
          /\ Comes("health", Gone)
       \/ /\ asked = "answered" /\ Open
          /\ UNCHANGED got
    /\ asked' = "no"
    /\ UNCHANGED <<OfHalf, receiver, arrived, coming>>

\* The pump ends or moves to another tunnel, and the halves go with it.
DropTunnel ==
    /\ holders = Halves
    /\ Releases(Halves)
    /\ receiver' = "datagram" /\ asked' = "no"
    /\ arrived' = <<>> /\ coming' = 0
    /\ got' = NothingCame
    /\ UNCHANGED <<room, connect, offered, ended, peer, seen>>

-----------------------------------------------------------------------------
(* QUIC and the endpoint.                                                  *)

Arrives(datagram) ==
    /\ Open /\ Driven /\ coming > 0
    /\ arrived' = Append(arrived, datagram)
    /\ coming' = coming - 1
    /\ Heard
    /\ UNCHANGED <<OfHalf, receiver, got>>

\* Path MTU discovery makes room, or the path's MTU falls.
RoomChanges ==
    /\ Open
    /\ \/ room = "small" /\ connect.at = "room" /\ room' = "enough"
       \/ room = "enough" /\ connect.at = "open" /\ room' = "small"
    /\ UNCHANGED <<connection, holders, connect, offered, ended, peer, seen, tunnelVars>>

\* The endpoint closes the connection, or nothing is heard for IDLE_TIMEOUT.
Lost ==
    /\ Open
    /\ Closes(ByQuic)
    /\ UNCHANGED <<room, holders, connect, offered, ended, peer, seen, tunnelVars>>

-----------------------------------------------------------------------------
ConnectNext ==
    \/ NoHandshake \/ Handshake \/ OpenControl \/ TakeSettings \/ SettingsLost
    \/ ExchangeLost \/ OpenRequest \/ ReadResponse \/ ResponseEnds \/ Tell \/ Unanswered
    \/ RoomEnough \/ RoomLacking

PeerNext(s) == Accept(s) \/ Opening(s) \/ Look(s) \/ StreamLost(s) \/ Fail(s)

HalvesNext ==
    \/ \E packet \in Outbound : Send(packet)
    \/ ReadDatagram \/ ReadAnswer \/ ReadWatch \/ Probe \/ ProbeAnswer

EndpointNext ==
    \/ \E s \in Streams : StreamEnds(s) \/ \E n \in 1 .. Len(peer[s].left) : Chunk(s, n)
    \/ \E datagram \in Inbound : Arrives(datagram)
    \/ RoomChanges \/ Lost

H3Next ==
    \/ ConnectNext
    \/ \E s \in Streams : PeerNext(s)
    \/ HalvesNext
    \/ EndpointNext
    \/ Abandon
    \/ DropTunnel

\* The waits of connect_at run out, and a tunnel that is kept is read.  Nothing is
\* asked of the endpoint.
H3Fairness ==
    /\ WF_vars(ConnectNext)
    /\ WF_vars(ReadDatagram \/ ReadAnswer \/ ReadWatch)

H3Spec == H3Init /\ [][H3Next]_vars /\ H3Fairness

-----------------------------------------------------------------------------
(* Properties.                                                             *)

RuleCodes == {Code[error] : error \in H3Errors}

\* Whoever finds the connection closed for a rule the endpoint broke says which,
\* and neither QUIC's account of a connection this side closed nor the goodbye
\* that came before: the reason is recorded before the close, and a goodbye read
\* in between does not cover it (Peer::fail and serve_control,
\* src/transport/quic.rs:306 and 377).  The wait for room and the receiver's read
\* of the response ask the connection alone, and are not held to this.
RuleBrokenIsTold ==
    connection.why \in RuleCodes =>
        /\ got.half \in {"sender", "health"} => got.came \notin {Plain("Quic"), GoingAway}
        /\ connect.at = "failed" => connect.came \notin {Plain("Quic"), Plain("QuicRead")}

\* No connection outlives the tunnel, or the attempt at one, whichever way either
\* ended: the tasks that read the endpoint's streams hold handles too, and close
\* nothing (Link, src/transport/quic.rs:96).
NothingOutlives ==
    connect.at = "failed" \/ (connect.at = "open" /\ holders = {}) => ~ Open

\* An attempt ends, in a tunnel or with an error, whatever the endpoint leaves
\* unsaid (the waits of connect_at, src/transport/quic.rs:478 and 543).
ConnectReturns == <>(connect.at \in {"open", "failed"})

\* A tunnel that is read comes to its end once the endpoint said goodbye or broke
\* a rule, and also when that was said before the tunnel was open (Receiver::recv,
\* src/transport/quic.rs:252).
GoodbyeEndsIt ==
    (ended # NoError /\ connect.at = "open")
        ~> (got.came # Nothing \/ holders = {})
=============================================================================
