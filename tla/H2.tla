--------------------------------- MODULE H2 ---------------------------------
(***************************************************************************)
(* A tunnel over HTTP/2 (src/transport/tcp.rs, handshake.rs, capsule.rs):  *)
(* the ClientHello in the pieces its strategy calls for, packets out as    *)
(* capsules under flow control, and capsules back out of a stream that     *)
(* arrives in any pieces.                                                  *)
(*                                                                         *)
(* TLS and HTTP/2 are libraries and are modelled by what they tell this    *)
(* side: bytes taken by the socket, room granted, chunks, an end.          *)
(***************************************************************************)
EXTENDS Varint, ConnectIp, Functions

CONSTANTS
    Strategies,   \* the handshakes a run can be started with
    Hellos,       \* ClientHellos, as they are written
    Needle,       \* CONNECT_SNI, as it stands in one
    Packets,      \* the packets there are to send, in order
    MaxRun,       \* how many one call of send takes
    Replies,      \* what the endpoint can have to say: capsules, in order
    Window        \* initial_window_size

DATAGRAM == 0

MAX_CAPSULE == 65535

\* A payload is as long as its capsule declares, or it declares more than is waited for.
WellFramed(capsule) ==
    /\ Fits(capsule.type) /\ Fits(capsule.length)
    /\ Len(capsule.payload) = capsule.length \/ capsule.length > MAX_CAPSULE

ASSUME H2Assumption ==
    /\ Needle \in Seq(Byte) /\ Len(Needle) > 1
    /\ \A written \in Hellos : written \in Seq(Byte)
    /\ Packets \in Seq([version : Nat, header : Nat, length : Nat, hops : Nat, summed : Nat])
    /\ \A said \in Replies : said \in Seq(Framed) /\ \A i \in DOMAIN said : WellFramed(said[i])
    /\ MaxRun \in Nat \ {0} /\ Window \in Nat \ {0}

VARIABLES
    dial,       \* where tcp::connect is, and what the tunnel came to
    strategy,   \* handshake::selected()
    hello,      \* HandshakeStream: its plan, what is left to write, the segments written
    outgoing,   \* packets not handed to send yet
    staging,    \* Sender.staging
    writing,    \* what send waits to write
    capacity,   \* the room granted for it
    wire,       \* what HTTP/2 was given to send
    reply,      \* what the endpoint has still to say
    window,     \* how much of it may be under way
    chunks,     \* arrived, and not read
    pending,    \* Receiver.pending
    taken,      \* the payloads recv has given
    ping        \* whether a ping is in flight

helloVars == <<strategy, hello>>
outVars   == <<outgoing, staging, writing, capacity, wire>>
inVars    == <<reply, window, chunks, pending, taken>>
h2Vars    == <<dial, helloVars, outVars, inVars, ping>>

Splits(s) == s \in {"split", "split-slow"}

H2Init ==
    /\ dial = [at |-> "tcp", came |-> NoError]
    /\ strategy \in Strategies
    /\ \E written \in Hellos :
            hello = [plan |-> IF Splits(strategy) THEN "waiting" ELSE "none",
                     left |-> written, segments |-> <<>>]
    /\ outgoing = Packets /\ staging = <<>> /\ writing = <<>> /\ capacity = 0 /\ wire = <<>>
    /\ (\E said \in Replies : reply = Said(said)) /\ window = Window
    /\ chunks = <<>> /\ pending = <<>> /\ taken = <<>>
    /\ ping = FALSE

-----------------------------------------------------------------------------
(* Capsules (capsule.rs).                                                  *)

Capsule(type, payload) == Put(type) \o Put(Len(payload)) \o payload

\* The header of a capsule of another type taken off, and its payload left.
TakeKnown(bytes) ==
    LET type   == Get(bytes)
        length == Get(Advance(bytes, type.used))
        head   == type.used + length.used
        total  == head + length.value
        Says(what, payload, rest) == [says |-> what, payload |-> payload, rest |-> rest]
    IN  IF type.used = 0 \/ length.used = 0 THEN Says("wait", <<>>, bytes)
        ELSE IF length.value > MAX_CAPSULE THEN Says("TooLong", <<>>, bytes)
        ELSE IF Len(bytes) < total THEN Says("wait", <<>>, bytes)
        ELSE IF type.value # DATAGRAM THEN Says("other", <<>>, Advance(bytes, head))
        ELSE Says("datagram", SubSeq(bytes, head + 1, total), Advance(bytes, total))

\* take_capsule: a whole one is taken off, whatever its type.
TakeCapsule(bytes) ==
    LET type   == Get(bytes)
        length == Get(Advance(bytes, type.used))
        head   == type.used + length.used
        total  == head + length.value
        Says(what, payload, rest) == [says |-> what, payload |-> payload, rest |-> rest]
    IN  IF type.used = 0 \/ length.used = 0 THEN Says("wait", <<>>, bytes)
        ELSE IF length.value > MAX_CAPSULE THEN Says("TooLong", <<>>, bytes)
        ELSE IF Len(bytes) < total THEN Says("wait", <<>>, bytes)
        ELSE Says(IF type.value = DATAGRAM THEN "datagram" ELSE "other",
                  SubSeq(bytes, head + 1, total), Advance(bytes, total))

\* What tells one packet from another on the wire.
OnTheWire(packet) == <<packet.version, packet.hops>>

\* What a packet adds to a write: its capsule, or nothing once its hops are spent.
InCapsule(packet) ==
    IF MayLeave(packet) THEN Capsule(DATAGRAM, OnTheWire(DecrementHopLimit(packet))) ELSE <<>>

\* The capsules of a run.
Encoded(run) == FlattenSeq([i \in DOMAIN run |-> InCapsule(run[i])])

-----------------------------------------------------------------------------
(* tcp::connect                                                            *)

Ends(at, came) == dial' = [at |-> at, came |-> came]

DialFails ==
    /\ \/ dial.at = "tcp" /\ \E kind \in {"TlsSetup", "BadEndpoint", "Io"} : Ends("failed", Plain(kind))
       \/ dial.at \in {"hello", "answer"} /\ \E kind \in {"Io", "HandshakeCut"} : Ends("failed", Plain(kind))
       \/ dial.at = "http2" /\ Ends("failed", Plain("H2"))
       \/ dial.at = "request" /\ \E kind \in {"H2", "Refused"} : Ends("failed", Plain(kind))
    /\ UNCHANGED <<helloVars, outVars, inVars, ping>>

DialOn(from, to) ==
    /\ dial.at = from
    /\ Ends(to, NoError)
    /\ UNCHANGED <<helloVars, outVars, inVars, ping>>

TcpUp == DialOn("tcp", "hello")

\* The endpoint presented the key that registration enrolled.
TlsUp == DialOn("answer", "http2")

Http2Up == DialOn("http2", "request")

Accepted == DialOn("request", "open")

\* handshake.rs: where the first write stops.
PositionOf(needle, buffer) ==
    {i \in 0 .. Len(buffer) - Len(needle) : SubSeq(buffer, i + 1, i + Len(needle)) = needle}

\* The middle of the buffer, whatever is in it.
MiddleOf(buffer) ==
    IF Len(buffer) \div 2 \in 1 .. Len(buffer) - 1 THEN {Len(buffer) \div 2} ELSE {}

CutPoint(buffer) ==
    LET found == PositionOf(Needle, buffer)
        at    == IF found = {} THEN Len(buffer) \div 2
                 ELSE (CHOOSE i \in found : \A j \in found : i <= j) + Len(Needle) \div 2
    IN  IF at > 0 /\ at < Len(buffer) THEN {at} ELSE {}

\* poll_write: the socket takes some of what it is given, all of it or less.
WriteHello(n) ==
    /\ dial.at = "hello" /\ hello.plan # "holding" /\ hello.left # <<>>
    /\ LET cut == IF hello.plan = "waiting" THEN CutPoint(hello.left) ELSE {}
       IN  /\ n <= Len(hello.left) /\ \A at \in cut : n <= at
           /\ hello' = [plan |-> IF hello.plan = "none" THEN "none"
                                 ELSE IF cut # {} /\ strategy = "split-slow" THEN "holding"
                                 ELSE "through",
                        left |-> Advance(hello.left, n),
                        segments |-> Append(hello.segments, SubSeq(hello.left, 1, n))]
    /\ dial' = [dial EXCEPT !.at = IF hello'.left = <<>> THEN "answer" ELSE @]
    /\ UNCHANGED <<strategy, outVars, inVars, ping>>

\* SPLIT_DELAY has passed.
HeldBack ==
    /\ hello.plan = "holding"
    /\ hello' = [hello EXCEPT !.plan = "through"]
    /\ UNCHANGED <<dial, strategy, outVars, inVars, ping>>

-----------------------------------------------------------------------------
(* Sender::send                                                            *)

Up == dial.at = "open"

\* The allocation reused and what was in it too.
KeptStaging(filled) == filled

\* split() hands out what was filled and leaves nothing.
LeftStaging(filled) == <<>>

\* A run goes in as one write, and waits for room.
Stage(n) ==
    /\ Up /\ writing = <<>> /\ outgoing # <<>>
    /\ n <= Len(outgoing)
    /\ LET filled == staging \o Encoded(SubSeq(outgoing, 1, n))
       IN  writing' = filled /\ staging' = LeftStaging(filled)
    /\ outgoing' = Advance(outgoing, n)
    /\ UNCHANGED <<dial, helloVars, capacity, wire, inVars, ping>>

\* HTTP/2 grants room, up to what was reserved.
Grant ==
    /\ Up /\ capacity < Len(writing)
    /\ capacity' \in capacity + 1 .. Len(writing)
    /\ UNCHANGED <<dial, helloVars, outgoing, staging, writing, wire, inVars, ping>>

SendData ==
    /\ Up /\ writing # <<>> /\ capacity >= Len(writing)
    /\ wire' = wire \o writing
    /\ capacity' = capacity - Len(writing) /\ writing' = <<>>
    /\ UNCHANGED <<dial, helloVars, outgoing, staging, inVars, ping>>

\* poll_capacity ends, or fails: the run in hand is lost with the tunnel.
SendFails ==
    /\ Up /\ writing # <<>>
    /\ \E kind \in {"Closed", "H2"} : Ends("ended", Plain(kind))
    /\ UNCHANGED <<helloVars, outVars, inVars, ping>>

-----------------------------------------------------------------------------
(* Receiver::recv and Health::probe                                        *)

\* One turn of recv's loop that finds something in what has arrived.
TakeOne ==
    /\ Up
    /\ LET capsule == TakeCapsule(pending)
       IN  /\ capsule.says # "wait"
           /\ pending' = capsule.rest
           /\ taken' = IF capsule.says = "datagram" THEN Append(taken, capsule.payload) ELSE taken
           /\ IF capsule.says = "TooLong" THEN Ends("ended", Plain("Framing"))
              ELSE UNCHANGED dial
    /\ UNCHANGED <<helloVars, outVars, reply, window, chunks, ping>>

\* The window opened again by what is not waiting for the rest of its capsule.
ReopenedByWhole(chunk) ==
    IF TakeCapsule(pending \o chunk).says = "wait" THEN 0 ELSE Len(chunk)

\* release_capacity, as soon as a chunk is read.
Reopened(chunk) == Len(chunk)

ReadChunk ==
    /\ Up /\ chunks # <<>>
    /\ TakeCapsule(pending).says = "wait"
    /\ window' = window + Reopened(Head(chunks))
    /\ pending' = pending \o Head(chunks)
    /\ chunks' = Tail(chunks)
    /\ UNCHANGED <<dial, helloVars, outVars, reply, taken, ping>>

\* The endpoint ended or reset the stream, or the connection is gone.
ReadEnds ==
    /\ Up /\ chunks = <<>>
    /\ TakeCapsule(pending).says = "wait"
    /\ \E kind \in {"end", "H2"} : Ends("ended", Plain(kind))
    /\ UNCHANGED <<helloVars, outVars, inVars, ping>>

\* One ping at a time: probe asks and waits.
SendPing ==
    /\ Up /\ ~ ping
    /\ ping' = TRUE
    /\ UNCHANGED <<dial, helloVars, outVars, inVars>>

Pong ==
    /\ Up /\ ping
    /\ ping' = FALSE
    /\ UNCHANGED <<dial, helloVars, outVars, inVars>>

\* The endpoint sends what the window lets it.
Feed(n) ==
    /\ Up /\ n <= window
    /\ chunks' = Append(chunks, SubSeq(reply, 1, n))
    /\ reply' = Advance(reply, n)
    /\ window' = window - n
    /\ UNCHANGED <<dial, helloVars, outVars, pending, taken, ping>>

-----------------------------------------------------------------------------
Fed == \E n \in 1 .. Len(reply) : Feed(n)

DialNext ==
    \/ TcpUp \/ TlsUp \/ Http2Up \/ Accepted \/ DialFails
    \/ HeldBack \/ \E n \in 1 .. Len(hello.left) : WriteHello(n)

OutNext == Grant \/ SendData \/ SendFails \/ \E n \in 1 .. MaxRun : Stage(n)

InNext == TakeOne \/ ReadChunk \/ ReadEnds \/ SendPing \/ Pong \/ Fed

H2Next == DialNext \/ OutNext \/ InNext

\* A tunnel that is kept is read, and the endpoint uses the window it is given.
H2Fairness == WF_h2Vars(TakeOne) /\ WF_h2Vars(ReadChunk) /\ WF_h2Vars(Fed)

H2Spec == H2Init /\ [][H2Next]_h2Vars /\ H2Fairness

-----------------------------------------------------------------------------
(* Properties.                                                             *)

\* The first segment of a split ClientHello never holds the whole name, however
\* little of it the socket takes (cut_point, src/transport/handshake.rs:318).
FirstSegmentHidesTheName ==
    Splits(strategy) /\ hello.segments # <<>> => PositionOf(Needle, hello.segments[1]) = {}

\* What was sent, with the run that waits for room, is each packet handed over, in
\* order, once, one hop nearer to its end, and none whose hops are spent: no run is
\* written with part of another (Sender::send, src/transport/tcp.rs:175).
PacketsGoOutOnce ==
    wire \o writing = Encoded(SubSeq(Packets, 1, Len(Packets) - Len(outgoing)))

\* The datagrams among capsules.
Payloads(capsules) ==
    FlattenSeq([i \in DOMAIN capsules |->
        IF capsules[i].type = DATAGRAM THEN <<capsules[i].payload>> ELSE <<>>])

\* The packets recv gives are the payloads the endpoint framed as datagrams, whole and
\* in order, and of nothing else, wherever its bytes were cut; none is lost, and none
\* is of a capsule too long (take_capsule, src/transport/capsule.rs:56).
PayloadsAsWhole ==
    \E said \in Replies : \E k \in 0 .. Len(said) :
        /\ taken = Payloads(SubSeq(said, 1, k))
        /\ \A i \in 1 .. k : said[i].length <= MAX_CAPSULE
        /\ pending \o FlattenSeq(chunks) \o reply = Said(Advance(said, k))
=============================================================================
