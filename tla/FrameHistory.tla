---------------------------- MODULE FrameHistory ----------------------------
(***************************************************************************)
(* A tunnel over HTTP/3 with a record of what its readers have given: the  *)
(* frames of each of the endpoint's streams, and the packets of datagrams, *)
(* over what the endpoint means by their bytes.                            *)
(***************************************************************************)
EXTENDS H3

CONSTANT Meant      \* streams as endpoints mean them: a type, and frames after it

\* A payload is as long as its frame declares, or the frame is one to be read and
\* declares more than is waited for.
WellMeant(frame) ==
    /\ Fits(frame.type) /\ Fits(frame.length)
    /\ \/ Len(frame.payload) = frame.length
       \/ IsKnown(frame.type) /\ frame.length > MAX_FRAME

Spelt(stream) == Put(stream.type) \o Said(stream.frames)

\* A datagram too short to say whose it is, or with its integers in their shortest form.
Addressed(datagram) ==
    LET quarter == Get(datagram)
        context == Get(Advance(datagram, quarter.used))
    IN  \/ quarter.used = 0 \/ context.used = 0
        \/ datagram = Put(quarter.value) \o Put(context.value)
                            \o Advance(datagram, quarter.used + context.used)

ASSUME MeantAssumption ==
    /\ Meant \subseteq [type : Nat, frames : Seq(Framed)]
    /\ \A stream \in Meant :
            Fits(stream.type) /\ \A i \in DOMAIN stream.frames : WellMeant(stream.frames[i])
    /\ \A endpoint \in Endpoints, s \in Streams :
            endpoint.script[s] = <<>> \/ \E stream \in Meant : endpoint.script[s] = Spelt(stream)
    /\ \A datagram \in Inbound : Addressed(datagram)

VARIABLES
    heard,   \* stream -> the frames next_frame has given of it
    given    \* the packets the receiver has given

readVars == <<heard, given>>

FrameInit == heard = [s \in Streams |-> <<>>] /\ given = {}

\* What next_frame gives of a stream in this step, if its task takes one.
GivesFrame(s) ==
    peer[s].at = "look" /\ peer'[s] # peer[s] /\ Pass(peer[s].reader).says = "frame"

Recorded ==
    /\ heard' = [s \in Streams |->
                    IF GivesFrame(s) THEN Append(heard[s], Pass(peer[s].reader).frame)
                    ELSE heard[s]]
    /\ given' = IF ReadDatagram /\ arrived # <<>>
                THEN given \cup DatagramPacket(Head(arrived), StreamId) ELSE given

FrameSpec == H3Init /\ FrameInit /\ [][H3Next /\ Recorded]_<<vars, readVars>>

-----------------------------------------------------------------------------
(* Properties.                                                             *)

\* The frames of a stream that are read.
Known(frames) ==
    FlattenSeq([i \in DOMAIN frames |->
        IF IsKnown(frames[i].type) THEN <<Frame(frames[i].type, frames[i].payload)>> ELSE <<>>])

Unread(s) == peer[s].reader.pending \o peer[s].left

\* What a FrameReader gives of a control stream is what the endpoint framed: known
\* frames, whole, in order, none of them out of the payload of another and none that is
\* too long, wherever the bytes were cut and whatever was skipped; and nothing is lost
\* of what comes after (FrameReader::next_frame, src/transport/http3.rs:154).
FramesAsWhole ==
    \A s \in Streams :
        \/ heard[s] = <<>> /\ peer[s].at \notin {"look", "frames"}
        \/ \E stream \in Meant : \E k \in 0 .. Len(stream.frames) :
            /\ stream.type = CONTROL
            /\ heard[s] = Known(SubSeq(stream.frames, 1, k))
            /\ \A i \in 1 .. k : IsKnown(stream.frames[i].type)
                                    => stream.frames[i].length <= MAX_FRAME
            /\ Advance(Unread(s), peer[s].reader.skipping) = Said(Advance(stream.frames, k))

\* The packets that datagrams give are those sent for this request and its context 0,
\* without what was put before them, and of no other (datagram_packet,
\* src/transport/http3.rs:365).
PacketsOfThisRequest == \A packet \in given : Datagram(StreamId, packet) \in Inbound

\* What the readers of a tunnel give is what the endpoint meant: the frames of its
\* streams, whole, and the packets of its datagrams (src/transport/http3.rs:154, :365).
GivenAsMeant == FramesAsWhole /\ PacketsOfThisRequest
=============================================================================
