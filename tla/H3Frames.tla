------------------------------ MODULE H3Frames ------------------------------
(***************************************************************************)
(* The layout of HTTP/3 (src/transport/http3.rs): frames out of the bytes  *)
(* of a stream, what the control stream and the response may hold, and the *)
(* datagrams packets travel in.                                            *)
(***************************************************************************)
EXTENDS Varint, Functions

DATA == 0
HEADERS == 1
CANCEL_PUSH == 3
SETTINGS == 4
PUSH_PROMISE == 5
GOAWAY == 7
MAX_PUSH_ID == 13

CONTROL == 0
QPACK_ENCODER == 2
QPACK_DECODER == 3

ENABLE_CONNECT_PROTOCOL == 8
H3_DATAGRAM == 51
H3_DATAGRAM_DRAFT00 == 630

MAX_FRAME == 65535

\* Frames HTTP/2 used are known so that they can be refused.
FramesFromHttp2 == {2, 6, 8, 9}

SettingsFromHttp2 == {2, 3, 4, 5}

IsKnown(kind) ==
    kind \in {DATA, HEADERS, CANCEL_PUSH, SETTINGS, PUSH_PROMISE, GOAWAY, MAX_PUSH_ID}
                \cup FramesFromHttp2

\* H3Error, and the code a connection is closed with for each.
H3Errors == {"ControlClosed", "SecondControl", "FrameTooLong", "Unexpected", "Malformed",
             "MissingSettings", "Settings", "Qpack", "Message"}

NO_ERROR == 256

Code ==
    [error \in H3Errors |->
        CASE error = "SecondControl"   -> 259
          [] error = "ControlClosed"   -> 260
          [] error = "Unexpected"      -> 261
          [] error = "Malformed"       -> 262
          [] error = "FrameTooLong"    -> 263
          [] error = "Settings"        -> 265
          [] error = "MissingSettings" -> 266
          [] error = "Message"         -> 270
          [] error = "Qpack"           -> 512]

-----------------------------------------------------------------------------
(* Frames.                                                                 *)

Frame(kind, payload) == [kind |-> kind, payload |-> payload]

NoFrame == Frame(DATA, <<>>)

PutFrame(frame) == Put(frame.kind) \o Put(Len(frame.payload)) \o frame.payload

\* FrameReader: bytes not read yet, and how many more of an unknown frame to discard.
Reader(pending, skipping) == [pending |-> pending, skipping |-> skipping]

EmptyReader == Reader(<<>>, 0)

Extend(reader, chunk) == [reader EXCEPT !.pending = @ \o chunk]

\* The rest of an unknown frame, forgotten when a chunk ends inside it.
DiscardOnce(reader) ==
    LET skip == Min({Len(reader.pending), reader.skipping})
    IN  Reader(Advance(reader.pending, skip), 0)

Discard(reader) ==
    LET skip == Min({Len(reader.pending), reader.skipping})
    IN  Reader(Advance(reader.pending, skip), reader.skipping - skip)

\* One turn of next_frame's loop.  `says` is what it came to: a frame, an error,
\* an unknown frame to skip ("again"), or that more bytes are needed ("wait").
Pass(reader) ==
    LET kept   == Discard(reader)
        kind   == Get(kept.pending)
        length == Get(Advance(kept.pending, kind.used))
        head   == kind.used + length.used
        total  == head + length.value
        Says(what, after, frame) == [says |-> what, reader |-> after, frame |-> frame]
    IN  IF kept.skipping > 0 \/ kind.used = 0 \/ length.used = 0
        THEN Says("wait", kept, NoFrame)
        ELSE IF ~ IsKnown(kind.value)
        THEN Says("again", Reader(Advance(kept.pending, head), length.value), NoFrame)
        ELSE IF length.value > MAX_FRAME
        THEN Says("FrameTooLong", kept, NoFrame)
        ELSE IF Len(kept.pending) < total
        THEN Says("wait", kept, NoFrame)
        ELSE Says("frame", Reader(Advance(kept.pending, total), 0),
                  Frame(kind.value, SubSeq(kept.pending, head + 1, total)))

-----------------------------------------------------------------------------
(* What frames mean where they arrive.                                     *)

\* The settings of a payload in order, up to where it no longer parses.
Settings(payload) ==
    LET from[at \in 1 .. Len(payload) + 1] ==
            LET id    == Get(Advance(payload, at - 1))
                value == Get(Advance(payload, at - 1 + id.used))
                next  == at + id.used + value.used
            IN  IF id.used = 0 \/ value.used = 0 THEN <<>>
                ELSE <<[id |-> id.value, value |-> value.value, next |-> next]>> \o from[next]
    IN  from[1]

Offer(h3Datagram, extendedConnect) ==
    [h3_datagram |-> h3Datagram, extended_connect |-> extendedConnect]

NoOffer == Offer(FALSE, FALSE)

\* An event of the control stream, or an error, or nothing to act on.
Event(what, offer) == [what |-> what, offer |-> offer]

\* PeerSettings::parse.  A setting is judged before the next is parsed.
ParseSettings(payload) ==
    LET settings == Settings(payload)
        ids      == [i \in DOMAIN settings |-> settings[i].id]
        Says(id) == \E s \in Range(settings) : s.id = id /\ s.value = 1
        whole    == \/ payload = <<>>
                    \/ settings # <<>> /\ Last(settings).next = Len(payload) + 1
    IN  IF ~ IsInjective(ids) \/ Range(ids) \cap SettingsFromHttp2 # {}
        THEN Event("Settings", NoOffer)
        ELSE IF ~ whole THEN Event("Malformed", NoOffer)
        ELSE Event("settings", Offer(Says(H3_DATAGRAM), Says(ENABLE_CONNECT_PROTOCOL)))

\* ControlStream::on_frame
OnFrame(settled, frame) ==
    IF ~ settled
    THEN IF frame.kind = SETTINGS THEN ParseSettings(frame.payload)
         ELSE Event("MissingSettings", NoOffer)
    ELSE IF frame.kind = GOAWAY
    THEN LET id == Get(frame.payload)
         IN  Event(IF id.used = 0 \/ id.used # Len(frame.payload) THEN "Malformed"
                   ELSE "goaway", NoOffer)
    ELSE IF frame.kind \in {CANCEL_PUSH, MAX_PUSH_ID} THEN Event("ignored", NoOffer)
    ELSE Event("Unexpected", NoOffer)

\* response_status.  A header block is the statuses in it, or Undecodable: a
\* status is a number, or not one.
Undecodable == <<-1>>

NotANumber == 0

ResponseStatus(frame) ==
    IF frame.kind # HEADERS THEN "Unexpected"
    ELSE IF frame.payload = Undecodable THEN "Qpack"
    ELSE IF Len(frame.payload) # 1 \/ frame.payload[1] = NotANumber THEN "Message"
    ELSE IF frame.payload[1] \in 100 .. 199 THEN "interim"
    ELSE IF frame.payload[1] \in 200 .. 299 THEN "success" ELSE "refusal"

\* datagram and datagram_packet: varint(stream / 4), the context 0, the packet.
\* Of a datagram that is not this tunnel's there is no packet.
Datagram(stream, packet) == Put(stream \div 4) \o <<0>> \o packet

DatagramPacket(datagram, stream) ==
    LET quarter == Get(datagram)
        context == Get(Advance(datagram, quarter.used))
    IN  IF \/ quarter.used = 0 \/ quarter.value # stream \div 4
           \/ context.used = 0 \/ context.value # 0
        THEN {}
        ELSE {Advance(datagram, quarter.used + context.used)}
=============================================================================
