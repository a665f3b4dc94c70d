----------------------------- MODULE MCCarriers -----------------------------
(***************************************************************************)
(* One tunnel over either carrier: HTTP/3, with an endpoint that keeps the *)
(* rules of its streams or breaks each of them, in pieces cut anywhere; or *)
(* HTTP/2, with every strategy for the ClientHello, a window smaller than  *)
(* what is said through it, and capsules in pieces.                        *)
(***************************************************************************)
EXTENDS FrameHistory, H2, TLC

CONSTANT stream1, stream2

\* What is framed is as long as it declares, unless said otherwise.
Whole(type, payload) == [type |-> type, length |-> Len(payload), payload |-> payload]

Script(type, frames) == [type |-> type, frames |-> frames]

Both == Put(ENABLE_CONNECT_PROTOCOL) \o <<1>> \o Put(H3_DATAGRAM) \o <<1>>

Grease == 33   \* an unknown type of two bytes when written so: 64 + 0, 33

Agreed  == Whole(SETTINGS, Both)
Goodbye == Whole(GOAWAY, <<0>>)

\* An unknown frame, its payload a goodbye that must not be read as one.
Unknown == Whole(Grease, PutFrame(Frame(GOAWAY, <<0>>)))

Kept == Script(CONTROL, <<Agreed, Unknown, Goodbye>>)

Broken ==
    {Script(CONTROL, <<Goodbye>>),
     Script(CONTROL, <<Agreed, Whole(MAX_PUSH_ID, <<4>>), Whole(6, <<>>)>>),
     Script(CONTROL, <<Whole(SETTINGS, <<H3_DATAGRAM, 1, H3_DATAGRAM, 0>>)>>),
     Script(CONTROL, <<Whole(SETTINGS, <<64>>)>>),
     Script(CONTROL, <<Whole(SETTINGS, Put(H3_DATAGRAM_DRAFT00) \o <<1>>)>>),
     Script(CONTROL, <<Agreed, Whole(GOAWAY, <<0, 0>>)>>),
     Script(CONTROL, <<Agreed, Goodbye, Agreed>>),
     Script(CONTROL, <<[type |-> DATA, length |-> MAX_FRAME + 1, payload |-> <<>>]>>)}

Beside == {Script(CONTROL, <<>>), Script(QPACK_ENCODER, <<Goodbye>>), Script(1, <<>>)}

MCMeant == {Kept} \cup Broken \cup Beside

\* The stream that is never opened.
Silent == <<>>

Answer(status) == Frame(HEADERS, <<status>>)

Granted == <<Answer(103), Answer(200)>>

Refused ==
    {<<Answer(403)>>, <<Frame(DATA, <<>>)>>, <<Answer(NotANumber)>>,
     <<Frame(HEADERS, Undecodable)>>, <<>>}

\* At most one thing is out of the ordinary, or two when one is a second stream.
Says(one, other, answer) ==
    [script |-> (stream1 :> one) @@ (stream2 :> other),
     pieces |-> IF one = Spelt(Kept) /\ other = Silent /\ answer = Granted THEN 3 ELSE 1,
     answer |-> answer]

MCEndpoints ==
    {Says(Spelt(one), Silent, Granted) : one \in {Kept} \cup Broken}
        \cup {Says(one, Spelt(other), Granted) : one \in {Spelt(Kept), Silent}, other \in Beside}
        \cup {Says(Spelt(Kept), Silent, answer) : answer \in Refused}

MCPacket == <<69>>

\* The request's, another request's, another context, and too short to say.
MCInbound == {Datagram(StreamId, MCPacket), Datagram(StreamId + 4, <<70>>),
              Put(StreamId \div 4) \o <<1>>, <<64>>}

MCOutbound == {IpPacket(4, 24, 40, 64), IpPacket(6, 40, 60, 1)}

-----------------------------------------------------------------------------
(* HTTP/2.                                                                 *)

MCNeedle == <<1, 2, 3>>

\* The name early, so that half the hello holds it; no name; too short to cut.
MCHellos == {<<0>> \o MCNeedle \o <<0, 0, 0, 0>>, <<0, 0, 0>>, <<0>>}

MCPackets ==
    <<IpPacket(4, 24, 40, 64), IpPacket(6, 40, 60, 1), IpPacket(6, 40, 40, 2),
      IpPacket(4, 16, 40, 9), IpPacket(4, 20, 20, 9)>>

\* A datagram, a type this tunnel does not carry, an empty datagram, and another;
\* or one that declares more than there can be.
Spoken ==
    <<Whole(DATAGRAM, <<4, 5>>), Whole(Grease + 64, <<0, 0>>), Whole(DATAGRAM, <<>>),
      Whole(DATAGRAM, <<6>>)>>

Overlong == [type |-> DATAGRAM, length |-> MAX_CAPSULE + 1, payload |-> <<>>]

MCReplies == {Spoken, <<Whole(DATAGRAM, <<7>>), Overlong>>}

-----------------------------------------------------------------------------
VARIABLE side    \* what this tunnel is about, one of Sides

histVars == <<vars, h2Vars, readVars, side>>

\* connect_ip::connect waits for one carrier at a time, and over HTTP/2 the hello is
\* written before anything else, and neither half looks at what the other has: each
\* is looked at by itself, the rest where it starts or written in one way.
Sides == {"http3", "hello", "out", "in"}

Plainly == strategy = "named" /\ hello.left = <<0>>

HistInit ==
    /\ H3Init /\ H2Init /\ FrameInit
    /\ side \in Sides
    /\ side # "http3" => connect.answer = <<>>
    /\ side # "hello" => Plainly
    /\ side # "in" => reply = Said(Spoken)

HistNext ==
    /\ \/ side = "http3" /\ H3Next /\ Recorded /\ UNCHANGED h2Vars
       \/ /\ UNCHANGED <<vars, readVars>>
          /\ \/ side # "http3" /\ DialNext
             \/ side = "out" /\ OutNext
             \/ side = "in" /\ InNext
    /\ side' = side

\* H3Fairness of the side it is about, and H2Fairness.
HistFairness ==
    /\ WF_vars(side = "http3" /\ ConnectNext)
    /\ WF_vars(side = "http3" /\ (ReadDatagram \/ ReadAnswer \/ ReadWatch))
    /\ H2Fairness

HistSpec == HistInit /\ [][HistNext]_histVars /\ HistFairness

\* An attempt over HTTP/3 ends (ConnectReturns, of the carrier it is tried over).
AttemptReturns == side = "http3" => ConnectReturns

\* Everything the endpoint says through a window smaller than it is heard, as long
\* as the tunnel is up: the window is opened again for what is read and not for
\* what is whole (Receiver::recv, src/transport/tcp.rs:218).
EverythingIsHeard ==
    (side = "in" /\ dial.at = "open") ~> (dial.at = "ended" \/ taken = Payloads(Spoken))
=============================================================================
