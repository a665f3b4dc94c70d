-------------------------- MODULE Carriers_proofs ---------------------------
(***************************************************************************)
(* Proofs about a tunnel over either carrier.                              *)
(*                                                                         *)
(* Over HTTP/3, for any endpoint, however it cuts what it says: no         *)
(* connection outlives the tunnel, who finds it closed for a broken rule   *)
(* says which, and frames are read whole, in order, and none of them out   *)
(* of another.  Over HTTP/2, for any ClientHello and any packets, however  *)
(* little the socket takes and however room is granted: the first segment  *)
(* of a split ClientHello does not hold the name, every packet goes out    *)
(* once, in order, and those that come in are taken whole, in order,       *)
(* wherever the stream is cut.                                             *)
(***************************************************************************)
EXTENDS FrameHistory, H2, SequenceTheorems, WellFoundedInduction, TLAPS

-----------------------------------------------------------------------------
(* HTTP/3: who holds the connection, and what is said of its end.          *)

\* The fields there are: the frames in them are the endpoint's.
ShapeOK ==
  /\ DOMAIN connection = {"is", "why"} /\ connection.is \in {"none", "open", "closed"}
  /\ DOMAIN connect = {"at", "answer", "came"}
  /\ connect.at \in Connecting \cup {"handshake", "open", "failed"}
  /\ DOMAIN peer = Streams
  /\ \A s \in Streams : "at" \in DOMAIN peer[s]

\* Who holds the connection, by how far connecting has come, and that it is closed
\* once nobody does.
HoldersOK ==
  /\ connect.at = "handshake" => connection.is = "none"
  /\ connect.at \in Connecting => holders = {"connecting"}
  /\ connect.at \in {"handshake", "failed"} => holders = {}
  /\ connect.at = "open" => holders \in {Halves, {}}
  /\ holders = {} => ~ Open
  /\ connect.at # "open" => got = NothingCame
  /\ connection.is # "closed" => connection.why = NotClosed

\* What the streams recorded is never lost to less, and is there before the close.
RecordOK ==
  /\ ended = NoError \/ ended = GoingAway \/ ended.kind = "H3"
  /\ \A s \in Streams : peer[s].at = "closing" => ended.kind = "H3"
  /\ connection.why \in RuleCodes =>
       \/ ended.kind = "H3"
       \/ connect.at = "telling" /\ connect.came.kind = "H3"
       \/ connect.at = "failed"

\* What was said of a connection before the reason could be known was said once it
\* was closed for another.
SaidOK ==
  /\ connect.at = "telling" /\ connect.came \in {Plain("Quic"), Plain("QuicRead")} => ~ Open
  /\ connect.at = "failed" /\ connect.came \in {Plain("Quic"), Plain("QuicRead")} =>
       connection.why \notin RuleCodes
  /\ got.half \in {"sender", "health"} /\ got.came \in {Plain("Quic"), GoingAway} =>
       ~ Open /\ connection.why \notin RuleCodes

IInv ==
  /\ ShapeOK
  /\ HoldersOK
  /\ RecordOK
  /\ SaidOK

USE DEF Open, Connecting, Halves, ConnectError, Plain, NoError, GoingAway, Broke, NothingCame,
        Nothing, tunnelVars

-----------------------------------------------------------------------------
\* A code for a broken rule is none of the other reasons a connection ends for.
LEMMA CodesApart == {NotClosed, ByQuic, NO_ERROR} \cap RuleCodes = {}
<1>1. ASSUME NEW error \in H3Errors PROVE Code[error] \notin {NotClosed, ByQuic, NO_ERROR}
  BY <1>1 DEF Code, H3Errors, NotClosed, ByQuic, NO_ERROR
<1> QED
  BY <1>1 DEF RuleCodes

LEMMA InitHolds == H3Init => IInv
<1> SUFFICES ASSUME H3Init PROVE IInv
  OBVIOUS
<1>1. ShapeOK
  BY DEF H3Init, ShapeOK
<1>2. HoldersOK
  BY DEF H3Init, HoldersOK
<1>3. RecordOK
  BY CodesApart DEF H3Init, RecordOK
<1>4. SaidOK
  BY DEF H3Init, SaidOK
<1> QED
  BY <1>1, <1>2, <1>3, <1>4 DEF IInv

-----------------------------------------------------------------------------
(* Connecting.                                                              *)

LEMMA ConnectKeeps == IInv /\ (ConnectNext \/ Abandon) => IInv'
<1> SUFFICES ASSUME IInv, ConnectNext \/ Abandon PROVE IInv'
  OBVIOUS
<1> USE CodesApart DEF IInv
<1>1. ASSUME NoHandshake PROVE IInv'
  <2> USE <1>1 DEF NoHandshake, Stops
  <2>1. ShapeOK'
    BY DEF ShapeOK, HoldersOK
  <2>2. HoldersOK'
    BY DEF ShapeOK, HoldersOK
  <2>3. RecordOK'
    BY DEF ShapeOK, HoldersOK, RecordOK
  <2>4. SaidOK'
    BY DEF ShapeOK, HoldersOK, RecordOK, SaidOK
  <2> QED
    BY <2>1, <2>2, <2>3, <2>4
<1>2. ASSUME Handshake PROVE IInv'
  <2> USE <1>2 DEF Handshake
  <2>1. ShapeOK'
    BY DEF ShapeOK, HoldersOK
  <2>2. HoldersOK'
    BY DEF ShapeOK, HoldersOK
  <2>3. RecordOK'
    BY DEF ShapeOK, HoldersOK, RecordOK
  <2>4. SaidOK'
    BY DEF ShapeOK, HoldersOK, RecordOK, SaidOK
  <2> QED
    BY <2>1, <2>2, <2>3, <2>4
<1>3. ASSUME OpenControl PROVE IInv'
  <2> USE <1>3 DEF OpenControl, Steps, Exchanging
  <2>1. ShapeOK'
    BY DEF ShapeOK, HoldersOK
  <2>2. HoldersOK'
    BY DEF ShapeOK, HoldersOK
  <2>3. RecordOK'
    BY DEF ShapeOK, HoldersOK, RecordOK
  <2>4. SaidOK'
    BY DEF ShapeOK, HoldersOK, RecordOK, SaidOK
  <2> QED
    BY <2>1, <2>2, <2>3, <2>4
<1>4. ASSUME TakeSettings PROVE IInv'
  <2> USE <1>4 DEF TakeSettings, Fails
  <2>1. ShapeOK'
    BY DEF ShapeOK, HoldersOK
  <2>2. HoldersOK'
    BY DEF ShapeOK, HoldersOK
  <2>3. RecordOK'
    BY DEF ShapeOK, HoldersOK, RecordOK
  <2>4. SaidOK'
    <3>1. CASE connect'.at = "request"
      BY <3>1 DEF ShapeOK, HoldersOK, RecordOK, SaidOK
    <3>2. CASE connect'.at = "telling"
      <4>1. connect'.came = Plain("H3Unfit")
        BY <3>2 DEF ShapeOK
      <4> QED
        BY <3>2, <4>1 DEF ShapeOK, HoldersOK, RecordOK, SaidOK
    <3> QED
      BY <3>1, <3>2 DEF ShapeOK
  <2> QED
    BY <2>1, <2>2, <2>3, <2>4
<1>5. ASSUME SettingsLost PROVE IInv'
  <2> USE <1>5 DEF SettingsLost, PeerGone, Fails
  <2>1. ShapeOK'
    BY DEF ShapeOK, HoldersOK
  <2>2. HoldersOK'
    BY DEF ShapeOK, HoldersOK
  <2>3. RecordOK'
    BY DEF ShapeOK, HoldersOK, RecordOK
  <2>4. SaidOK'
    BY DEF ShapeOK, HoldersOK, RecordOK, SaidOK
  <2> QED
    BY <2>1, <2>2, <2>3, <2>4
<1>6. ASSUME ExchangeLost PROVE IInv'
  <2> USE <1>6 DEF ExchangeLost, Fails
  <2>1. ShapeOK'
    BY DEF ShapeOK, HoldersOK
  <2>2. HoldersOK'
    BY DEF ShapeOK, HoldersOK
  <2>3. RecordOK'
    BY DEF ShapeOK, HoldersOK, RecordOK
  <2>4. SaidOK'
    BY DEF ShapeOK, HoldersOK, RecordOK, SaidOK
  <2> QED
    BY <2>1, <2>2, <2>3, <2>4
<1>7. ASSUME OpenRequest PROVE IInv'
  <2> USE <1>7 DEF OpenRequest, Steps
  <2>1. ShapeOK'
    BY DEF ShapeOK, HoldersOK
  <2>2. HoldersOK'
    BY DEF ShapeOK, HoldersOK
  <2>3. RecordOK'
    BY DEF ShapeOK, HoldersOK, RecordOK
  <2>4. SaidOK'
    BY DEF ShapeOK, HoldersOK, RecordOK, SaidOK
  <2> QED
    BY <2>1, <2>2, <2>3, <2>4
<1>8. ASSUME ReadResponse PROVE IInv'
  <2>1. CASE connect'.at = "response"
    <3>1. /\ UNCHANGED <<connection, room, holders, ended, peer, got>>
          /\ connect' = [connect EXCEPT !.answer = Tail(@)]
      BY <1>8, <2>1 DEF ReadResponse, Fails, Stops, ShapeOK
    <3> QED
      BY <3>1 DEF ShapeOK, HoldersOK, RecordOK, SaidOK
  <2>2. CASE connect'.at = "room"
    <3>1. /\ UNCHANGED <<connection, holders, ended, peer, got>>
          /\ connect' = [connect EXCEPT !.at = "room", !.answer = <<>>]
          /\ connect.at = "response"
      BY <1>8, <2>2 DEF ReadResponse, Fails, Stops, ShapeOK
    <3> QED
      BY <3>1 DEF ShapeOK, HoldersOK, RecordOK, SaidOK
  <2>3. CASE connect'.at = "failed"
    <3>1. /\ connect.at = "response" /\ Stops(Plain("H3Refused")) /\ Releases({"connecting"})
          /\ UNCHANGED <<ended, peer, got>>
      BY <1>8, <2>3 DEF ReadResponse, Fails, Stops, ShapeOK
    <3> QED
      BY <3>1 DEF Stops, Releases, Closes, ShapeOK, HoldersOK, RecordOK, SaidOK
  <2>4. CASE connect'.at = "telling"
    <3>1. PICK status \in H3Errors :
             /\ connect.at = "response" /\ Fails(Broke(status)) /\ UNCHANGED <<ended, peer, got>>
      BY <1>8, <2>4 DEF ReadResponse, Stops, Fails, ShapeOK
    <3> QED
      BY <3>1 DEF Fails, Closes, ShapeOK, HoldersOK, RecordOK, SaidOK
  <2> QED
    BY <1>8, <2>1, <2>2, <2>3, <2>4 DEF ReadResponse, Stops, Fails, ShapeOK
<1>9. ASSUME ResponseEnds PROVE IInv'
  <2> USE <1>9 DEF ResponseEnds, Fails, Closes
  <2>1. ShapeOK'
    BY DEF ShapeOK, HoldersOK
  <2>2. HoldersOK'
    BY DEF ShapeOK, HoldersOK
  <2>3. RecordOK'
    BY DEF ShapeOK, HoldersOK, RecordOK
  <2>4. SaidOK'
    BY DEF ShapeOK, HoldersOK, RecordOK, SaidOK
  <2> QED
    BY <2>1, <2>2, <2>3, <2>4
<1>10. ASSUME Tell PROVE IInv'
  <2> USE <1>10 DEF Tell, Stops, Releases, Closes
  <2>1. ShapeOK'
    BY DEF ShapeOK, HoldersOK
  <2>2. HoldersOK'
    BY DEF ShapeOK, HoldersOK
  <2>3. RecordOK'
    BY DEF ShapeOK, HoldersOK, RecordOK
  <2>4. SaidOK'
    BY DEF ShapeOK, HoldersOK, RecordOK, SaidOK
  <2> QED
    BY <2>1, <2>2, <2>3, <2>4
<1>11. ASSUME Unanswered PROVE IInv'
  <2> USE <1>11 DEF Unanswered, Exchanging, Stops, Releases, Closes
  <2>1. ShapeOK'
    BY DEF ShapeOK, HoldersOK
  <2>2. HoldersOK'
    BY DEF ShapeOK, HoldersOK
  <2>3. RecordOK'
    BY DEF ShapeOK, HoldersOK, RecordOK
  <2>4. SaidOK'
    BY DEF ShapeOK, HoldersOK, RecordOK, SaidOK
  <2> QED
    BY <2>1, <2>2, <2>3, <2>4
<1>12. ASSUME RoomEnough PROVE IInv'
  <2> USE <1>12 DEF RoomEnough
  <2>1. ShapeOK'
    BY DEF ShapeOK, HoldersOK
  <2>2. HoldersOK'
    BY DEF ShapeOK, HoldersOK
  <2>3. RecordOK'
    BY DEF ShapeOK, HoldersOK, RecordOK
  <2>4. SaidOK'
    BY DEF ShapeOK, HoldersOK, RecordOK, SaidOK
  <2> QED
    BY <2>1, <2>2, <2>3, <2>4
<1>13. ASSUME RoomLacking PROVE IInv'
  <2>1. PICK came \in {Plain("H3Unfit"), ConnectError("Quic", "room")} :
          /\ connect.at = "room" /\ Stops(came) /\ Releases({"connecting"})
          /\ UNCHANGED <<ended, peer, got>>
    BY <1>13 DEF RoomLacking
  <2> QED
    BY <2>1 DEF Stops, Releases, Closes, ShapeOK, HoldersOK, RecordOK, SaidOK
<1>14. ASSUME Abandon PROVE IInv'
  <2> USE <1>14 DEF Abandon, Stops, Releases, Closes
  <2>1. ShapeOK'
    BY DEF ShapeOK, HoldersOK
  <2>2. HoldersOK'
    BY DEF ShapeOK, HoldersOK
  <2>3. RecordOK'
    BY DEF ShapeOK, HoldersOK, RecordOK
  <2>4. SaidOK'
    BY DEF ShapeOK, HoldersOK, RecordOK, SaidOK
  <2> QED
    BY <2>1, <2>2, <2>3, <2>4
<1> QED
  BY <1>1, <1>2, <1>3, <1>4, <1>5, <1>6, <1>7, <1>8,
     <1>9, <1>10, <1>11, <1>12, <1>13, <1>14 DEF ConnectNext

-----------------------------------------------------------------------------
(* The endpoint's streams.                                                  *)

LEMMA PeerKeeps ==
  ASSUME IInv, NEW s \in Streams, PeerNext(s) \/ StreamEnds(s) \/ \E k \in Nat : Chunk(s, k)
  PROVE  IInv'
<1> USE CodesApart DEF IInv
<1>1. ASSUME Accept(s) PROVE IInv'
  <2> USE <1>1 DEF Accept, OfPeer
  <2>1. ShapeOK'
    BY DEF ShapeOK
  <2>2. HoldersOK'
    BY DEF HoldersOK
  <2>3. RecordOK'
    BY DEF ShapeOK, RecordOK
  <2>4. SaidOK'
    BY DEF SaidOK
  <2> QED
    BY <2>1, <2>2, <2>3, <2>4
<1>2. ASSUME NEW k \in Nat, Chunk(s, k) PROVE IInv'
  <2> USE <1>2 DEF Chunk, OfPeer
  <2>1. ShapeOK'
    BY DEF ShapeOK
  <2>2. HoldersOK'
    BY DEF HoldersOK
  <2>3. RecordOK'
    BY DEF ShapeOK, RecordOK
  <2>4. SaidOK'
    BY DEF SaidOK
  <2> QED
    BY <2>1, <2>2, <2>3, <2>4
<1>3. ASSUME Opening(s) PROVE IInv'
  <2> USE <1>3 DEF Opening
  <2>1. ShapeOK'
    BY DEF ShapeOK
  <2>2. HoldersOK'
    BY DEF HoldersOK
  <2>3. RecordOK'
    BY DEF ShapeOK, RecordOK
  <2>4. SaidOK'
    BY DEF SaidOK
  <2> QED
    BY <2>1, <2>2, <2>3, <2>4
<1>4. ASSUME Look(s) PROVE IInv'
  <2>1. ShapeOK'
    BY <1>4 DEF Look, ShapeOK
  <2>2. HoldersOK'
    BY <1>4 DEF Look, HoldersOK
  <2>3. RecordOK'
    <3>1. ended' = ended \/ (ended = NoError /\ ended' = GoingAway)
      BY <1>4 DEF Look, SaysGoodbye
    <3>2. \A r \in Streams : peer'[r].at = "closing" => peer[r].at = "closing"
      <4>1. /\ peer'[s].at \in {"failing", "frames", "look"}
            /\ \A r \in Streams : r # s => peer'[r] = peer[r]
        BY <1>4 DEF Look, ShapeOK
      <4> QED
        BY <4>1
    <3>3. connection' = connection /\ connect' = connect
      BY <1>4 DEF Look
    <3> QED
      BY <3>1, <3>2, <3>3 DEF RecordOK
  <2>4. SaidOK'
    BY <1>4 DEF Look, SaysGoodbye, SaidOK
  <2> QED
    BY <2>1, <2>2, <2>3, <2>4
<1>5. ASSUME StreamEnds(s) PROVE IInv'
  <2> USE <1>5 DEF StreamEnds, OfPeer
  <2>1. ShapeOK'
    BY DEF ShapeOK
  <2>2. HoldersOK'
    BY DEF HoldersOK
  <2>3. RecordOK'
    BY DEF ShapeOK, RecordOK
  <2>4. SaidOK'
    BY DEF SaidOK
  <2> QED
    BY <2>1, <2>2, <2>3, <2>4
<1>6. ASSUME StreamLost(s) PROVE IInv'
  <2> USE <1>6 DEF StreamLost, OfPeer
  <2>1. ShapeOK'
    BY DEF ShapeOK
  <2>2. HoldersOK'
    BY DEF HoldersOK
  <2>3. RecordOK'
    BY DEF ShapeOK, RecordOK
  <2>4. SaidOK'
    BY DEF SaidOK
  <2> QED
    BY <2>1, <2>2, <2>3, <2>4
<1>7. ASSUME Fail(s) PROVE IInv'
  <2> USE <1>7 DEF Fail, Closes
  <2>1. ShapeOK'
    BY DEF ShapeOK, HoldersOK
  <2>2. HoldersOK'
    BY DEF ShapeOK, HoldersOK
  <2>3. RecordOK'
    BY DEF ShapeOK, HoldersOK, RecordOK
  <2>4. SaidOK'
    BY DEF ShapeOK, HoldersOK, RecordOK, SaidOK
  <2> QED
    BY <2>1, <2>2, <2>3, <2>4
<1> QED
  BY <1>1, <1>2, <1>3, <1>4, <1>5, <1>6, <1>7 DEF PeerNext

-----------------------------------------------------------------------------
(* The halves, and what happens around them.                                *)

LEMMA HalvesKeep ==
  ASSUME IInv,
         \/ HalvesNext \/ DropTunnel \/ RoomChanges \/ Lost
         \/ \E datagram \in Inbound : Arrives(datagram)
  PROVE  IInv'
<1> USE CodesApart DEF IInv, OfHalf, Driven, Comes, Gone
<1>1. ASSUME NEW packet \in Outbound, Send(packet) PROVE IInv'
  <2> USE <1>1 DEF Send
  <2>1. ShapeOK'
    BY DEF ShapeOK, HoldersOK
  <2>2. HoldersOK'
    BY DEF ShapeOK, HoldersOK
  <2>3. RecordOK'
    BY DEF ShapeOK, HoldersOK, RecordOK
  <2>4. SaidOK'
    BY DEF ShapeOK, HoldersOK, RecordOK, SaidOK
  <2> QED
    BY <2>1, <2>2, <2>3, <2>4
<1>2. ASSUME ReadDatagram PROVE IInv'
  <2> USE <1>2 DEF ReadDatagram
  <2>1. ShapeOK'
    BY DEF ShapeOK, HoldersOK
  <2>2. HoldersOK'
    BY DEF ShapeOK, HoldersOK
  <2>3. RecordOK'
    BY DEF ShapeOK, HoldersOK, RecordOK
  <2>4. SaidOK'
    BY DEF ShapeOK, HoldersOK, RecordOK, SaidOK
  <2> QED
    BY <2>1, <2>2, <2>3, <2>4
<1>3. ASSUME ReadAnswer PROVE IInv'
  <2> USE <1>3 DEF ReadAnswer
  <2>1. ShapeOK'
    BY DEF ShapeOK, HoldersOK
  <2>2. HoldersOK'
    BY DEF ShapeOK, HoldersOK
  <2>3. RecordOK'
    BY DEF ShapeOK, HoldersOK, RecordOK
  <2>4. SaidOK'
    BY DEF ShapeOK, HoldersOK, RecordOK, SaidOK
  <2> QED
    BY <2>1, <2>2, <2>3, <2>4
<1>4. ASSUME ReadWatch PROVE IInv'
  <2> USE <1>4 DEF ReadWatch
  <2>1. ShapeOK'
    BY DEF ShapeOK, HoldersOK
  <2>2. HoldersOK'
    BY DEF ShapeOK, HoldersOK
  <2>3. RecordOK'
    BY DEF ShapeOK, HoldersOK, RecordOK
  <2>4. SaidOK'
    BY DEF ShapeOK, HoldersOK, RecordOK, SaidOK
  <2> QED
    BY <2>1, <2>2, <2>3, <2>4
<1>5. ASSUME Probe PROVE IInv'
  <2> USE <1>5 DEF Probe
  <2>1. ShapeOK'
    BY DEF ShapeOK, HoldersOK
  <2>2. HoldersOK'
    BY DEF ShapeOK, HoldersOK
  <2>3. RecordOK'
    BY DEF ShapeOK, HoldersOK, RecordOK
  <2>4. SaidOK'
    BY DEF ShapeOK, HoldersOK, RecordOK, SaidOK
  <2> QED
    BY <2>1, <2>2, <2>3, <2>4
<1>6. ASSUME ProbeAnswer PROVE IInv'
  <2> USE <1>6 DEF ProbeAnswer
  <2>1. ShapeOK'
    BY DEF ShapeOK, HoldersOK
  <2>2. HoldersOK'
    BY DEF ShapeOK, HoldersOK
  <2>3. RecordOK'
    BY DEF ShapeOK, HoldersOK, RecordOK
  <2>4. SaidOK'
    BY DEF ShapeOK, HoldersOK, RecordOK, SaidOK
  <2> QED
    BY <2>1, <2>2, <2>3, <2>4
<1>7. ASSUME DropTunnel PROVE IInv'
  <2> USE <1>7 DEF DropTunnel, Releases, Closes
  <2>1. ShapeOK'
    BY DEF ShapeOK, HoldersOK
  <2>2. HoldersOK'
    BY DEF ShapeOK, HoldersOK
  <2>3. RecordOK'
    BY DEF ShapeOK, HoldersOK, RecordOK
  <2>4. SaidOK'
    BY DEF ShapeOK, HoldersOK, RecordOK, SaidOK
  <2> QED
    BY <2>1, <2>2, <2>3, <2>4
<1>8. ASSUME RoomChanges PROVE IInv'
  <2> USE <1>8 DEF RoomChanges
  <2>1. ShapeOK'
    BY DEF ShapeOK, HoldersOK
  <2>2. HoldersOK'
    BY DEF ShapeOK, HoldersOK
  <2>3. RecordOK'
    BY DEF ShapeOK, HoldersOK, RecordOK
  <2>4. SaidOK'
    BY DEF ShapeOK, HoldersOK, RecordOK, SaidOK
  <2> QED
    BY <2>1, <2>2, <2>3, <2>4
<1>9. ASSUME Lost PROVE IInv'
  <2> USE <1>9 DEF Lost, Closes
  <2>1. ShapeOK'
    BY DEF ShapeOK, HoldersOK
  <2>2. HoldersOK'
    BY DEF ShapeOK, HoldersOK
  <2>3. RecordOK'
    BY DEF ShapeOK, HoldersOK, RecordOK
  <2>4. SaidOK'
    BY DEF ShapeOK, HoldersOK, RecordOK, SaidOK
  <2> QED
    BY <2>1, <2>2, <2>3, <2>4
<1>10. ASSUME NEW datagram \in Inbound, Arrives(datagram) PROVE IInv'
  <2> USE <1>10 DEF Arrives
  <2>1. ShapeOK'
    BY DEF ShapeOK, HoldersOK
  <2>2. HoldersOK'
    BY DEF ShapeOK, HoldersOK
  <2>3. RecordOK'
    BY DEF ShapeOK, HoldersOK, RecordOK
  <2>4. SaidOK'
    BY DEF ShapeOK, HoldersOK, RecordOK, SaidOK
  <2> QED
    BY <2>1, <2>2, <2>3, <2>4
<1> QED
  BY <1>1, <1>2, <1>3, <1>4, <1>5, <1>6, <1>7, <1>8, <1>9, <1>10 DEF HalvesNext

-----------------------------------------------------------------------------
LEMMA InvariantHolds == H3Spec => []IInv
<1>1. IInv /\ [H3Next]_vars => IInv'
  <2> SUFFICES ASSUME IInv, [H3Next]_vars PROVE IInv'
    OBVIOUS
  <2>1. ASSUME NEW s \in Streams, NEW k \in 1 .. Len(peer[s].left), Chunk(s, k) PROVE IInv'
    BY <2>1, PeerKeeps
  <2>2. CASE UNCHANGED vars
    BY <2>2 DEF vars, IInv, ShapeOK, HoldersOK, RecordOK, SaidOK
  <2> QED
    BY <2>1, <2>2, ConnectKeeps, PeerKeeps, HalvesKeep DEF H3Next, EndpointNext
<1> QED
  BY <1>1, InitHolds, PTL DEF H3Spec

\* Whatever the endpoint says and wherever it is cut: who finds the connection
\* closed for a rule the endpoint broke says which (Peer::fail and serve_control,
\* src/transport/quic.rs:306 and 377).
THEOREM BrokenRuleTold == H3Spec => []RuleBrokenIsTold
<1>1. IInv => RuleBrokenIsTold
  BY DEF IInv, HoldersOK, SaidOK, RuleBrokenIsTold
<1> QED
  BY <1>1, InvariantHolds, PTL

\* No connection outlives the tunnel, or the attempt at one, whichever way either
\* ended (Link, src/transport/quic.rs:96).
THEOREM ClosedWithTunnel == H3Spec => []NothingOutlives
<1>1. IInv => NothingOutlives
  BY DEF IInv, HoldersOK, NothingOutlives
<1> QED
  BY <1>1, InvariantHolds, PTL

-----------------------------------------------------------------------------
(* HTTP/2: the ClientHello.                                                *)

\* Until its first write, a hello that is to be split is whole, and waits for it.
HelloOK ==
  /\ hello = [plan |-> hello.plan, left |-> hello.left, segments |-> hello.segments]
  /\ hello.left \in Seq(Byte) /\ hello.segments \in Seq(Seq(Byte))
  /\ Splits(strategy) /\ hello.segments = <<>> => hello.plan = "waiting"

LEMMA LeastOf ==
  ASSUME NEW S \in SUBSET Nat, S # {}
  PROVE  \E x \in S : \A y \in S : x <= y
<1>1. PICK x \in S : \A y \in S : <<y, x>> \notin OpToRel(<, Nat)
  BY NatLessThanWellFounded, WFMin
<1>2. \A y \in S : ~(y < x) BY <1>1 DEF OpToRel
<1>3. \A y \in S : x <= y BY <1>2
<1> QED BY <1>3

\* The write that stops at the cut, or short of it, stops before the name ends.
LEMMA CutHidesTheName ==
  ASSUME NEW buffer \in Seq(Byte), NEW n \in 1 .. Len(buffer),
         \A at \in CutPoint(buffer) : n <= at
  PROVE  PositionOf(Needle, SubSeq(buffer, 1, n)) = {}
<1> DEFINE piece == SubSeq(buffer, 1, n)
           found == PositionOf(Needle, buffer)
<1>1. Needle \in Seq(Byte) /\ Len(Needle) \in Nat /\ Len(Needle) > 1
  BY H2Assumption, LenProperties DEF H2Assumption
<1>2. /\ Len(buffer) \in Nat /\ n \in Nat /\ n <= Len(buffer)
      /\ \A i \in 1 .. n : buffer[i] \in Byte
  BY LenProperties, ElementOfSeq
<1>3. /\ piece \in Seq(Byte) /\ Len(piece) = n
      /\ \A i \in 1 .. n : piece[i] = buffer[i]
  <2>1. /\ piece \in Seq(Byte) /\ Len(piece) = IF 1 <= n THEN n - 1 + 1 ELSE 0
        /\ \A i \in 1 .. n - 1 + 1 : piece[i] = buffer[1 + i - 1]
    BY <1>2, SubSeqProperties
  <2>2. n - 1 + 1 = n /\ 1 <= n /\ \A i \in 1 .. n : 1 + i - 1 = i BY <1>2
  <2> QED BY <2>1, <2>2
<1> HIDE DEF piece
<1>4. ASSUME NEW i \in PositionOf(Needle, piece) PROVE FALSE
  <2>1. /\ i \in Nat /\ i + Len(Needle) <= n
        /\ SubSeq(piece, i + 1, i + Len(Needle)) = Needle
    BY <1>1, <1>2, <1>3, <1>4 DEF PositionOf
  <2>2. SubSeq(buffer, i + 1, i + Len(Needle)) = SubSeq(piece, i + 1, i + Len(Needle))
    <3> DEFINE a == i + 1
               b == i + Len(Needle)
    <3>1. a \in Int /\ b \in Int /\ 1 <= a /\ b <= n BY <1>1, <2>1
    <3> HIDE DEF a, b
    <3>2. \A j \in a .. b : j \in 1 .. n BY <1>2, <3>1
    <3>3. \A j \in a .. b : piece[j] = buffer[j] /\ buffer[j] \in Byte BY <1>2, <1>3, <3>2
    <3>4. \A j \in a .. b : piece[j] \in Byte BY <3>3
    <3>5. /\ SubSeq(buffer, a, b) \in Seq(Byte)
          /\ Len(SubSeq(buffer, a, b)) = IF a <= b THEN b - a + 1 ELSE 0
          /\ \A j \in 1 .. b - a + 1 : SubSeq(buffer, a, b)[j] = buffer[a + j - 1]
      BY <3>1, <3>3, SubSeqProperties
    <3>6. /\ SubSeq(piece, a, b) \in Seq(Byte)
          /\ Len(SubSeq(piece, a, b)) = IF a <= b THEN b - a + 1 ELSE 0
          /\ \A j \in 1 .. b - a + 1 : SubSeq(piece, a, b)[j] = piece[a + j - 1]
      BY <3>1, <3>4, SubSeqProperties
    <3>7. \A j \in 1 .. b - a + 1 : a + j - 1 \in a .. b BY <3>1
    <3>8. \A j \in 1 .. b - a + 1 : SubSeq(piece, a, b)[j] = SubSeq(buffer, a, b)[j]
      BY <3>3, <3>5, <3>6, <3>7
    <3>9. \A j \in 1 .. Len(SubSeq(buffer, a, b)) : j \in 1 .. b - a + 1 BY <3>1, <3>5
    <3>10. SubSeq(buffer, a, b) = SubSeq(piece, a, b)
      BY <3>5, <3>6, <3>8, <3>9, SeqEqual
    <3> QED BY <3>10 DEF a, b
  <2>3. i \in found
    <3>1. i \in 0 .. Len(buffer) - Len(Needle) BY <1>1, <1>2, <2>1
    <3> QED BY <2>1, <2>2, <3>1 DEF PositionOf
  <2>4. found \in SUBSET Nat /\ \A j \in found : j + Len(Needle) <= Len(buffer)
    BY <1>1, <1>2 DEF PositionOf
  <2> HIDE DEF found
  <2> DEFINE least == CHOOSE j \in found : \A k \in found : j <= k
  <2>5. least \in found /\ \A k \in found : least <= k
    <3>1. \E j \in found : \A k \in found : j <= k BY <2>3, <2>4, LeastOf
    <3> QED BY <3>1
  <2> HIDE DEF least
  <2> DEFINE at == least + Len(Needle) \div 2
  <2>6. 1 <= Len(Needle) \div 2 /\ Len(Needle) \div 2 < Len(Needle) BY <1>1
  <2>7. Len(Needle) \div 2 \in Nat BY <1>1
  <2>8. least \in Nat /\ least <= i /\ least + Len(Needle) <= Len(buffer) BY <2>3, <2>4, <2>5
  <2> DEFINE half == Len(Needle) \div 2
  <2> HIDE DEF half
  <2>9. at = least + half /\ half \in Nat /\ 1 <= half /\ half < Len(Needle)
    BY <2>6, <2>7 DEF half
  <2> HIDE DEF at
  <2>10. at > 0 /\ at < Len(buffer) BY <1>1, <1>2, <2>8, <2>9
  <2>11. CutPoint(buffer) = {at}
    <3>1. found # {} BY <2>3
    <3> QED BY <2>10, <3>1 DEF CutPoint, found, least, at
  <2>12. n <= at BY <2>11
  <2>13. at \in Nat BY <2>8, <2>9
  <2> QED BY <1>1, <1>2, <2>1, <2>8, <2>9, <2>12, <2>13
<1>5. PositionOf(Needle, piece) = {} BY <1>4
<1> QED BY <1>5 DEF piece

LEMMA WriteKeepsHello ==
  ASSUME HelloOK, FirstSegmentHidesTheName, NEW n \in 1 .. Len(hello.left), WriteHello(n)
  PROVE  HelloOK' /\ FirstSegmentHidesTheName'
<1> DEFINE left == hello.left
           segments == hello.segments
           piece == SubSeq(left, 1, n)
           cut == IF hello.plan = "waiting" THEN CutPoint(left) ELSE {}
<1>1. left \in Seq(Byte) /\ segments \in Seq(Seq(Byte)) /\ strategy' = strategy
  BY DEF HelloOK, WriteHello
<1>2. /\ \A at \in cut : n <= at
      /\ \E plan : hello' = [plan |-> plan, left |-> Advance(left, n),
                             segments |-> Append(segments, piece)]
  BY DEF WriteHello
<1>3. /\ hello' = [plan |-> hello.plan', left |-> hello.left', segments |-> hello.segments']
      /\ hello.left' = Advance(left, n) /\ hello.segments' = Append(segments, piece)
  BY <1>2
<1>4. Splits(strategy) /\ segments = <<>> => hello.plan = "waiting" BY DEF HelloOK
<1>5. Splits(strategy) /\ segments # <<>> => PositionOf(Needle, segments[1]) = {}
  BY DEF FirstSegmentHidesTheName
<1>6. n \in 1 .. Len(left) OBVIOUS
<1>7. hello.plan = "waiting" => cut = CutPoint(left) OBVIOUS
<1> HIDE DEF left, segments, cut
<1>8. Len(left) \in Nat /\ \A i \in 1 .. Len(left) : left[i] \in Byte
  BY <1>1, LenProperties, ElementOfSeq
<1>9. piece \in Seq(Byte)
  <2>1. \A i \in 1 .. n : left[i] \in Byte BY <1>6, <1>8
  <2> QED BY <1>6, <1>8, <2>1, SubSeqProperties
<1>10. Advance(left, n) \in Seq(Byte)
  <2>1. \A i \in n + 1 .. Len(left) : left[i] \in Byte BY <1>6, <1>8
  <2> QED BY <1>6, <1>8, <2>1, SubSeqProperties DEF Advance
<1>11. Splits(strategy) /\ segments = <<>> => PositionOf(Needle, piece) = {}
  BY <1>1, <1>2, <1>4, <1>6, <1>7, CutHidesTheName
<1> HIDE DEF piece
<1>12. /\ Append(segments, piece) \in Seq(Seq(Byte)) /\ Append(segments, piece) # <<>>
       /\ segments = <<>> => Append(segments, piece)[1] = piece
       /\ segments # <<>> => Append(segments, piece)[1] = segments[1]
  <2>1. /\ Append(segments, piece) \in Seq(Seq(Byte))
        /\ Len(Append(segments, piece)) = Len(segments) + 1
        /\ \A i \in 1 .. Len(segments) : Append(segments, piece)[i] = segments[i]
        /\ Append(segments, piece)[Len(segments) + 1] = piece
    BY <1>1, <1>9, AppendProperties
  <2>2. Len(segments) \in Nat /\ (segments # <<>> => Len(segments) \in Nat \ {0})
    BY <1>1, LenProperties, EmptySeq
  <2>3. Append(segments, piece) # <<>>
    <3>1. Len(Append(segments, piece)) # 0 BY <2>1, <2>2
    <3> QED BY <3>1, EmptySeq
  <2>4. segments = <<>> => Append(segments, piece)[1] = piece
    <3>1. segments = <<>> => Len(segments) + 1 = 1 BY EmptySeq
    <3> QED BY <2>1, <3>1
  <2>5. segments # <<>> => 1 \in 1 .. Len(segments) BY <2>2
  <2> QED BY <2>1, <2>3, <2>4, <2>5
<1>13. HelloOK' BY <1>1, <1>3, <1>10, <1>12 DEF HelloOK
<1>14. FirstSegmentHidesTheName'
  <2>1. Splits(strategy) => PositionOf(Needle, Append(segments, piece)[1]) = {}
    BY <1>5, <1>11, <1>12
  <2> QED BY <1>1, <1>3, <2>1 DEF FirstSegmentHidesTheName, Splits
<1> QED BY <1>13, <1>14

LEMMA HelloElsewhere ==
  ASSUME HelloOK, FirstSegmentHidesTheName, UNCHANGED <<strategy, hello>>
  PROVE  HelloOK' /\ FirstSegmentHidesTheName'
<1>1. HelloOK' BY DEF HelloOK, Splits
<1>2. FirstSegmentHidesTheName' BY DEF FirstSegmentHidesTheName, Splits
<1> QED BY <1>1, <1>2

LEMMA StepKeepsHello ==
  ASSUME HelloOK, FirstSegmentHidesTheName, [H2Next]_h2Vars
  PROVE  HelloOK' /\ FirstSegmentHidesTheName'
<1>1. ASSUME NEW n \in 1 .. Len(hello.left), WriteHello(n)
      PROVE  HelloOK' /\ FirstSegmentHidesTheName'
  BY <1>1, WriteKeepsHello
<1>2. CASE HeldBack
  <2>1. hello' = [hello EXCEPT !.plan = "through"] /\ hello.plan = "holding"
    BY <1>2 DEF HeldBack
  <2>2. strategy' = strategy BY <1>2 DEF HeldBack
  <2>3. hello = [plan |-> hello.plan, left |-> hello.left, segments |-> hello.segments]
    BY DEF HelloOK
  <2>4. /\ hello' = [plan |-> "through", left |-> hello.left, segments |-> hello.segments]
        /\ hello.left' = hello.left /\ hello.segments' = hello.segments
        /\ hello.plan' = "through"
    BY <2>1, <2>3
  <2>5. ~(Splits(strategy) /\ hello.segments = <<>>) BY <2>1 DEF HelloOK
  <2>6. HelloOK' BY <2>2, <2>4, <2>5 DEF HelloOK, Splits
  <2>7. FirstSegmentHidesTheName' BY <2>2, <2>4 DEF FirstSegmentHidesTheName, Splits
  <2> QED BY <2>6, <2>7
<1>3. CASE TcpUp \/ TlsUp \/ Http2Up \/ Accepted \/ DialFails
  <2>1. UNCHANGED <<strategy, hello>>
    BY <1>3 DEF TcpUp, TlsUp, Http2Up, Accepted, DialFails, DialOn, helloVars
  <2> QED BY <2>1, HelloElsewhere
<1>4. CASE OutNext
  <2>1. UNCHANGED <<strategy, hello>>
    BY <1>4 DEF OutNext, Grant, SendData, SendFails, Stage, helloVars
  <2> QED BY <2>1, HelloElsewhere
<1>5. CASE InNext
  <2>1. UNCHANGED <<strategy, hello>>
    BY <1>5 DEF InNext, TakeOne, ReadChunk, ReadEnds, SendPing, Pong, Fed, Feed, helloVars
  <2> QED BY <2>1, HelloElsewhere
<1>6. CASE UNCHANGED h2Vars
  <2>1. UNCHANGED <<strategy, hello>> BY <1>6 DEF h2Vars, helloVars
  <2> QED BY <2>1, HelloElsewhere
<1> QED BY <1>1, <1>2, <1>3, <1>4, <1>5, <1>6 DEF H2Next, DialNext

\* However little of a ClientHello the socket takes at a time, and wherever in it the
\* name stands, the first segment of a split one does not hold the name.
THEOREM NameIsHidden == H2Spec => []FirstSegmentHidesTheName
<1>1. H2Init => HelloOK /\ FirstSegmentHidesTheName
  <2> SUFFICES ASSUME H2Init PROVE HelloOK /\ FirstSegmentHidesTheName OBVIOUS
  <2>1. PICK written \in Hellos :
          hello = [plan |-> IF Splits(strategy) THEN "waiting" ELSE "none",
                   left |-> written, segments |-> <<>>]
    BY DEF H2Init
  <2>2. written \in Seq(Byte) BY H2Assumption DEF H2Assumption
  <2>3. <<>> \in Seq(Seq(Byte)) BY EmptySeq
  <2>4. HelloOK BY <2>1, <2>2, <2>3 DEF HelloOK
  <2>5. FirstSegmentHidesTheName BY <2>1 DEF FirstSegmentHidesTheName
  <2> QED BY <2>4, <2>5
<1>2. HelloOK /\ FirstSegmentHidesTheName /\ [H2Next]_h2Vars
        => HelloOK' /\ FirstSegmentHidesTheName'
  BY StepKeepsHello
<1> QED BY <1>1, <1>2, PTL DEF H2Spec

-----------------------------------------------------------------------------
(* Sequences put end to end.                                               *)

LEMMA CountingUp ==
  ASSUME NEW Good, 0 \in Good, \A n \in Nat : n \in Good => n + 1 \in Good
  PROVE  \A n \in Nat : n \in Good
<1> DEFINE Bad == {n \in Nat : n \notin Good}
<1>1. SUFFICES ASSUME Bad # {} PROVE FALSE OBVIOUS
<1>2. PICK n \in Bad : \A m \in Bad : n <= m BY <1>1, LeastOf
<1>3. n # 0 /\ n - 1 \in Nat /\ n - 1 \notin Bad BY <1>2
<1>4. n - 1 \in Good BY <1>3
<1>5. (n - 1) + 1 \in Good /\ (n - 1) + 1 = n BY <1>3, <1>4
<1> QED BY <1>5

\* What FlattenSeq's recursion makes of the first i sequences.
Joins(it, seqs, i) == IF i = 1 THEN seqs[i] ELSE it[i - 1] \o seqs[i]

IsJoin(it, seqs) == it = [i \in 1 .. Len(seqs) |-> Joins(it, seqs, i)]

LEMMA FlattenIsJoin ==
  ASSUME NEW seqs, Len(seqs) # 0
  PROVE  FlattenSeq(seqs) = (CHOOSE it : IsJoin(it, seqs))[Len(seqs)]
BY DEF FlattenSeq, IsJoin, Joins

LEMMA JoinExists ==
  ASSUME NEW seqs, Len(seqs) \in Nat
  PROVE  IsJoin(CHOOSE it : IsJoin(it, seqs), seqs)
<1> DEFINE N == Len(seqs)
           Holds(it, n) ==
             /\ it = [i \in 1 .. N |-> it[i]]
             /\ \A i \in 1 .. N : i <= n => it[i] = Joins(it, seqs, i)
           Good == {n \in Nat : \E it : Holds(it, n)}
<1> HIDE DEF N
<1>0. N \in Nat BY DEF N
<1>1. 0 \in Good
  <2> DEFINE it == [i \in 1 .. N |-> 0]
  <2>1. it = [i \in 1 .. N |-> it[i]] OBVIOUS
  <2>2. \A i \in 1 .. N : ~(i <= 0) BY <1>0
  <2>3. Holds(it, 0) BY <2>1, <2>2
  <2> QED BY <2>3
<1>2. ASSUME NEW n \in Nat, n \in Good PROVE n + 1 \in Good
  <2>1. PICK it : Holds(it, n) BY <1>2
  <2> DEFINE next == [i \in 1 .. N |-> Joins(it, seqs, i)]
  <2>2. \A i \in 1 .. N : i <= n => next[i] = it[i] BY <2>1
  <2>3. ASSUME NEW i \in 1 .. N, i <= n + 1 PROVE next[i] = Joins(next, seqs, i)
    <3>1. CASE i = 1 BY <3>1 DEF Joins
    <3>2. CASE i # 1
      <4>1. i - 1 \in 1 .. N /\ i - 1 <= n BY <1>0, <2>3, <3>2
      <4>2. next[i - 1] = it[i - 1] BY <2>2, <4>1
      <4>3. next[i] = it[i - 1] \o seqs[i] BY <3>2 DEF Joins
      <4> HIDE DEF next
      <4> QED BY <3>2, <4>2, <4>3 DEF Joins
    <3> QED BY <3>1, <3>2
  <2>4. next = [i \in 1 .. N |-> next[i]] OBVIOUS
  <2> HIDE DEF next
  <2>5. Holds(next, n + 1) BY <2>3, <2>4
  <2> HIDE DEF Holds
  <2>6. \E jt : Holds(jt, n + 1) BY <2>5
  <2> QED BY <2>6
<1>3. N \in Good
  <2> HIDE DEF Good
  <2>1. \A n \in Nat : n \in Good BY <1>1, <1>2, CountingUp
  <2> QED BY <1>0, <2>1
<1>4. PICK it : Holds(it, N) BY <1>3
<1>5. \A i \in 1 .. N : it[i] = Joins(it, seqs, i) BY <1>0, <1>4
<1>6. it = [i \in 1 .. N |-> Joins(it, seqs, i)] BY <1>4, <1>5
<1>7. IsJoin(it, seqs) BY <1>6 DEF IsJoin, N
<1> QED BY <1>7

Starts(s, t) ==
  /\ Len(s) \in Nat /\ Len(t) \in Nat /\ Len(s) <= Len(t)
  /\ \A i \in 1 .. Len(s) : s[i] = t[i]

\* Two that obey the recursion agree as far as their sequences do.
LEMMA JoinsAgree ==
  ASSUME NEW s, NEW t, Starts(s, t),
         NEW it, NEW jt, IsJoin(it, s), IsJoin(jt, t)
  PROVE  \A i \in 1 .. Len(s) : it[i] = jt[i]
<1> DEFINE Good == {n \in Nat : n \in 1 .. Len(s) => it[n] = jt[n]}
<1>0. /\ Len(s) \in Nat /\ Len(t) \in Nat /\ Len(s) <= Len(t)
      /\ \A i \in 1 .. Len(s) : s[i] = t[i]
  BY DEF Starts
<1>1. 0 \in Good OBVIOUS
<1>2. ASSUME NEW n \in Nat, n \in Good PROVE n + 1 \in Good
  <2> SUFFICES ASSUME n + 1 \in 1 .. Len(s) PROVE it[n + 1] = jt[n + 1] OBVIOUS
  <2>1. n + 1 \in 1 .. Len(t) /\ s[n + 1] = t[n + 1] /\ (n + 1) - 1 = n BY <1>0
  <2>2. it[n + 1] = Joins(it, s, n + 1) /\ jt[n + 1] = Joins(jt, t, n + 1)
    BY <2>1 DEF IsJoin
  <2>3. CASE n = 0
    <3>1. n + 1 = 1 BY <2>3
    <3> QED BY <2>1, <2>2, <3>1 DEF Joins
  <2>4. CASE n # 0
    <3>1. n \in 1 .. Len(s) /\ n + 1 # 1 BY <1>0, <2>4
    <3>2. it[n] = jt[n] BY <1>2, <3>1
    <3> QED BY <2>1, <2>2, <3>1, <3>2 DEF Joins
  <2> QED BY <2>3, <2>4
<1> HIDE DEF Good
<1>3. \A n \in Nat : n \in Good BY <1>1, <1>2, CountingUp
<1>4. \A i \in 1 .. Len(s) : i \in Good BY <1>0, <1>3
<1> QED BY <1>4 DEF Good

LEMMA FlattenOfNone == FlattenSeq(<<>>) = <<>>
BY EmptySeq DEF FlattenSeq

LEMMA FlattenOfMore ==
  ASSUME NEW B, NEW s \in Seq(Seq(B)), NEW x \in Seq(B)
  PROVE  FlattenSeq(Append(s, x)) = FlattenSeq(s) \o x
<1> DEFINE t == Append(s, x)
           it == CHOOSE it : IsJoin(it, s)
           jt == CHOOSE jt : IsJoin(jt, t)
<1>1. /\ Len(s) \in Nat /\ t \in Seq(Seq(B)) /\ Len(t) = Len(s) + 1
      /\ \A i \in 1 .. Len(s) : t[i] = s[i]
      /\ t[Len(s) + 1] = x
  BY LenProperties, AppendProperties
<1> HIDE DEF t
<1>2. Len(t) \in Nat /\ Len(t) # 0 BY <1>1
<1>3. IsJoin(it, s) /\ IsJoin(jt, t) BY <1>1, <1>2, JoinExists
<1>4. FlattenSeq(t) = jt[Len(t)] BY <1>2, FlattenIsJoin
<1>5. Len(s) # 0 => FlattenSeq(s) = it[Len(s)] BY FlattenIsJoin
<1> HIDE DEF it, jt
<1>6. jt[Len(t)] = Joins(jt, t, Len(t))
  <2>1. Len(t) \in 1 .. Len(t) BY <1>2
  <2> QED BY <1>3, <2>1 DEF IsJoin
<1>7. CASE Len(s) = 0
  <2>1. Len(t) = 1 /\ t[1] = x BY <1>1, <1>7
  <2>2. FlattenSeq(t) = x BY <1>4, <1>6, <2>1 DEF Joins
  <2>3. s = <<>> BY <1>7, EmptySeq
  <2>4. FlattenSeq(s) \o x = x BY <2>3, FlattenOfNone, ConcatEmptySeq
  <2> QED BY <2>2, <2>4 DEF t
<1>8. CASE Len(s) # 0
  <2>1. Len(t) # 1 /\ Len(t) - 1 = Len(s) /\ t[Len(t)] = x BY <1>1, <1>8
  <2>2. jt[Len(t)] = jt[Len(s)] \o x BY <1>6, <2>1 DEF Joins
  <2>3. Len(s) \in 1 .. Len(s) /\ Len(s) <= Len(t) BY <1>1, <1>8
  <2>4. it[Len(s)] = jt[Len(s)]
    <3>1. Starts(s, t) BY <1>1, <1>2, <2>3 DEF Starts
    <3>2. \A i \in 1 .. Len(s) : it[i] = jt[i] BY <1>3, <3>1, JoinsAgree
    <3> QED BY <2>3, <3>2
  <2> QED BY <1>4, <1>5, <1>8, <2>2, <2>4 DEF t
<1> QED BY <1>7, <1>8

\* The sequences up to one place, those from there to another, and all of them.
LEMMA SubSeqGrows ==
  ASSUME NEW S, NEW s \in Seq(S), NEW a \in 1 .. Len(s) + 1, NEW b \in a - 1 .. Len(s) - 1
  PROVE  /\ SubSeq(s, a, b) \in Seq(S) /\ b + 1 \in 1 .. Len(s) /\ s[b + 1] \in S
         /\ SubSeq(s, a, b + 1) = Append(SubSeq(s, a, b), s[b + 1])
<1>1. Len(s) \in Nat /\ \A i \in 1 .. Len(s) : s[i] \in S BY LenProperties, ElementOfSeq
<1>2. b \in Int /\ a \in Int /\ b + 1 \in a .. Len(s) /\ b + 1 \in 1 .. Len(s) BY <1>1
<1>3. \A i \in a .. b : i \in 1 .. Len(s) BY <1>1, <1>2
<1>4. \A i \in a .. b : s[i] \in S BY <1>1, <1>3
<1>5. SubSeq(s, a, b) \in Seq(S) BY <1>2, <1>4, SubSeqProperties
<1>6. a \in 1 .. Len(s) /\ (b + 1) - 1 = b BY <1>1, <1>2
<1>7. SubSeq(s, a, b + 1) = SubSeq(s, a, b) \o <<s[b + 1]>>
  <2>1. SubSeq(s, a, b + 1) = SubSeq(s, a, (b + 1) - 1) \o <<s[b + 1]>>
    BY <1>2, <1>6, SubSeqRecursiveSecond
  <2> QED BY <1>6, <2>1
<1>8. s[b + 1] \in S BY <1>1, <1>2
<1>9. SubSeq(s, a, b) \o <<s[b + 1]>> = Append(SubSeq(s, a, b), s[b + 1])
  BY <1>5, <1>8, AppendIsConcat
<1> QED BY <1>2, <1>5, <1>7, <1>8, <1>9

LEMMA FlattenTyped ==
  ASSUME NEW B, NEW s \in Seq(Seq(B)), NEW a \in 1 .. Len(s) + 1, NEW b \in a - 1 .. Len(s)
  PROVE  FlattenSeq(SubSeq(s, a, b)) \in Seq(B)
<1> DEFINE Good == {n \in Nat : (a - 1) + n <= Len(s)
                                  => FlattenSeq(SubSeq(s, a, (a - 1) + n)) \in Seq(B)}
<1>0. Len(s) \in Nat /\ a \in Nat /\ a - 1 \in Nat BY LenProperties
<1>1. 0 \in Good
  <2>1. (a - 1) + 0 = a - 1 /\ a - 1 < a BY <1>0
  <2>2. SubSeq(s, a, (a - 1) + 0) = <<>> BY <1>0, <2>1, SubSeqEmpty
  <2> QED BY <2>2, FlattenOfNone, EmptySeq
<1>2. ASSUME NEW n \in Nat, n \in Good PROVE n + 1 \in Good
  <2> SUFFICES ASSUME (a - 1) + (n + 1) <= Len(s)
               PROVE  FlattenSeq(SubSeq(s, a, (a - 1) + (n + 1))) \in Seq(B)
    OBVIOUS
  <2> DEFINE c == (a - 1) + n
  <2>1. c \in a - 1 .. Len(s) - 1 /\ c <= Len(s) /\ (a - 1) + (n + 1) = c + 1 BY <1>0
  <2>2. FlattenSeq(SubSeq(s, a, c)) \in Seq(B) BY <1>2, <2>1
  <2> HIDE DEF c
  <2>3. /\ SubSeq(s, a, c) \in Seq(Seq(B)) /\ s[c + 1] \in Seq(B)
        /\ SubSeq(s, a, c + 1) = Append(SubSeq(s, a, c), s[c + 1])
    BY <2>1, SubSeqGrows
  <2>4. FlattenSeq(SubSeq(s, a, c + 1)) = FlattenSeq(SubSeq(s, a, c)) \o s[c + 1]
    BY <2>3, FlattenOfMore
  <2>5. FlattenSeq(SubSeq(s, a, c + 1)) \in Seq(B) BY <2>2, <2>3, <2>4, ConcatProperties
  <2> QED BY <2>1, <2>5
<1> HIDE DEF Good
<1>3. \A n \in Nat : n \in Good BY <1>1, <1>2, CountingUp
<1>4. b - (a - 1) \in Nat /\ (a - 1) + (b - (a - 1)) = b /\ b <= Len(s) BY <1>0
<1>5. b - (a - 1) \in Good BY <1>3, <1>4
<1> QED BY <1>4, <1>5 DEF Good

Associates(B) == \A x, y, z \in Seq(B) : (x \o y) \o z = x \o (y \o z)

LEMMA ConcatAssociates == ASSUME NEW B PROVE Associates(B)
<1>1. ASSUME NEW x \in Seq(B), NEW y \in Seq(B), NEW z \in Seq(B)
      PROVE  (x \o y) \o z = x \o (y \o z)
  BY ConcatAssociative
<1> QED BY <1>1 DEF Associates

LEMMA FlattenInTwo ==
  ASSUME NEW B, NEW s \in Seq(Seq(B)), NEW k \in 0 .. Len(s), NEW m \in k .. Len(s)
  PROVE  FlattenSeq(SubSeq(s, 1, k)) \o FlattenSeq(SubSeq(s, k + 1, m))
           = FlattenSeq(SubSeq(s, 1, m))
<1> DEFINE Both(c) == FlattenSeq(SubSeq(s, 1, k)) \o FlattenSeq(SubSeq(s, k + 1, c))
           Good == {n \in Nat : k + n <= Len(s) => Both(k + n) = FlattenSeq(SubSeq(s, 1, k + n))}
<1>0. Len(s) \in Nat /\ k \in Nat /\ 1 \in 1 .. Len(s) + 1 /\ k + 1 \in 1 .. Len(s) + 1
      /\ k \in 1 - 1 .. Len(s)
  BY LenProperties
<1>1. 0 \in Good
  <2>1. k + 0 = k /\ k + 0 < k + 1 /\ k + 0 \in Int /\ k + 1 \in Int BY <1>0
  <2>2. SubSeq(s, k + 1, k + 0) = <<>> BY <2>1, SubSeqEmpty
  <2>3. FlattenSeq(SubSeq(s, 1, k)) \in Seq(B) BY <1>0, FlattenTyped
  <2>4. Both(k + 0) = FlattenSeq(SubSeq(s, 1, k)) BY <2>2, <2>3, FlattenOfNone, ConcatEmptySeq
  <2> QED BY <2>1, <2>4
<1>2. ASSUME NEW n \in Nat, n \in Good PROVE n + 1 \in Good
  <2> DEFINE c == k + n
  <2> SUFFICES ASSUME k + (n + 1) <= Len(s)
               PROVE  Both(k + (n + 1)) = FlattenSeq(SubSeq(s, 1, k + (n + 1)))
    OBVIOUS
  <2>1. /\ c \in (k + 1) - 1 .. Len(s) - 1 /\ c \in 1 - 1 .. Len(s) - 1 /\ c <= Len(s)
        /\ k + (n + 1) = c + 1 /\ c \in (k + 1) - 1 .. Len(s)
    BY <1>0
  <2>2. Both(c) = FlattenSeq(SubSeq(s, 1, c)) BY <1>2, <2>1
  <2> HIDE DEF c
  <2> DEFINE head == FlattenSeq(SubSeq(s, 1, k))
             rest == FlattenSeq(SubSeq(s, k + 1, c))
  <2>3. /\ SubSeq(s, 1, c) \in Seq(Seq(B)) /\ s[c + 1] \in Seq(B)
        /\ SubSeq(s, 1, c + 1) = Append(SubSeq(s, 1, c), s[c + 1])
    BY <1>0, <2>1, SubSeqGrows
  <2>4. /\ SubSeq(s, k + 1, c) \in Seq(Seq(B))
        /\ SubSeq(s, k + 1, c + 1) = Append(SubSeq(s, k + 1, c), s[c + 1])
    BY <1>0, <2>1, SubSeqGrows
  <2>5. FlattenSeq(SubSeq(s, 1, c + 1)) = FlattenSeq(SubSeq(s, 1, c)) \o s[c + 1]
    BY <2>3, FlattenOfMore
  <2>6. FlattenSeq(SubSeq(s, k + 1, c + 1)) = rest \o s[c + 1]
    BY <2>3, <2>4, FlattenOfMore
  <2>7. head \in Seq(B) /\ rest \in Seq(B)
    <3>1. head \in Seq(B) BY <1>0, FlattenTyped
    <3>2. rest \in Seq(B) BY <1>0, <2>1, FlattenTyped
    <3> QED BY <3>1, <3>2
  <2>8. Both(c + 1) = head \o (rest \o s[c + 1]) BY <2>6
  <2>9. FlattenSeq(SubSeq(s, 1, c + 1)) = (head \o rest) \o s[c + 1] BY <2>2, <2>5
  <2> HIDE DEF head, rest, Both
  <2>10. Associates(B) BY ConcatAssociates
  <2>11. Both(c + 1) = FlattenSeq(SubSeq(s, 1, c + 1))
    BY <2>3, <2>7, <2>8, <2>9, <2>10 DEF Associates
  <2> QED BY <2>1, <2>11
<1> HIDE DEF Good
<1>3. \A n \in Nat : n \in Good BY <1>1, <1>2, CountingUp
<1>4. m - k \in Nat /\ k + (m - k) = m /\ m <= Len(s) BY <1>0
<1>5. m - k \in Good BY <1>3, <1>4
<1> QED BY <1>4, <1>5 DEF Good

-----------------------------------------------------------------------------
(* HTTP/2: what goes out.                                                  *)

\* What a byte on the wire can be: of a header, or what tells packets apart.
WireBytes ==
  {Put(DATAGRAM)[i] : i \in 1 .. VarintLen(DATAGRAM)} \cup {Put(2)[i] : i \in 1 .. VarintLen(2)}
    \cup Nat

Pieces == [i \in DOMAIN Packets |-> InCapsule(Packets[i])]

LEMMA PutIsASeq ==
  ASSUME NEW value, NEW B, VarintLen(value) \in Nat,
         \A i \in 1 .. VarintLen(value) : Put(value)[i] \in B
  PROVE  Put(value) \in Seq(B)
<1> DEFINE n == VarintLen(value)
<1>1. DOMAIN Put(value) = 1 .. n BY DEF Put
<1>2. Put(value) = [i \in 1 .. n |-> Put(value)[i]] BY DEF Put
<1> HIDE DEF n
<1>3. n \in Nat /\ \A i \in 1 .. n : Put(value)[i] \in B BY DEF n
<1>4. [i \in 1 .. n |-> Put(value)[i]] \in Seq(B) BY <1>3
<1> QED BY <1>2, <1>4

LEMMA PiecesTyped == Pieces \in Seq(Seq(WireBytes)) /\ Len(Pieces) = Len(Packets)
<1> DEFINE P == [version : Nat, header : Nat, length : Nat, hops : Nat, summed : Nat]
           W == WireBytes
<1>1. Packets \in Seq(P) BY H2Assumption DEF H2Assumption
<1>2. Len(Packets) \in Nat /\ DOMAIN Packets = 1 .. Len(Packets)
  BY <1>1, LenProperties
<1>3. \A i \in 1 .. Len(Packets) : Packets[i] \in P BY <1>1, ElementOfSeq
<1>4. ASSUME NEW p \in P PROVE InCapsule(p) \in Seq(W)
  <2>1. CASE ~MayLeave(p)
    <3>1. InCapsule(p) = <<>> BY <2>1 DEF InCapsule
    <3> QED BY <3>1, EmptySeq
  <2>2. CASE MayLeave(p)
    <3> DEFINE q == DecrementHopLimit(p)
    <3>1. p.hops \in Nat /\ p.hops > 1 /\ p.version \in Nat BY <2>2 DEF MayLeave
    <3>2. q.version = p.version /\ q.hops = p.hops - 1 BY DEF DecrementHopLimit
    <3>3. q.version \in Nat /\ q.hops \in Nat BY <3>1, <3>2
    <3> HIDE DEF q
    <3>4. Nat \subseteq W BY DEF WireBytes
    <3>5. OnTheWire(q) \in Seq(W) /\ Len(OnTheWire(q)) = 2
      <4>1. OnTheWire(q) = <<q.version, q.hops>> BY DEF OnTheWire
      <4>2. q.version \in W /\ q.hops \in W BY <3>3, <3>4
      <4> HIDE DEF W
      <4> QED BY <4>1, <4>2
    <3>6. Put(DATAGRAM) \in Seq(W) /\ Put(2) \in Seq(W)
      <4>1. VarintLen(DATAGRAM) \in Nat /\ VarintLen(2) \in Nat BY DEF VarintLen, DATAGRAM
      <4>2. /\ \A i \in 1 .. VarintLen(DATAGRAM) : Put(DATAGRAM)[i] \in W
            /\ \A i \in 1 .. VarintLen(2) : Put(2)[i] \in W
        BY DEF WireBytes
      <4> HIDE DEF W
      <4> QED BY <4>1, <4>2, PutIsASeq
    <3>7. InCapsule(p) = Put(DATAGRAM) \o Put(2) \o OnTheWire(q)
      BY <2>2, <3>5 DEF InCapsule, Capsule, q
    <3> HIDE DEF W
    <3>8. Put(DATAGRAM) \o Put(2) \in Seq(W) BY <3>6, ConcatProperties
    <3>9. Put(DATAGRAM) \o Put(2) \o OnTheWire(q) \in Seq(W) BY <3>5, <3>8, ConcatProperties
    <3> QED BY <3>7, <3>9
  <2> QED BY <2>1, <2>2
<1> HIDE DEF P, W
<1>5. Pieces = [i \in 1 .. Len(Packets) |-> InCapsule(Packets[i])] BY <1>2 DEF Pieces
<1>6. \A i \in 1 .. Len(Packets) : InCapsule(Packets[i]) \in Seq(W) BY <1>3, <1>4
<1>7. Pieces \in Seq(Seq(W)) /\ Len(Pieces) = Len(Packets) BY <1>2, <1>5, <1>6
<1> QED BY <1>7 DEF W

LEMMA EncodedPart ==
  ASSUME NEW a \in 1 .. Len(Packets) + 1, NEW b \in a - 1 .. Len(Packets)
  PROVE  Encoded(SubSeq(Packets, a, b)) = FlattenSeq(SubSeq(Pieces, a, b))
<1> DEFINE P == [version : Nat, header : Nat, length : Nat, hops : Nat, summed : Nat]
           part == SubSeq(Packets, a, b)
           capsules == [i \in DOMAIN part |-> InCapsule(part[i])]
           n == b - a + 1
<1>1. Packets \in Seq(P) BY H2Assumption DEF H2Assumption
<1>2. Len(Packets) \in Nat /\ DOMAIN Packets = 1 .. Len(Packets) BY <1>1, LenProperties
<1>3. \A i \in 1 .. Len(Packets) : Packets[i] \in P BY <1>1, ElementOfSeq
<1> HIDE DEF P
<1>4. a \in Nat /\ b \in Int /\ 1 <= a /\ b <= Len(Packets) /\ n \in Nat BY <1>2
<1>5. \A i \in a .. b : i \in 1 .. Len(Packets) BY <1>2, <1>4
<1>6. (IF a <= b THEN b - a + 1 ELSE 0) = n BY <1>2, <1>4
<1>7. /\ part \in Seq(P) /\ Len(part) = n
      /\ \A i \in 1 .. n : part[i] = Packets[a + i - 1]
  <2>1. \A i \in a .. b : Packets[i] \in P BY <1>3, <1>5
  <2> QED BY <1>4, <1>6, <2>1, SubSeqProperties
<1>8. \A i \in 1 .. n : a + i - 1 \in a .. b BY <1>4
<1>9. /\ SubSeq(Pieces, a, b) \in Seq(Seq(WireBytes)) /\ Len(SubSeq(Pieces, a, b)) = n
      /\ \A i \in 1 .. n : SubSeq(Pieces, a, b)[i] = Pieces[a + i - 1]
  <2>1. \A i \in 1 .. Len(Packets) : Pieces[i] \in Seq(WireBytes) BY PiecesTyped, ElementOfSeq
  <2>2. \A i \in a .. b : Pieces[i] \in Seq(WireBytes) BY <1>5, <2>1
  <2> QED BY <1>4, <1>6, <2>2, SubSeqProperties
<1>10. DOMAIN part = 1 .. n BY <1>7, LenProperties
<1> HIDE DEF part, n
<1>11. \A i \in 1 .. n : capsules[i] = InCapsule(Packets[a + i - 1]) BY <1>7, <1>10
<1>12. \A i \in 1 .. n : Pieces[a + i - 1] = InCapsule(Packets[a + i - 1])
  BY <1>2, <1>5, <1>8 DEF Pieces
<1>13. capsules = SubSeq(Pieces, a, b)
  <2>1. DOMAIN SubSeq(Pieces, a, b) = 1 .. n BY <1>9, LenProperties
  <2>2. \A i \in 1 .. n : capsules[i] = SubSeq(Pieces, a, b)[i] BY <1>9, <1>11, <1>12
  <2>3. SubSeq(Pieces, a, b) = [i \in 1 .. n |-> SubSeq(Pieces, a, b)[i]]
    BY <1>9, <2>1, LenProperties
  <2>4. capsules = [i \in 1 .. n |-> capsules[i]] BY <1>10
  <2> HIDE DEF capsules
  <2> QED BY <2>2, <2>3, <2>4
<1>14. Encoded(part) = FlattenSeq(capsules) BY DEF Encoded
<1> QED BY <1>13, <1>14 DEF part

\* The packets up to one of them are what was sent and what waits for room, and the
\* packets after it are still to be handed over; a run is not begun on top of another.
GoneOut(k) ==
  /\ outgoing = SubSeq(Packets, k + 1, Len(Packets))
  /\ wire \o writing = Encoded(SubSeq(Packets, 1, k))

OutOK ==
  /\ staging = <<>>
  /\ wire \in Seq(WireBytes) /\ writing \in Seq(WireBytes)
  /\ \E k \in 0 .. Len(Packets) : GoneOut(k)

LEMMA PacketsAre ==
  /\ Len(Packets) \in Nat /\ DOMAIN Packets = 1 .. Len(Packets)
  /\ \E P : Packets \in Seq(P) /\ \A i \in 1 .. Len(Packets) : Packets[i] \in P
<1>1. PICK P : Packets \in Seq(P) BY H2Assumption DEF H2Assumption
<1>2. Len(Packets) \in Nat /\ DOMAIN Packets = 1 .. Len(Packets) BY <1>1, LenProperties
<1>3. \A i \in 1 .. Len(Packets) : Packets[i] \in P BY <1>1, ElementOfSeq
<1> QED BY <1>1, <1>2, <1>3

\* The n places of a sequence after the first a.
Within(s, a, n, S) == \A i \in 1 .. n : s[a + i] \in S

IsPart(part, s, a, n, S) ==
  /\ part \in Seq(S) /\ Len(part) = n
  /\ \A i \in 1 .. n : part[i] = s[a + i]

Alike(s, a, t, b, n) == \A i \in 1 .. n : s[a + i] = t[b + i]

LEMMA PartIs ==
  ASSUME NEW S, NEW s, NEW a \in Nat, NEW n \in Nat, Within(s, a, n, S)
  PROVE  \A b : b = a + n => IsPart(SubSeq(s, a + 1, b), s, a, n, S)
<1> TAKE b
<1> HAVE b = a + n
<1> DEFINE c == a + 1
           part == SubSeq(s, c, b)
<1>1. c \in Int /\ b \in Int /\ b - c + 1 = n /\ (c <= b <=> n # 0) OBVIOUS
<1>2. \A i \in c .. b : i - a \in 1 .. n /\ a + (i - a) = i OBVIOUS
<1>3. \A i \in c .. b : s[i] \in S BY <1>2 DEF Within
<1>4. \A i \in 1 .. n : c + i - 1 = a + i OBVIOUS
<1> HIDE DEF c
<1>5. /\ part \in Seq(S) /\ Len(part) = IF c <= b THEN b - c + 1 ELSE 0
      /\ \A i \in 1 .. b - c + 1 : part[i] = s[c + i - 1]
  BY <1>1, <1>3, SubSeqProperties
<1> HIDE DEF part
<1>6. Len(part) = n BY <1>1, <1>5
<1>7. \A i \in 1 .. n : part[i] = s[a + i] BY <1>1, <1>4, <1>5
<1>8. IsPart(part, s, a, n, S) BY <1>5, <1>6, <1>7 DEF IsPart
<1> QED BY <1>8 DEF part, c

LEMMA SameParts ==
  ASSUME NEW S, NEW n, NEW s, NEW a, NEW t, NEW b, NEW here, NEW there,
         IsPart(here, s, a, n, S), IsPart(there, t, b, n, S),
         Alike(s, a, t, b, n)
  PROVE  here = there
<1>1. /\ here \in Seq(S) /\ there \in Seq(S) /\ Len(here) = n /\ Len(there) = n
      /\ \A i \in 1 .. n : here[i] = there[i]
  BY DEF IsPart, Alike
<1> QED BY <1>1, SeqEqual

\* A run is the next packets, and what is left begins after it.
LEMMA RunIsNext ==
  ASSUME NEW k \in 0 .. Len(Packets), NEW n \in Nat,
         outgoing = SubSeq(Packets, k + 1, Len(Packets)), n <= Len(outgoing)
  PROVE  /\ Len(outgoing) = Len(Packets) - k /\ k + n \in k .. Len(Packets)
         /\ SubSeq(outgoing, 1, n) = SubSeq(Packets, k + 1, k + n)
         /\ Advance(outgoing, n) = SubSeq(Packets, (k + n) + 1, Len(Packets))
<1> DEFINE N == Len(Packets)
           l == N - k
           m == l - n
<1>1. N \in Nat BY PacketsAre
<1>2. PICK P : \A i \in 1 .. N : Packets[i] \in P BY PacketsAre
<1>3. k \in Nat /\ k <= N /\ outgoing = SubSeq(Packets, k + 1, N) BY <1>1
<1> HIDE DEF N
<1>4. l \in Nat /\ N = k + l /\ \A i \in 1 .. l : k + i \in 1 .. N BY <1>1, <1>3
<1>5. \A i \in 1 .. l : Packets[k + i] \in P BY <1>2, <1>4
<1> HIDE DEF l
<1>6. IsPart(outgoing, Packets, k, l, P)
  <2>1. Within(Packets, k, l, P) BY <1>5 DEF Within
  <2>2. \A b : b = k + l => IsPart(SubSeq(Packets, k + 1, b), Packets, k, l, P)
    BY <1>3, <1>4, <2>1, PartIs
  <2> QED BY <1>3, <1>4, <2>2
<1>7. Len(outgoing) = l /\ \A i \in 1 .. l : outgoing[i] = Packets[k + i] BY <1>6 DEF IsPart
<1>8. n <= l /\ m \in Nat /\ l = n + m /\ N = (k + n) + m /\ k + n \in Nat
  <2>1. n <= l BY <1>7
  <2>2. m \in Nat /\ l = n + m BY <1>4, <2>1
  <2> HIDE DEF m
  <2>3. N = (k + n) + m BY <1>3, <1>4, <2>2
  <2> QED BY <1>3, <2>1, <2>2, <2>3
<1> HIDE DEF m
<1>9. SubSeq(outgoing, 1, n) = SubSeq(Packets, k + 1, k + n)
  <2>1. \A i \in 1 .. n : i \in 1 .. l /\ 0 + i = i BY <1>4, <1>8
  <2>2. \A i \in 1 .. n : outgoing[0 + i] = Packets[k + i] /\ Packets[k + i] \in P
    BY <1>5, <1>7, <2>1
  <2>3. Within(outgoing, 0, n, P) /\ Within(Packets, k, n, P) BY <2>2 DEF Within
  <2>4. \A b : b = 0 + n => IsPart(SubSeq(outgoing, 0 + 1, b), outgoing, 0, n, P)
    BY <2>3, PartIs
  <2>5. \A b : b = k + n => IsPart(SubSeq(Packets, k + 1, b), Packets, k, n, P)
    BY <1>3, <2>3, PartIs
  <2>6. n = 0 + n /\ 0 + 1 = 1 OBVIOUS
  <2>7. IsPart(SubSeq(outgoing, 1, n), outgoing, 0, n, P) BY <2>4, <2>6
  <2>8. IsPart(SubSeq(Packets, k + 1, k + n), Packets, k, n, P) BY <2>5
  <2>9. Alike(outgoing, 0, Packets, k, n) BY <2>2 DEF Alike
  <2> QED BY <2>7, <2>8, <2>9, SameParts
<1>10. Advance(outgoing, n) = SubSeq(Packets, (k + n) + 1, N)
  <2>1. \A i \in 1 .. m : n + i \in 1 .. l /\ (k + n) + i = k + (n + i) BY <1>3, <1>4, <1>8
  <2>2. \A i \in 1 .. m : outgoing[n + i] = Packets[(k + n) + i] /\ Packets[(k + n) + i] \in P
    BY <1>5, <1>7, <2>1
  <2>3. Within(outgoing, n, m, P) /\ Within(Packets, k + n, m, P) BY <2>2 DEF Within
  <2>4. \A b : b = n + m => IsPart(SubSeq(outgoing, n + 1, b), outgoing, n, m, P)
    BY <1>8, <2>3, PartIs
  <2>5. \A b : b = (k + n) + m
          => IsPart(SubSeq(Packets, (k + n) + 1, b), Packets, k + n, m, P)
    BY <1>8, <2>3, PartIs
  <2>6. IsPart(SubSeq(outgoing, n + 1, l), outgoing, n, m, P) BY <1>8, <2>4
  <2>7. IsPart(SubSeq(Packets, (k + n) + 1, N), Packets, k + n, m, P) BY <1>8, <2>5
  <2>8. SubSeq(outgoing, n + 1, l) = SubSeq(Packets, (k + n) + 1, N)
    <3>1. Alike(outgoing, n, Packets, k + n, m) BY <2>2 DEF Alike
    <3> QED BY <2>6, <2>7, <3>1, SameParts
  <2> QED BY <1>7, <2>8 DEF Advance
<1>11. k + n \in k .. N BY <1>1, <1>3, <1>4, <1>8
<1> QED BY <1>7, <1>9, <1>10, <1>11 DEF N, l

LEMMA StageKeepsOut ==
  ASSUME OutOK, NEW n \in 1 .. MaxRun, Stage(n)
  PROVE  OutOK'
<1>1. /\ n <= Len(outgoing) /\ writing = <<>> /\ wire' = wire /\ n \in Nat
      /\ writing' = staging \o Encoded(SubSeq(outgoing, 1, n))
      /\ staging' = <<>> /\ outgoing' = Advance(outgoing, n)
  <2>1. MaxRun \in Nat BY H2Assumption DEF H2Assumption
  <2>2. n \in Nat BY <2>1
  <2> QED BY <2>2 DEF Stage, LeftStaging
<1>2. PICK k \in 0 .. Len(Packets) : GoneOut(k) BY DEF OutOK
<1>3. outgoing = SubSeq(Packets, k + 1, Len(Packets)) BY <1>2 DEF GoneOut
<1>4. /\ k + n \in k .. Len(Packets)
      /\ SubSeq(outgoing, 1, n) = SubSeq(Packets, k + 1, k + n)
      /\ Advance(outgoing, n) = SubSeq(Packets, (k + n) + 1, Len(Packets))
  BY <1>1, <1>3, RunIsNext
<1> DEFINE B == WireBytes
           before == Encoded(SubSeq(Packets, 1, k))
           run == Encoded(SubSeq(Packets, k + 1, k + n))
           after == Encoded(SubSeq(Packets, 1, k + n))
<1>5. /\ Len(Packets) \in Nat /\ k \in Nat /\ k + n \in Nat
      /\ 1 \in 1 .. Len(Packets) + 1 /\ k + 1 \in 1 .. Len(Packets) + 1
      /\ k \in 1 - 1 .. Len(Packets) /\ k + n \in 1 - 1 .. Len(Packets)
      /\ k + n \in (k + 1) - 1 .. Len(Packets)
  BY <1>1, <1>4, PacketsAre
<1>6. /\ before = FlattenSeq(SubSeq(Pieces, 1, k))
      /\ run = FlattenSeq(SubSeq(Pieces, k + 1, k + n))
      /\ after = FlattenSeq(SubSeq(Pieces, 1, k + n))
  BY <1>5, EncodedPart
<1> HIDE DEF before, run, after, B
<1>7. Pieces \in Seq(Seq(B)) /\ Len(Pieces) = Len(Packets) BY PiecesTyped DEF B
<1>8. before \o run = after BY <1>4, <1>6, <1>7, FlattenInTwo
<1>9. run \in Seq(B) BY <1>5, <1>6, <1>7, FlattenTyped
<1>10. writing' = run
  <2>1. staging = <<>> /\ writing' = staging \o run BY <1>1, <1>4 DEF OutOK, run
  <2>2. <<>> \o run = run BY <1>9, ConcatEmptySeq
  <2> QED BY <2>1, <2>2
<1>11. wire \in Seq(B) /\ wire = before
  <2>1. wire \in Seq(B) /\ wire \o <<>> = before BY <1>1, <1>2 DEF OutOK, GoneOut, before, B
  <2>2. wire \o <<>> = wire BY <2>1, ConcatEmptySeq
  <2> QED BY <2>1, <2>2
<1>12. wire' \o writing' = after BY <1>1, <1>8, <1>10, <1>11
<1>13. GoneOut(k + n)' BY <1>1, <1>4, <1>12 DEF GoneOut, after
<1>14. k + n \in 0 .. Len(Packets) BY <1>5
<1>15. \E j \in 0 .. Len(Packets) : GoneOut(j)' BY <1>13, <1>14
<1> QED BY <1>1, <1>9, <1>10, <1>11, <1>15 DEF OutOK, B

LEMMA SendKeepsOut ==
  ASSUME OutOK, SendData
  PROVE  OutOK'
<1>1. wire' = wire \o writing /\ writing' = <<>> /\ UNCHANGED <<outgoing, staging>>
  BY DEF SendData
<1> DEFINE B == WireBytes
<1>2. wire \in Seq(B) /\ writing \in Seq(B) /\ staging = <<>> BY DEF OutOK
<1>3. PICK k \in 0 .. Len(Packets) : GoneOut(k) BY DEF OutOK
<1> HIDE DEF B
<1>4. wire' \in Seq(B) /\ writing' \in Seq(B) BY <1>1, <1>2, ConcatProperties, EmptySeq
<1>5. wire' \o writing' = wire \o writing BY <1>1, <1>4, ConcatEmptySeq
<1>6. GoneOut(k)' BY <1>1, <1>3, <1>5 DEF GoneOut
<1>7. \E j \in 0 .. Len(Packets) : GoneOut(j)' BY <1>6
<1> QED BY <1>1, <1>2, <1>4, <1>7 DEF OutOK, B

LEMMA OutElsewhere ==
  ASSUME OutOK, UNCHANGED <<outgoing, staging, writing, wire>>
  PROVE  OutOK'
<1>1. PICK k \in 0 .. Len(Packets) : GoneOut(k) BY DEF OutOK
<1>2. GoneOut(k)' BY <1>1 DEF GoneOut
<1>3. \E j \in 0 .. Len(Packets) : GoneOut(j)' BY <1>2
<1> QED BY <1>3 DEF OutOK

LEMMA StepKeepsOut ==
  ASSUME OutOK, [H2Next]_h2Vars
  PROVE  OutOK'
<1>1. ASSUME NEW n \in 1 .. MaxRun, Stage(n) PROVE OutOK' BY <1>1, StageKeepsOut
<1>2. CASE SendData BY <1>2, SendKeepsOut
<1>3. CASE Grant \/ SendFails
  <2>1. UNCHANGED <<outgoing, staging, writing, wire>>
    BY <1>3 DEF Grant, SendFails, outVars
  <2> QED BY <2>1, OutElsewhere
<1>4. CASE DialNext
  <2>1. UNCHANGED <<outgoing, staging, writing, wire>>
    BY <1>4 DEF DialNext, TcpUp, TlsUp, Http2Up, Accepted, DialFails, DialOn, HeldBack,
                WriteHello, outVars
  <2> QED BY <2>1, OutElsewhere
<1>5. CASE InNext
  <2>1. UNCHANGED <<outgoing, staging, writing, wire>>
    BY <1>5 DEF InNext, TakeOne, ReadChunk, ReadEnds, SendPing, Pong, Fed, Feed, outVars
  <2> QED BY <2>1, OutElsewhere
<1>6. CASE UNCHANGED h2Vars
  <2>1. UNCHANGED <<outgoing, staging, writing, wire>> BY <1>6 DEF h2Vars, outVars
  <2> QED BY <2>1, OutElsewhere
<1> QED BY <1>1, <1>2, <1>3, <1>4, <1>5, <1>6 DEF H2Next, OutNext

\* In whatever runs the packets are handed over, and however room is granted for them,
\* what is sent and what waits are the capsules of each packet so far, in order, once.
THEOREM SentOnceInOrder == H2Spec => []PacketsGoOutOnce
<1>1. H2Init => OutOK
  <2> SUFFICES ASSUME H2Init PROVE OutOK OBVIOUS
  <2>1. outgoing = Packets /\ staging = <<>> /\ writing = <<>> /\ wire = <<>> BY DEF H2Init
  <2>2. Len(Packets) \in Nat /\ \E P : Packets \in Seq(P) BY PacketsAre
  <2>3. SubSeq(Packets, 1, 0) = <<>> BY SubSeqEmpty
  <2>4. Encoded(<<>>) = <<>>
    <3>1. 1 \in 1 .. Len(Packets) + 1 /\ 0 \in 1 - 1 .. Len(Packets) BY <2>2
    <3>2. Encoded(SubSeq(Packets, 1, 0)) = FlattenSeq(SubSeq(Pieces, 1, 0))
      BY <3>1, EncodedPart
    <3>3. SubSeq(Pieces, 1, 0) = <<>> BY SubSeqEmpty
    <3> QED BY <2>3, <3>2, <3>3, FlattenOfNone
  <2>5. <<>> \in Seq(WireBytes) BY EmptySeq
  <2>6. <<>> \o <<>> = <<>> BY <2>5, ConcatEmptySeq
  <2>7. SubSeq(Packets, 1, Len(Packets)) = Packets BY <2>2, SubSeqFull
  <2>8. GoneOut(0)
    <3>1. 0 + 1 = 1 OBVIOUS
    <3>2. SubSeq(Packets, 0 + 1, Len(Packets)) = Packets BY <2>7, <3>1
    <3> QED BY <2>1, <2>3, <2>4, <2>6, <3>2 DEF GoneOut
  <2>9. 0 \in 0 .. Len(Packets) BY <2>2
  <2> QED BY <2>1, <2>5, <2>8, <2>9 DEF OutOK
<1>2. OutOK /\ [H2Next]_h2Vars => OutOK' BY StepKeepsOut
<1>3. OutOK => PacketsGoOutOnce
  <2> SUFFICES ASSUME OutOK PROVE PacketsGoOutOnce OBVIOUS
  <2>1. PICK k \in 0 .. Len(Packets) : GoneOut(k) BY DEF OutOK
  <2>2. outgoing = SubSeq(Packets, k + 1, Len(Packets)) BY <2>1 DEF GoneOut
  <2>3. Len(Packets) \in Nat BY PacketsAre
  <2>4. Len(outgoing) \in Nat /\ Len(outgoing) = Len(Packets) - k
    <3>1. 0 <= Len(outgoing)
      <4>1. PICK P : Packets \in Seq(P) /\ \A i \in 1 .. Len(Packets) : Packets[i] \in P
        BY PacketsAre
      <4>2. \A i \in k + 1 .. Len(Packets) : Packets[i] \in P BY <2>3, <4>1
      <4>3. outgoing \in Seq(P) BY <2>2, <2>3, <4>2, SubSeqProperties
      <4>4. Len(outgoing) \in Nat BY <4>3, LenProperties
      <4> QED BY <4>4
    <3>2. Len(outgoing) = Len(Packets) - k BY <2>2, <3>1, RunIsNext
    <3> QED BY <2>3, <3>2
  <2>5. Len(Packets) - Len(outgoing) = k BY <2>3, <2>4
  <2> QED BY <2>1, <2>5 DEF GoneOut, PacketsGoOutOnce
<1> QED BY <1>1, <1>2, <1>3, PTL DEF H2Spec

-----------------------------------------------------------------------------
(* Integers: what is put is got, once it has all arrived.                   *)

\* What get's loop makes of the first i bytes.
Reads(it, bytes, i) == IF i = 1 THEN bytes[1] % 64 ELSE it[i - 1] * 256 + bytes[i]

IsRead(it, bytes, n) == it = [i \in 1 .. n |-> Reads(it, bytes, i)]

LEMMA ReadExists ==
  ASSUME NEW bytes, NEW n \in Nat
  PROVE  IsRead(CHOOSE it : IsRead(it, bytes, n), bytes, n)
<1> DEFINE Holds(it, m) ==
             /\ it = [i \in 1 .. n |-> it[i]]
             /\ \A i \in 1 .. n : i <= m => it[i] = Reads(it, bytes, i)
           Good == {m \in Nat : \E it : Holds(it, m)}
<1>1. 0 \in Good
  <2> DEFINE it == [i \in 1 .. n |-> 0]
  <2>1. it = [i \in 1 .. n |-> it[i]] OBVIOUS
  <2>2. \A i \in 1 .. n : ~(i <= 0) OBVIOUS
  <2>3. Holds(it, 0) BY <2>1, <2>2
  <2> QED BY <2>3
<1>2. ASSUME NEW m \in Nat, m \in Good PROVE m + 1 \in Good
  <2>1. PICK it : Holds(it, m) BY <1>2
  <2> DEFINE next == [i \in 1 .. n |-> Reads(it, bytes, i)]
  <2>2. \A i \in 1 .. n : i <= m => next[i] = it[i] BY <2>1
  <2>3. ASSUME NEW i \in 1 .. n, i <= m + 1 PROVE next[i] = Reads(next, bytes, i)
    <3>1. CASE i = 1 BY <3>1 DEF Reads
    <3>2. CASE i # 1
      <4>1. i - 1 \in 1 .. n /\ i - 1 <= m BY <2>3, <3>2
      <4>2. next[i - 1] = it[i - 1] BY <2>2, <4>1
      <4>3. next[i] = it[i - 1] * 256 + bytes[i] BY <3>2 DEF Reads
      <4> HIDE DEF next
      <4> QED BY <3>2, <4>2, <4>3 DEF Reads
    <3> QED BY <3>1, <3>2
  <2>4. next = [i \in 1 .. n |-> next[i]] OBVIOUS
  <2> HIDE DEF next
  <2>5. Holds(next, m + 1) BY <2>3, <2>4
  <2> HIDE DEF Holds
  <2>6. \E jt : Holds(jt, m + 1) BY <2>5
  <2> QED BY <2>6
<1>3. n \in Good
  <2> HIDE DEF Good
  <2>1. \A m \in Nat : m \in Good BY <1>1, <1>2, CountingUp
  <2> QED BY <2>1
<1>4. PICK it : Holds(it, n) BY <1>3
<1>5. \A i \in 1 .. n : it[i] = Reads(it, bytes, i) BY <1>4
<1>6. it = [i \in 1 .. n |-> Reads(it, bytes, i)] BY <1>4, <1>5
<1>7. IsRead(it, bytes, n) BY <1>6 DEF IsRead
<1> QED BY <1>7

LEMMA GetIs ==
  ASSUME NEW bytes, bytes # <<>>, NEW n, n = 2 ^ (bytes[1] \div 64)
  PROVE  Get(bytes) = IF Len(bytes) < n THEN NotWhole
                      ELSE [value |-> (CHOOSE it : IsRead(it, bytes, n))[n], used |-> n]
BY DEF Get, IsRead, Reads

LEMMA PrefixIs == Prefix(1) = 0 /\ Prefix(2) = 64 /\ Prefix(4) = 128 /\ Prefix(8) = 192
<1>1. 2 ^ 0 = 1 /\ 2 ^ 1 = 2 /\ 2 ^ 2 = 4 /\ 2 ^ 3 = 8 BY SMT
<1>2. \A k \in 0 .. 3 : k = 0 \/ k = 1 \/ k = 2 \/ k = 3 BY SMT
<1>3. (CHOOSE k \in 0 .. 3 : 2 ^ k = 1) = 0 BY <1>1, <1>2, SMT
<1>4. (CHOOSE k \in 0 .. 3 : 2 ^ k = 2) = 1 BY <1>1, <1>2, SMT
<1>5. (CHOOSE k \in 0 .. 3 : 2 ^ k = 4) = 2 BY <1>1, <1>2, SMT
<1>6. (CHOOSE k \in 0 .. 3 : 2 ^ k = 8) = 3 BY <1>1, <1>2, SMT
<1>7. /\ Prefix(1) = 64 * (CHOOSE k \in 0 .. 3 : 2 ^ k = 1)
      /\ Prefix(2) = 64 * (CHOOSE k \in 0 .. 3 : 2 ^ k = 2)
      /\ Prefix(4) = 64 * (CHOOSE k \in 0 .. 3 : 2 ^ k = 4)
      /\ Prefix(8) = 64 * (CHOOSE k \in 0 .. 3 : 2 ^ k = 8)
  BY DEF Prefix
<1>8. Prefix(1) = 64 * 0 /\ Prefix(2) = 64 * 1 /\ Prefix(4) = 64 * 2 /\ Prefix(8) = 64 * 3
  BY <1>3, <1>4, <1>5, <1>6, <1>7
<1> QED BY <1>8, SMT

\* The bytes put, by how many there are.
LEMMA LengthIs ==
  ASSUME NEW value \in Nat
  PROVE  /\ VarintLen(value) \in {1, 2, 4, 8}
         /\ VarintLen(value) = 1 => value < 64
         /\ VarintLen(value) = 2 => value < 16384
         /\ VarintLen(value) = 4 => value < 1073741824
BY SMT DEF VarintLen

LEMMA FitsIs ==
  ASSUME NEW value \in Nat, Fits(value), NEW a, a = value \div 256, NEW b, b = a \div 256,
         NEW c, c = b \div 256, NEW d, d = c \div 256
  PROVE  d < 1073741824
<1>1. /\ a \in Nat /\ b \in Nat /\ c \in Nat /\ d \in Nat BY SMT
<1>2. b = value \div 65536 BY <1>1, SMT
<1>3. c = value \div 16777216 BY <1>1, <1>2, SMT
<1>4. d = (value \div 1073741824) \div 4 BY <1>1, <1>3, SMT
<1> QED BY <1>4, SMT DEF Fits

\* What put's value comes to, shifted by k bytes.
Shifts(it, value, k) == IF k = 0 THEN value ELSE it[k - 1] \div 256

IsShift(it, value, n) == it = [k \in 0 .. n - 1 |-> Shifts(it, value, k)]

LEMMA ShiftExists ==
  ASSUME NEW value, NEW n \in Nat
  PROVE  IsShift(CHOOSE it : IsShift(it, value, n), value, n)
<1> DEFINE Holds(it, m) ==
             /\ it = [k \in 0 .. n - 1 |-> it[k]]
             /\ \A k \in 0 .. n - 1 : k < m => it[k] = Shifts(it, value, k)
           Good == {m \in Nat : \E it : Holds(it, m)}
<1>1. 0 \in Good
  <2> DEFINE it == [k \in 0 .. n - 1 |-> 0]
  <2>1. it = [k \in 0 .. n - 1 |-> it[k]] OBVIOUS
  <2>2. \A k \in 0 .. n - 1 : ~(k < 0) OBVIOUS
  <2>3. Holds(it, 0) BY <2>1, <2>2
  <2> QED BY <2>3
<1>2. ASSUME NEW m \in Nat, m \in Good PROVE m + 1 \in Good
  <2>1. PICK it : Holds(it, m) BY <1>2
  <2> DEFINE next == [k \in 0 .. n - 1 |-> Shifts(it, value, k)]
  <2>2. \A k \in 0 .. n - 1 : k < m => next[k] = it[k] BY <2>1
  <2>3. ASSUME NEW k \in 0 .. n - 1, k < m + 1 PROVE next[k] = Shifts(next, value, k)
    <3>1. CASE k = 0 BY <3>1 DEF Shifts
    <3>2. CASE k # 0
      <4>1. k - 1 \in 0 .. n - 1 /\ k - 1 < m BY <2>3, <3>2
      <4>2. next[k - 1] = it[k - 1] BY <2>2, <4>1
      <4>3. next[k] = it[k - 1] \div 256 BY <3>2 DEF Shifts
      <4> HIDE DEF next
      <4> QED BY <3>2, <4>2, <4>3 DEF Shifts
    <3> QED BY <3>1, <3>2
  <2>4. next = [k \in 0 .. n - 1 |-> next[k]] OBVIOUS
  <2> HIDE DEF next
  <2>5. Holds(next, m + 1) BY <2>3, <2>4
  <2> HIDE DEF Holds
  <2>6. \E jt : Holds(jt, m + 1) BY <2>5
  <2> QED BY <2>6
<1>3. n \in Good
  <2> HIDE DEF Good
  <2>1. \A m \in Nat : m \in Good BY <1>1, <1>2, CountingUp
  <2> QED BY <2>1
<1>4. PICK it : Holds(it, n) BY <1>3
<1>5. \A k \in 0 .. n - 1 : it[k] = Shifts(it, value, k) BY <1>4
<1>6. it = [k \in 0 .. n - 1 |-> Shifts(it, value, k)] BY <1>4, <1>5
<1>7. IsShift(it, value, n) BY <1>6 DEF IsShift
<1> QED BY <1>7

Shifted(value) == CHOOSE it : IsShift(it, value, VarintLen(value))

\* The bytes put are digits, the highest first.
LEMMA PutIs ==
  ASSUME NEW value, NEW i \in 1 .. VarintLen(value)
  PROVE  Put(value)[i] = (Shifted(value)[VarintLen(value) - i] % 256)
                           + (IF i = 1 THEN Prefix(VarintLen(value)) ELSE 0)
BY DEF Put, Shifted, IsShift, Shifts

LEMMA ShiftedIs ==
  ASSUME NEW value \in Nat
  PROVE  /\ Shifted(value)[0] = value
         /\ \A k \in 1 .. VarintLen(value) - 1 :
              Shifted(value)[k] = Shifted(value)[k - 1] \div 256
         /\ \A k \in 0 .. VarintLen(value) - 1 : Shifted(value)[k] \in Nat
<1> DEFINE n == VarintLen(value)
           it == Shifted(value)
           Good == {k \in Nat : k <= n - 1 => it[k] \in Nat}
<1>1. n \in Nat /\ n >= 1 BY LengthIs, SMT
<1>2. IsShift(it, value, n) BY <1>1, ShiftExists DEF Shifted
<1> HIDE DEF n, it
<1>3. it[0] = value /\ \A k \in 1 .. n - 1 : it[k] = it[k - 1] \div 256
  BY <1>1, <1>2 DEF IsShift, Shifts
<1>4. 0 \in Good BY <1>3
<1>5. ASSUME NEW k \in Nat, k \in Good PROVE k + 1 \in Good
  <2> SUFFICES ASSUME k + 1 <= n - 1 PROVE it[k + 1] \in Nat OBVIOUS
  <2>1. k + 1 \in 1 .. n - 1 /\ (k + 1) - 1 = k /\ it[k] \in Nat BY <1>1, <1>5
  <2>2. it[k + 1] = it[k] \div 256 BY <1>3, <2>1
  <2> QED BY <2>1, <2>2
<1> HIDE DEF Good
<1>6. \A k \in Nat : k \in Good BY <1>4, <1>5, CountingUp
<1>7. \A k \in 0 .. n - 1 : it[k] \in Nat BY <1>1, <1>6 DEF Good
<1> QED BY <1>3, <1>7 DEF n, it

LEMMA Lower ==
  ASSUME NEW a \in Nat, NEW m \in Nat, a < 256 * m
  PROVE  a \div 256 \in Nat /\ a \div 256 < m
BY SMT

\* The highest digit leaves room for what says how many there are.
LEMMA HighestIs ==
  ASSUME NEW value \in Nat, Fits(value)
  PROVE  Shifted(value)[VarintLen(value) - 1] \in 0 .. 63
<1> DEFINE Below(k, m) == Shifted(value)[k] \in Nat /\ Shifted(value)[k] < m
           n == VarintLen(value)
<1>1. ASSUME NEW k \in Nat, k + 1 <= n - 1, NEW m \in Nat, Below(k, 256 * m)
      PROVE  Below(k + 1, m)
  <2>1. k + 1 \in 1 .. n - 1 /\ (k + 1) - 1 = k BY <1>1, LengthIs, SMT
  <2>2. Shifted(value)[k + 1] = Shifted(value)[k] \div 256 BY <2>1, ShiftedIs, SMT
  <2> QED BY <1>1, <2>2, Lower, SMT
<1>2. \A k \in 1 .. n - 1 : Shifted(value)[k] = Shifted(value)[k - 1] \div 256
  BY ShiftedIs, SMT
<1>3. Shifted(value)[0] = value BY ShiftedIs, SMT
<1>4. n \in {1, 2, 4, 8} BY LengthIs, SMT
<1>5. CASE n = 1
  <2>1. value < 64 BY <1>5, LengthIs, SMT
  <2> QED BY <1>3, <1>5, <2>1, SMT
<1>6. CASE n = 2
  <2>1. Below(0, 256 * 64) BY <1>3, <1>6, LengthIs, SMT
  <2> HIDE DEF Below, n
  <2>2. Below(0 + 1, 64) BY <1>1, <1>6, <2>1, SMT
  <2> QED BY <1>6, <2>2, SMT DEF Below, n
<1>7. CASE n = 4
  <2>1. Below(0, 256 * 4194304) BY <1>3, <1>7, LengthIs, SMT
  <2> HIDE DEF Below, n
  <2>2. Below(1, 256 * 16384)
    <3>1. Below(0 + 1, 4194304) BY <1>1, <1>7, <2>1, SMT
    <3> QED BY <3>1, SMT
  <2>3. Below(2, 256 * 64)
    <3>1. Below(1 + 1, 16384) BY <1>1, <1>7, <2>2, SMT
    <3> QED BY <3>1, SMT
  <2>4. Below(2 + 1, 64) BY <1>1, <1>7, <2>3, SMT
  <2> QED BY <1>7, <2>4, SMT DEF Below, n
<1>8. CASE n = 8
  <2>1. /\ Shifted(value)[1] = Shifted(value)[0] \div 256
        /\ Shifted(value)[2] = Shifted(value)[1] \div 256
        /\ Shifted(value)[3] = Shifted(value)[2] \div 256
        /\ Shifted(value)[4] = Shifted(value)[3] \div 256
    <3>1. \A k \in 1 .. 4 : k \in 1 .. n - 1 BY <1>8, SMT
    <3>2. \A k \in 1 .. 4 : Shifted(value)[k] = Shifted(value)[k - 1] \div 256 BY <1>2, <3>1, SMT
    <3> QED BY <3>2, SMT
  <2>2. Shifted(value)[4] < 1073741824 BY <1>3, <2>1, FitsIs, SMT
  <2>3. Shifted(value)[4] \in Nat
    <3>1. 4 \in 0 .. n - 1 BY <1>8, SMT
    <3> QED BY <3>1, ShiftedIs, SMT
  <2>4. Below(4, 256 * 4194304) BY <2>2, <2>3, SMT
  <2> HIDE DEF Below, n
  <2>5. Below(4 + 1, 4194304) BY <1>1, <1>8, <2>4, SMT
  <2>6. Below(5, 256 * 16384) BY <2>5, SMT
  <2>7. Below(6, 256 * 64)
    <3>1. Below(5 + 1, 16384) BY <1>1, <1>8, <2>6, SMT
    <3> QED BY <3>1, SMT
  <2>8. Below(6 + 1, 64) BY <1>1, <1>8, <2>7, SMT
  <2> QED BY <1>8, <2>8, SMT DEF Below, n
<1> QED BY <1>4, <1>5, <1>6, <1>7, <1>8, SMT

LEMMA TwoTo ==
  ASSUME NEW k
  PROVE  /\ k = 0 => 2 ^ k = 1
         /\ k = 1 => 2 ^ k = 2
         /\ k = 2 => 2 ^ k = 4
         /\ k = 3 => 2 ^ k = 8
<1>1. 2 ^ 0 = 1 /\ 2 ^ 1 = 2 /\ 2 ^ 2 = 4 /\ 2 ^ 3 = 8 BY SMT
<1> QED BY <1>1, Zenon

\* The first byte says how many there are, and below that the highest digit.
LEMMA FirstByte ==
  ASSUME NEW value \in Nat, Fits(value)
  PROVE  /\ 2 ^ (Put(value)[1] \div 64) = VarintLen(value)
         /\ Put(value)[1] % 64 = Shifted(value)[VarintLen(value) - 1]
<1> DEFINE n == VarintLen(value)
           top == Shifted(value)[n - 1]
           k == Put(value)[1] \div 64
<1>1. n \in {1, 2, 4, 8} BY LengthIs
<1>2. top \in 0 .. 63 BY HighestIs
<1>3. Put(value)[1] = (top % 256) + Prefix(n)
  <2>1. 1 \in 1 .. n BY <1>1
  <2> QED BY <2>1, PutIs
<1> HIDE DEF n, top
<1>4. Prefix(n) = IF n = 1 THEN 0 ELSE IF n = 2 THEN 64 ELSE IF n = 4 THEN 128 ELSE 192
  <2>1. CASE n = 1 BY <2>1, PrefixIs
  <2>2. CASE n = 2 BY <2>2, PrefixIs
  <2>3. CASE n = 4 BY <2>3, PrefixIs
  <2>4. CASE n = 8 BY <2>4, PrefixIs
  <2> QED BY <1>1, <2>1, <2>2, <2>3, <2>4
<1>5. Put(value)[1] = top + Prefix(n)
  <2>1. top % 256 = top BY <1>2
  <2> QED BY <1>3, <2>1
<1>6. k = IF n = 1 THEN 0 ELSE IF n = 2 THEN 1 ELSE IF n = 4 THEN 2 ELSE 3
  BY <1>2, <1>4, <1>5
<1>7. Put(value)[1] % 64 = top BY <1>2, <1>4, <1>5
<1>8. 2 ^ k = n
  <2> HIDE DEF k
  <2> QED BY <1>1, <1>6, TwoTo
<1> QED BY <1>7, <1>8 DEF n, top

Agrees(bytes, value) ==
  \A i \in 1 .. Len(bytes) : i <= VarintLen(value) => bytes[i] = Put(value)[i]

IsPut(bytes, value) == \A i \in 1 .. VarintLen(value) : bytes[i] = Put(value)[i]

\* Each byte brings in the next digit.
LEMMA ReadBack ==
  ASSUME NEW value \in Nat, Fits(value), NEW bytes, IsPut(bytes, value)
  PROVE  (CHOOSE it : IsRead(it, bytes, VarintLen(value)))[VarintLen(value)] = value
<1> DEFINE n == VarintLen(value)
           it == CHOOSE it : IsRead(it, bytes, n)
           at == Shifted(value)
           Good == {m \in Nat : m + 1 <= n => it[m + 1] = at[n - (m + 1)]}
<1>1. n \in Nat /\ n >= 1 BY LengthIs
<1>2. IsRead(it, bytes, n) BY <1>1, ReadExists
<1>3. /\ at[0] = value
      /\ \A k \in 1 .. n - 1 : at[k] = at[k - 1] \div 256
      /\ \A k \in 0 .. n - 1 : at[k] \in Nat
  BY ShiftedIs
<1>4. \A i \in 1 .. n : bytes[i] = Put(value)[i] BY DEF IsPut
<1>5. Put(value)[1] % 64 = at[n - 1] BY FirstByte
<1>6. \A i \in 2 .. n : Put(value)[i] = at[n - i] % 256
  <2>1. ASSUME NEW i \in 2 .. n PROVE Put(value)[i] = at[n - i] % 256
    <3>1. i \in 1 .. n /\ i # 1 /\ n - i \in 0 .. n - 1 BY <1>1
    <3>2. Put(value)[i] = (at[n - i] % 256) + 0 BY <3>1, PutIs
    <3>3. at[n - i] \in Nat BY <1>3, <3>1
    <3> QED BY <3>2, <3>3
  <2> QED BY <2>1
<1> HIDE DEF n, it, at
<1>7. \A i \in 1 .. n : it[i] = Reads(it, bytes, i) BY <1>2 DEF IsRead
<1>8. 0 \in Good
  <2>1. it[1] = bytes[1] % 64 /\ bytes[1] = Put(value)[1]
    <3>1. 1 \in 1 .. n BY <1>1
    <3> QED BY <1>4, <1>7, <3>1 DEF Reads
  <2> QED BY <1>5, <2>1
<1>9. ASSUME NEW m \in Nat, m \in Good PROVE m + 1 \in Good
  <2> SUFFICES ASSUME (m + 1) + 1 <= n PROVE it[(m + 1) + 1] = at[n - ((m + 1) + 1)] OBVIOUS
  <2> DEFINE i == (m + 1) + 1
             k == n - i
  <2>1. /\ i \in 1 .. n /\ i \in 2 .. n /\ i # 1 /\ i - 1 = m + 1 /\ m + 1 <= n
        /\ k \in 0 .. n - 1 /\ k + 1 \in 1 .. n - 1 /\ n - (m + 1) = k + 1 /\ (k + 1) - 1 = k
    BY <1>1
  <2>2. it[m + 1] = at[k + 1] BY <1>9, <2>1
  <2> HIDE DEF i, k
  <2>3. it[i] = it[m + 1] * 256 + bytes[i] BY <1>7, <2>1 DEF Reads
  <2>4. bytes[i] = at[k] % 256 BY <1>4, <1>6, <2>1 DEF k
  <2>5. at[k + 1] = at[k] \div 256 /\ at[k] \in Nat BY <1>3, <2>1
  <2>6. it[i] = (at[k] \div 256) * 256 + (at[k] % 256) BY <2>2, <2>3, <2>4, <2>5
  <2>7. it[i] = at[k] BY <2>5, <2>6
  <2> QED BY <2>7 DEF i, k
<1> HIDE DEF Good
<1>10. \A m \in Nat : m \in Good BY <1>8, <1>9, CountingUp
<1>11. n - 1 \in Good /\ n - 1 \in Nat BY <1>1, <1>10
<1>12. it[n] = value
  <2>1. (n - 1) + 1 = n /\ n <= n /\ n - ((n - 1) + 1) = 0 BY <1>1
  <2> QED BY <1>3, <1>11, <2>1 DEF Good
<1> QED BY <1>12 DEF it, n

\* An integer that put writes is read back by get, in each of the four lengths, once as
\* many bytes are there as it was written in, whatever follows; of fewer nothing is read
\* (src/transport/varint.rs:15 and 41).
THEOREM PutIsGot ==
  ASSUME NEW value \in Nat, Fits(value), NEW B, NEW bytes \in Seq(B), Agrees(bytes, value)
  PROVE  /\ Len(bytes) < VarintLen(value) => Get(bytes) = NotWhole
         /\ VarintLen(value) <= Len(bytes)
              => Get(bytes) = [value |-> value, used |-> VarintLen(value)]
<1> DEFINE n == VarintLen(value)
<1>1. n \in Nat /\ n >= 1 /\ Len(bytes) \in Nat BY LengthIs, LenProperties
<1>2. 2 ^ (Put(value)[1] \div 64) = n BY FirstByte
<1> HIDE DEF n
<1>3. \A i \in 1 .. Len(bytes) : i <= n => bytes[i] = Put(value)[i] BY DEF Agrees, n
<1>4. CASE bytes = <<>>
  <2>1. Len(bytes) = 0 BY <1>4, EmptySeq
  <2>2. Get(bytes) = NotWhole BY <1>4 DEF Get
  <2> QED BY <1>1, <2>1, <2>2 DEF n
<1>5. CASE bytes # <<>>
  <2>1. Len(bytes) # 0 BY <1>5, EmptySeq
  <2>2. 1 \in 1 .. Len(bytes) /\ 1 <= n BY <1>1, <2>1
  <2>3. bytes[1] = Put(value)[1] BY <1>3, <2>2
  <2>4. n = 2 ^ (bytes[1] \div 64) BY <1>2, <2>3
  <2>5. Get(bytes) = IF Len(bytes) < n THEN NotWhole
                     ELSE [value |-> (CHOOSE it : IsRead(it, bytes, n))[n], used |-> n]
    BY <1>5, <2>4, GetIs
  <2>6. ASSUME n <= Len(bytes) PROVE (CHOOSE it : IsRead(it, bytes, n))[n] = value
    <3>1. \A i \in 1 .. n : bytes[i] = Put(value)[i] BY <1>1, <1>3, <2>6
    <3>2. IsPut(bytes, value) BY <3>1 DEF IsPut, n
    <3> QED BY <3>2, ReadBack DEF n
  <2>7. n <= Len(bytes) => ~(Len(bytes) < n) BY <1>1
  <2> QED BY <2>5, <2>6, <2>7 DEF n
<1> QED BY <1>4, <1>5

LEMMA PutTyped ==
  ASSUME NEW value \in Nat, Fits(value)
  PROVE  Put(value) \in Seq(Byte) /\ Len(Put(value)) = VarintLen(value) /\ VarintLen(value) \in Nat
<1> DEFINE n == VarintLen(value)
<1>1. n \in {1, 2, 4, 8} BY LengthIs
<1>2. Prefix(n) \in 0 .. 192 BY <1>1, PrefixIs
<1>3. ASSUME NEW i \in 1 .. n PROVE Put(value)[i] \in Byte
  <2>1. n - i \in 0 .. n - 1 BY <1>1
  <2>2. Shifted(value)[n - i] \in Nat BY <2>1, ShiftedIs
  <2>3. Put(value)[i] = (Shifted(value)[n - i] % 256) + (IF i = 1 THEN Prefix(n) ELSE 0)
    BY PutIs
  <2>4. CASE i = 1
    <3>1. Shifted(value)[n - i] \in 0 .. 63 BY <2>4, HighestIs
    <3>2. Shifted(value)[n - i] % 256 \in 0 .. 63 BY <3>1
    <3> QED BY <1>2, <2>3, <2>4, <3>2 DEF Byte
  <2>5. CASE i # 1
    <3>1. Shifted(value)[n - i] % 256 \in 0 .. 255 BY <2>2
    <3> QED BY <2>3, <2>5, <3>1 DEF Byte
  <2> QED BY <2>4, <2>5
<1>4. n \in Nat BY <1>1
<1>5. Put(value) \in Seq(Byte) BY <1>3, <1>4, PutIsASeq
<1>6. DOMAIN Put(value) = 1 .. n BY DEF Put
<1>7. Len(Put(value)) = n
  <2>1. Len(Put(value)) \in Nat /\ DOMAIN Put(value) = 1 .. Len(Put(value)) BY <1>5, LenProperties
  <2> HIDE DEF n
  <2> QED BY <1>4, <1>6, <2>1
<1> QED BY <1>4, <1>5, <1>7

-----------------------------------------------------------------------------
(* Streams: what has come of one, and the parts of one.                    *)

LEMMA CameIs ==
  ASSUME NEW came \in Seq(Byte), NEW tail \in Seq(Byte),
         NEW head \in Seq(Byte), NEW rest \in Seq(Byte),
         came \o tail = head \o rest
  PROVE  /\ Len(came) \in Nat /\ Len(head) \in Nat
         /\ \A i \in 1 .. Len(came) : i <= Len(head) => came[i] = head[i]
<1>1. Len(came) \in Nat /\ Len(head) \in Nat /\ Len(tail) \in Nat /\ Len(rest) \in Nat
  BY LenProperties
<1>2. \A i \in 1 .. Len(came) + Len(tail) :
        (came \o tail)[i] = IF i <= Len(came) THEN came[i] ELSE tail[i - Len(came)]
  BY ConcatProperties
<1>3. \A i \in 1 .. Len(head) + Len(rest) :
        (head \o rest)[i] = IF i <= Len(head) THEN head[i] ELSE rest[i - Len(head)]
  BY ConcatProperties
<1>4. ASSUME NEW i \in 1 .. Len(came), i <= Len(head) PROVE came[i] = head[i]
  <2>1. i \in 1 .. Len(came) + Len(tail) /\ i <= Len(came) /\ i \in 1 .. Len(head) + Len(rest)
    BY <1>1, <1>4
  <2>2. (came \o tail)[i] = came[i] BY <1>2, <2>1
  <2>3. (head \o rest)[i] = head[i] BY <1>3, <1>4, <2>1
  <2> QED BY <2>2, <2>3
<1> QED BY <1>1, <1>4

\* What is taken off the front of a stream leaves the rest of it.
LEMMA LeftIs ==
  ASSUME NEW came \in Seq(Byte), NEW tail \in Seq(Byte),
         NEW head \in Seq(Byte), NEW rest \in Seq(Byte),
         came \o tail = head \o rest, Len(head) <= Len(came)
  PROVE  /\ Advance(came, Len(head)) \in Seq(Byte)
         /\ Advance(came, Len(head)) \o tail = rest
<1> DEFINE h == Len(head)
           c == Len(came)
           part == Advance(came, h)
<1>1. c \in Nat /\ h \in Nat /\ Len(tail) \in Nat /\ Len(rest) \in Nat BY LenProperties
<1>2. \A i \in 1 .. c : came[i] \in Byte BY ElementOfSeq
<1>3. c + Len(tail) = h + Len(rest)
  <2>1. Len(came \o tail) = c + Len(tail) BY ConcatProperties
  <2>2. Len(head \o rest) = h + Len(rest) BY ConcatProperties
  <2> QED BY <2>1, <2>2
<1>4. \A i \in 1 .. c + Len(tail) :
        (came \o tail)[i] = IF i <= c THEN came[i] ELSE tail[i - c]
  BY ConcatProperties
<1>5. \A i \in 1 .. h + Len(rest) :
        (head \o rest)[i] = IF i <= h THEN head[i] ELSE rest[i - h]
  BY ConcatProperties
<1> HIDE DEF h, c
<1>6. IsPart(part, came, h, c - h, Byte)
  <2>1. c - h \in Nat /\ c = h + (c - h) BY <1>1 DEF c, h
  <2>2. \A i \in 1 .. c - h : h + i \in 1 .. c BY <1>1, <2>1
  <2>3. Within(came, h, c - h, Byte) BY <1>2, <2>2 DEF Within
  <2>4. IsPart(SubSeq(came, h + 1, c), came, h, c - h, Byte) BY <1>1, <2>1, <2>3, PartIs
  <2> QED BY <2>4 DEF Advance, c
<1> HIDE DEF part
<1>7. part \in Seq(Byte) /\ Len(part) = c - h /\ \A i \in 1 .. c - h : part[i] = came[h + i]
  BY <1>6 DEF IsPart
<1>8. /\ part \o tail \in Seq(Byte) /\ Len(part \o tail) = (c - h) + Len(tail)
      /\ \A i \in 1 .. (c - h) + Len(tail) :
            (part \o tail)[i] = IF i <= c - h THEN part[i] ELSE tail[i - (c - h)]
  BY <1>7, ConcatProperties
<1>9. Len(part \o tail) = Len(rest) BY <1>1, <1>3, <1>8
<1>10. ASSUME NEW i \in 1 .. Len(rest) PROVE (part \o tail)[i] = rest[i]
  <2>1. /\ i \in 1 .. (c - h) + Len(tail) /\ h + i \in 1 .. h + Len(rest) /\ ~(h + i <= h)
        /\ (h + i) - h = i /\ h + i \in 1 .. c + Len(tail)
        /\ (i <= c - h <=> h + i <= c) /\ (h + i) - c = i - (c - h)
    BY <1>1, <1>3
  <2>2. (head \o rest)[h + i] = rest[i] BY <1>5, <2>1
  <2>3. (came \o tail)[h + i] = IF h + i <= c THEN came[h + i] ELSE tail[i - (c - h)]
    BY <1>4, <2>1
  <2>4. (part \o tail)[i] = IF i <= c - h THEN part[i] ELSE tail[i - (c - h)] BY <1>8, <2>1
  <2>5. i <= c - h => part[i] = came[h + i]
    <3>1. i <= c - h => i \in 1 .. c - h BY <1>1, <2>1
    <3> QED BY <1>7, <3>1
  <2> QED BY <2>1, <2>2, <2>3, <2>4, <2>5
<1>11. part \o tail = rest BY <1>8, <1>9, <1>10, SeqEqual
<1> QED BY <1>7, <1>11 DEF part, h

LEMMA Cancels ==
  ASSUME NEW B, NEW x \in Seq(B), NEW y \in Seq(B), NEW z \in Seq(B), x \o y = x \o z
  PROVE  y = z
BY ConcatSimplifications

\* The first of several put end to end, and the others.
LEMMA FlattenFront ==
  ASSUME NEW B, NEW s \in Seq(Seq(B)), NEW k \in 0 .. Len(s) - 1
  PROVE  FlattenSeq(SubSeq(s, k + 1, Len(s)))
           = s[k + 1] \o FlattenSeq(SubSeq(s, (k + 1) + 1, Len(s)))
<1> DEFINE N == Len(s)
           x == FlattenSeq(SubSeq(s, 1, k))
           y == FlattenSeq(SubSeq(s, k + 1, N))
           one == FlattenSeq(SubSeq(s, 1, k + 1))
           z == FlattenSeq(SubSeq(s, (k + 1) + 1, N))
           all == FlattenSeq(SubSeq(s, 1, N))
           front == s[k + 1]
<1>1. N \in Nat BY LenProperties
<1>2. /\ k \in 0 .. N /\ N \in k .. N /\ k + 1 \in 0 .. N /\ N \in k + 1 .. N
      /\ 1 \in 1 .. N + 1 /\ k \in 1 - 1 .. N /\ k \in 1 - 1 .. N - 1
      /\ k + 1 \in 1 .. N + 1 /\ N \in (k + 1) - 1 .. N
      /\ (k + 1) + 1 \in 1 .. N + 1 /\ N \in ((k + 1) + 1) - 1 .. N
  BY <1>1
<1>3. x \o y = all BY <1>2, FlattenInTwo
<1>4. one \o z = all BY <1>2, FlattenInTwo
<1>5. x \in Seq(B) /\ y \in Seq(B) /\ z \in Seq(B)
  <2>1. x \in Seq(B) BY <1>2, FlattenTyped
  <2>2. y \in Seq(B) BY <1>2, FlattenTyped
  <2>3. z \in Seq(B) BY <1>2, FlattenTyped
  <2> QED BY <2>1, <2>2, <2>3
<1>6. one = x \o front /\ front \in Seq(B)
  <2>1. /\ SubSeq(s, 1, k) \in Seq(Seq(B)) /\ front \in Seq(B)
        /\ SubSeq(s, 1, k + 1) = Append(SubSeq(s, 1, k), front)
    BY <1>2, SubSeqGrows
  <2> HIDE DEF front
  <2>2. FlattenSeq(Append(SubSeq(s, 1, k), front)) = FlattenSeq(SubSeq(s, 1, k)) \o front
    BY <2>1, FlattenOfMore
  <2> QED BY <2>1, <2>2
<1> HIDE DEF x, y, z, one, all, front
<1>7. x \o y = (x \o front) \o z BY <1>3, <1>4, <1>6
<1>8. (x \o front) \o z = x \o (front \o z)
  <2>1. Associates(B) BY ConcatAssociates
  <2>2. x \in Seq(B) /\ front \in Seq(B) /\ z \in Seq(B) BY <1>5, <1>6
  <2> QED BY <2>1, <2>2, Zenon DEF Associates
<1>9. front \o z \in Seq(B) BY <1>5, <1>6, ConcatProperties
<1>10. x \o y = x \o (front \o z) BY <1>7, <1>8
<1>11. y = front \o z BY <1>5, <1>9, <1>10, Cancels
<1> QED BY <1>11 DEF y, front, z, N

\* What is made of each in a part is the part of what is made of each.
LEMMA MapPart ==
  ASSUME NEW S, NEW s \in Seq(S), NEW a \in 1 .. Len(s) + 1, NEW b \in a - 1 .. Len(s), NEW F
  PROVE  [i \in DOMAIN SubSeq(s, a, b) |-> F[SubSeq(s, a, b)[i]]]
           = SubSeq([i \in DOMAIN s |-> F[s[i]]], a, b)
<1> DEFINE part == SubSeq(s, a, b)
           map == [i \in DOMAIN s |-> F[s[i]]]
           T == {F[s[i]] : i \in 1 .. Len(s)}
           n == b - a + 1
           left == [i \in DOMAIN part |-> F[part[i]]]
           right == SubSeq(map, a, b)
<1>1. Len(s) \in Nat /\ DOMAIN s = 1 .. Len(s) /\ \A i \in 1 .. Len(s) : s[i] \in S
  BY LenProperties, ElementOfSeq
<1>2. a \in Int /\ b \in Int /\ n \in Nat /\ (IF a <= b THEN b - a + 1 ELSE 0) = n BY <1>1
<1>3. \A i \in a .. b : i \in 1 .. Len(s) BY <1>1, <1>2
<1>4. /\ part \in Seq(S) /\ Len(part) = n
      /\ \A i \in 1 .. n : part[i] = s[a + i - 1]
  <2>1. \A i \in a .. b : s[i] \in S BY <1>1, <1>3
  <2> QED BY <1>2, <2>1, SubSeqProperties
<1>5. \A i \in 1 .. n : a + i - 1 \in a .. b BY <1>2
<1>6. \A i \in 1 .. Len(s) : map[i] = F[s[i]] BY <1>1
<1>7. /\ right \in Seq(T) /\ Len(right) = n
      /\ \A i \in 1 .. n : right[i] = map[a + i - 1]
  <2>1. \A i \in a .. b : map[i] \in T BY <1>3, <1>6
  <2> HIDE DEF T, map
  <2> QED BY <1>2, <2>1, SubSeqProperties
<1>8. DOMAIN part = 1 .. n BY <1>4, LenProperties
<1>9. DOMAIN right = 1 .. n /\ right = [i \in 1 .. n |-> right[i]]
  <2> HIDE DEF T, right, n
  <2> QED BY <1>7, LenProperties
<1> HIDE DEF part, n, right, map
<1>10. left = [i \in 1 .. n |-> F[part[i]]] BY <1>8
<1>11. \A i \in 1 .. n : right[i] = F[part[i]] BY <1>3, <1>4, <1>5, <1>6, <1>7
<1> QED BY <1>9, <1>10, <1>11 DEF part, right, map

-----------------------------------------------------------------------------
(* What is framed, by either carrier.                                      *)

\* What has come of a stream, and what has not, are a part of it and its rest.
Meets(came, tail, head, rest) == came \o tail = head \o rest

LEMMA LeftOf ==
  ASSUME NEW came \in Seq(Byte), NEW tail \in Seq(Byte), NEW head \in Seq(Byte),
         NEW rest \in Seq(Byte), Meets(came, tail, head, rest), Len(head) <= Len(came)
  PROVE  /\ Advance(came, Len(head)) \in Seq(Byte)
         /\ Advance(came, Len(head)) \o tail = rest
BY LeftIs DEF Meets

\* An integer can be put that is of 62 bits.
Fitting(framed) == Fits(framed.type) /\ Fits(framed.length)

\* Where the parts of what was framed are.
LEMMA BytesAre ==
  ASSUME NEW framed \in Framed, Fitting(framed)
  PROVE  LET t == VarintLen(framed.type)
             l == VarintLen(framed.length)
             bytes == Bytes(framed)
         IN  /\ t \in Nat \ {0} /\ l \in Nat \ {0} /\ framed.type \in Nat /\ framed.length \in Nat
             /\ framed.payload \in Seq(Byte) /\ Len(framed.payload) \in Nat
             /\ bytes \in Seq(Byte) /\ Len(bytes) = t + l + Len(framed.payload)
             /\ \A i \in 1 .. t : bytes[i] = Put(framed.type)[i]
             /\ \A i \in 1 .. l : bytes[t + i] = Put(framed.length)[i]
             /\ \A i \in 1 .. Len(framed.payload) : bytes[t + l + i] = framed.payload[i]
<1> DEFINE t == VarintLen(framed.type)
           l == VarintLen(framed.length)
           p == Len(framed.payload)
           one == Put(framed.type) \o Put(framed.length)
<1>1. /\ framed.type \in Nat /\ framed.length \in Nat /\ framed.payload \in Seq(Byte)
      /\ Fits(framed.type) /\ Fits(framed.length)
  BY DEF Framed, Fitting
<1>2. /\ Put(framed.type) \in Seq(Byte) /\ Len(Put(framed.type)) = t
      /\ Put(framed.length) \in Seq(Byte) /\ Len(Put(framed.length)) = l
  BY <1>1, PutTyped
<1>3. t \in Nat \ {0} /\ l \in Nat \ {0}
  <2>1. t \in {1, 2, 4, 8} BY <1>1, LengthIs
  <2>2. l \in {1, 2, 4, 8} BY <1>1, LengthIs
  <2> QED BY <2>1, <2>2
<1>4. p \in Nat BY <1>1, LenProperties
<1> HIDE DEF t, l, p
<1>5. /\ one \in Seq(Byte) /\ Len(one) = t + l
      /\ \A i \in 1 .. t + l : one[i] = IF i <= t THEN Put(framed.type)[i]
                                        ELSE Put(framed.length)[i - t]
  BY <1>2, ConcatProperties
<1>6. Bytes(framed) = one \o framed.payload BY DEF Bytes
<1> HIDE DEF one
<1>7. /\ Bytes(framed) \in Seq(Byte) /\ Len(Bytes(framed)) = t + l + p
      /\ \A i \in 1 .. t + l + p : Bytes(framed)[i] = IF i <= t + l THEN one[i]
                                                        ELSE framed.payload[i - (t + l)]
  <2> DEFINE all == one \o framed.payload
  <2>1. /\ all \in Seq(Byte) /\ Len(all) = Len(one) + Len(framed.payload)
        /\ \A i \in 1 .. Len(one) + Len(framed.payload) :
              all[i] = IF i <= Len(one) THEN one[i] ELSE framed.payload[i - Len(one)]
    BY <1>1, <1>5, ConcatProperties
  <2> HIDE DEF all
  <2>2. Len(one) = t + l /\ Len(framed.payload) = p BY <1>5 DEF p
  <2>3. Bytes(framed) = all BY <1>6 DEF all
  <2> QED BY <2>1, <2>2, <2>3
<1>8. ASSUME NEW i \in 1 .. t PROVE Bytes(framed)[i] = Put(framed.type)[i]
  <2>1. i \in 1 .. t + l + p /\ i <= t + l /\ i \in 1 .. t + l /\ i <= t BY <1>3, <1>4
  <2> QED BY <1>5, <1>7, <2>1
<1>9. ASSUME NEW i \in 1 .. l PROVE Bytes(framed)[t + i] = Put(framed.length)[i]
  <2>1. /\ t + i \in 1 .. t + l + p /\ t + i <= t + l /\ t + i \in 1 .. t + l
        /\ ~(t + i <= t) /\ (t + i) - t = i
    BY <1>3, <1>4
  <2> QED BY <1>5, <1>7, <2>1
<1>10. ASSUME NEW i \in 1 .. p PROVE Bytes(framed)[t + l + i] = framed.payload[i]
  <2>1. t + l + i \in 1 .. t + l + p /\ ~(t + l + i <= t + l) /\ (t + l + i) - (t + l) = i
    BY <1>3, <1>4
  <2> QED BY <1>7, <2>1
<1> QED BY <1>1, <1>3, <1>4, <1>7, <1>8, <1>9, <1>10 DEF t, l, p


\* What has come of a stream, and what is still on its way, begin with what was framed.
BeginsWith(came, tail, framed, rest) ==
  /\ framed \in Framed /\ Fitting(framed)
  /\ came \in Seq(Byte) /\ tail \in Seq(Byte) /\ rest \in Seq(Byte)
  /\ Meets(came, tail, Bytes(framed), rest)

\* How many bytes the two integers in front are.
HeadLen(framed) == VarintLen(framed.type) + VarintLen(framed.length)

\* Of what is framed at the front of a stream, as much of it as has come: the two
\* integers are read as they were put, or not both of them are there.
LEMMA HeadIs ==
  ASSUME NEW framed, NEW came, NEW tail, NEW rest, BeginsWith(came, tail, framed, rest),
         Get(came).used # 0, Get(Advance(came, Get(came).used)).used # 0
  PROVE  /\ Get(came) = [value |-> framed.type, used |-> VarintLen(framed.type)]
         /\ Get(Advance(came, Get(came).used))
              = [value |-> framed.length, used |-> VarintLen(framed.length)]
         /\ HeadLen(framed) <= Len(came)
<1> USE DEF BeginsWith
<1> DEFINE t == VarintLen(framed.type)
           l == VarintLen(framed.length)
           p == Len(framed.payload)
           bytes == Bytes(framed)
           type == Get(came)
           after == Advance(came, type.used)
           length == Get(after)
<1>1. /\ t \in Nat \ {0} /\ l \in Nat \ {0} /\ framed.type \in Nat /\ framed.length \in Nat
      /\ framed.payload \in Seq(Byte) /\ p \in Nat
      /\ bytes \in Seq(Byte) /\ Len(bytes) = t + l + p
      /\ \A i \in 1 .. t : bytes[i] = Put(framed.type)[i]
      /\ \A i \in 1 .. l : bytes[t + i] = Put(framed.length)[i]
  BY BytesAre
<1>2. Fits(framed.type) /\ Fits(framed.length) BY DEF Fitting
<1>3. type.used # 0 /\ length.used # 0 OBVIOUS
<1> HIDE DEF t, l, p, bytes
<1>4. /\ Len(came) \in Nat
      /\ \A i \in 1 .. Len(came) : i <= t + l + p => came[i] = bytes[i]
  <2>1. came \o tail = bytes \o rest BY DEF bytes, Meets
  <2>2. /\ Len(came) \in Nat /\ Len(bytes) \in Nat
        /\ \A i \in 1 .. Len(came) : i <= Len(bytes) => came[i] = bytes[i]
    BY <1>1, <2>1, CameIs
  <2> QED BY <1>1, <2>2
<1>5. t <= Len(came) /\ type = [value |-> framed.type, used |-> t]
  <2>1. Agrees(came, framed.type)
    <3>1. ASSUME NEW i \in 1 .. Len(came), i <= t PROVE came[i] = Put(framed.type)[i]
      <4>1. i \in 1 .. t /\ i <= t + l + p BY <1>1, <1>4, <3>1
      <4> QED BY <1>1, <1>4, <4>1
    <3> QED BY <3>1 DEF Agrees, t
  <2>2. /\ Len(came) < t => type = NotWhole
        /\ t <= Len(came) => type = [value |-> framed.type, used |-> t]
    BY <1>1, <1>2, <2>1, PutIsGot DEF t
  <2>3. ~(Len(came) < t) BY <1>3, <2>2 DEF NotWhole
  <2>4. t <= Len(came) BY <1>1, <1>4, <2>3
  <2> QED BY <2>2, <2>4
<1>6. type.used = t /\ t \in Nat /\ l \in Nat /\ p \in Nat /\ t # 0 BY <1>1, <1>5
<1> HIDE DEF type
<1>7. /\ after \in Seq(Byte) /\ Len(after) = Len(came) - t
      /\ \A i \in 1 .. Len(came) - t : after[i] = came[t + i]
  <2>1. Len(came) - t \in Nat /\ Len(came) = t + (Len(came) - t) BY <1>4, <1>5, <1>6
  <2>2. \A i \in 1 .. Len(came) - t : t + i \in 1 .. Len(came) BY <1>4, <1>6
  <2>3. \A i \in 1 .. Len(came) : came[i] \in Byte BY ElementOfSeq
  <2>4. Within(came, t, Len(came) - t, Byte) BY <2>2, <2>3 DEF Within
  <2>5. IsPart(SubSeq(came, t + 1, Len(came)), came, t, Len(came) - t, Byte)
    BY <1>6, <2>1, <2>4, PartIs
  <2>6. IsPart(after, came, t, Len(came) - t, Byte) BY <1>6, <2>5 DEF Advance
  <2> HIDE DEF after
  <2> QED BY <2>6 DEF IsPart
<1> HIDE DEF after
<1>8. t + l <= Len(came) /\ length = [value |-> framed.length, used |-> l]
  <2>1. Agrees(after, framed.length)
    <3>1. ASSUME NEW i \in 1 .. Len(after), i <= l PROVE after[i] = Put(framed.length)[i]
      <4>1. i \in Nat /\ 1 <= i /\ i <= Len(came) - t /\ i <= l BY <1>4, <1>6, <1>7, <3>1
      <4>2. /\ i \in 1 .. Len(came) - t /\ i \in 1 .. l /\ t + i \in 1 .. Len(came)
            /\ t + i <= t + l + p
        BY <1>4, <1>6, <4>1
      <4>3. after[i] = came[t + i] BY <1>7, <4>2
      <4>4. came[t + i] = bytes[t + i] BY <1>4, <4>2
      <4>5. bytes[t + i] = Put(framed.length)[i] BY <1>1, <4>2
      <4> QED BY <4>3, <4>4, <4>5
    <3> QED BY <3>1 DEF Agrees, l
  <2>2. /\ Len(after) < l => length = NotWhole
        /\ l <= Len(after) => length = [value |-> framed.length, used |-> l]
    BY <1>1, <1>2, <1>7, <2>1, PutIsGot DEF l
  <2>3. ~(Len(came) - t < l) BY <1>3, <1>7, <2>2 DEF NotWhole
  <2>4. l <= Len(after) /\ t + l <= Len(came) BY <1>4, <1>6, <1>7, <2>3
  <2> QED BY <2>2, <2>4
<1> QED BY <1>5, <1>8 DEF type, after, length, t, l, HeadLen

\* After its two integers come the payload, and the rest.
Follows(came, tail, framed, rest) ==
  LET h == HeadLen(framed)
      total == h + Len(framed.payload)
  IN  /\ h <= Len(came) => /\ Advance(came, h) \in Seq(Byte)
                           /\ Advance(came, h) \o tail = framed.payload \o rest
      /\ total <= Len(came) => /\ SubSeq(came, h + 1, total) = framed.payload
                               /\ Advance(came, total) \in Seq(Byte)
                               /\ Advance(came, total) \o tail = rest

LEMMA PayloadIs ==
  ASSUME NEW framed, NEW came, NEW tail, NEW rest, BeginsWith(came, tail, framed, rest)
  PROVE  Follows(came, tail, framed, rest)
<1> DEFINE h == HeadLen(framed)
           payload == framed.payload
           p == Len(payload)
           total == h + p
           one == Put(framed.type) \o Put(framed.length)
           all == Bytes(framed)
           more == payload \o rest
<1>1. /\ framed \in Framed /\ Fitting(framed) /\ came \in Seq(Byte) /\ tail \in Seq(Byte)
      /\ rest \in Seq(Byte) /\ Meets(came, tail, all, rest)
  BY DEF BeginsWith
<1>2. /\ payload \in Seq(Byte) /\ p \in Nat /\ h \in Nat
      /\ all \in Seq(Byte) /\ Len(all) = h + p /\ \A i \in 1 .. p : all[h + i] = payload[i]
  BY <1>1, BytesAre DEF HeadLen
<1>3. one \in Seq(Byte) /\ Len(one) = h
  <2> DEFINE t == Put(framed.type)
             l == Put(framed.length)
  <2>1. /\ t \in Seq(Byte) /\ Len(t) = VarintLen(framed.type)
        /\ l \in Seq(Byte) /\ Len(l) = VarintLen(framed.length)
    BY <1>1, PutTyped DEF Framed, Fitting
  <2> HIDE DEF t, l
  <2>2. t \o l \in Seq(Byte) /\ Len(t \o l) = Len(t) + Len(l) BY <2>1, ConcatProperties
  <2> QED BY <2>1, <2>2 DEF HeadLen, t, l
<1>4. all = one \o payload BY DEF Bytes
<1> HIDE DEF h, payload, p, one, all
<1>5. all \o rest = one \o more
  <2>1. Associates(Byte) BY ConcatAssociates
  <2>2. (one \o payload) \o rest = one \o (payload \o rest)
    BY <1>1, <1>2, <1>3, <2>1 DEF Associates
  <2> QED BY <1>4, <2>2
<1>6. more \in Seq(Byte) BY <1>1, <1>2, ConcatProperties
<1>7. Len(came) \in Nat BY <1>1, LenProperties
<1> HIDE DEF more
<1>8. ASSUME h <= Len(came)
      PROVE  Advance(came, h) \in Seq(Byte) /\ Advance(came, h) \o tail = more
  <2>1. Meets(came, tail, one, more) BY <1>1, <1>5 DEF Meets
  <2>2. Len(one) <= Len(came) BY <1>3, <1>8
  <2>3. /\ Advance(came, Len(one)) \in Seq(Byte) /\ Advance(came, Len(one)) \o tail = more
    BY <1>1, <1>3, <1>6, <2>1, <2>2, LeftOf
  <2> QED BY <1>3, <2>3
<1>9. ASSUME total <= Len(came)
      PROVE  Advance(came, total) \in Seq(Byte) /\ Advance(came, total) \o tail = rest
  <2>1. Len(all) <= Len(came) BY <1>2, <1>9
  <2>2. Advance(came, Len(all)) \in Seq(Byte) /\ Advance(came, Len(all)) \o tail = rest
    BY <1>1, <1>2, <2>1, LeftOf
  <2> QED BY <1>2, <2>2
<1>10. ASSUME total <= Len(came) PROVE SubSeq(came, h + 1, total) = payload
  <2> DEFINE part == SubSeq(came, h + 1, h + p)
  <2>1. \A i \in 1 .. p : h + i \in 1 .. Len(came) /\ h + i <= h + p BY <1>2, <1>7, <1>10
  <2>2. \A i \in 1 .. Len(came) : came[i] \in Byte BY <1>1, ElementOfSeq
  <2>3. Within(came, h, p, Byte) BY <2>1, <2>2 DEF Within
  <2>4. IsPart(part, came, h, p, Byte) BY <1>2, <2>3, PartIs
  <2>5. \A i \in 1 .. Len(came) : i <= Len(all) => came[i] = all[i]
    BY <1>1, <1>2, CameIs DEF Meets
  <2> HIDE DEF part
  <2>6. part \in Seq(Byte) /\ Len(part) = p /\ \A i \in 1 .. p : part[i] = came[h + i]
    BY <2>4 DEF IsPart
  <2>7. ASSUME NEW i \in 1 .. p PROVE part[i] = payload[i]
    <3>1. part[i] = came[h + i] BY <2>6
    <3>2. came[h + i] = all[h + i] BY <1>2, <2>1, <2>5
    <3>3. all[h + i] = payload[i] BY <1>2
    <3> QED BY <3>1, <3>2, <3>3
  <2>8. Len(payload) = p BY DEF p
  <2>9. part = payload BY <1>2, <2>6, <2>7, <2>8, SeqEqual
  <2> QED BY <2>9 DEF part
<1> QED BY <1>8, <1>9, <1>10 DEF Follows, h, payload, p, more

\* A capsule at the front of a stream, as much of it as has come, is taken for what it
\* was meant, or waited for.
LEMMA TakenAsMeant ==
  ASSUME NEW capsule, WellFramed(capsule), NEW came, NEW tail, NEW rest,
         BeginsWith(came, tail, capsule, rest), TakeCapsule(came).says # "wait"
  PROVE  \/ /\ capsule.length > MAX_CAPSULE
            /\ TakeCapsule(came) = [says |-> "TooLong", payload |-> <<>>, rest |-> came]
         \/ /\ capsule.length <= MAX_CAPSULE
            /\ TakeCapsule(came).says = IF capsule.type = DATAGRAM THEN "datagram" ELSE "other"
            /\ TakeCapsule(came).payload = capsule.payload
            /\ TakeCapsule(came).rest \in Seq(Byte)
            /\ TakeCapsule(came).rest \o tail = rest
<1> DEFINE type == Get(came)
           length == Get(Advance(came, type.used))
           h == type.used + length.used
           total == h + length.value
           took == TakeCapsule(came)
           cut == type.used = 0 \/ length.used = 0
           over == length.value > MAX_CAPSULE
           short == Len(came) < total
           waits == [says |-> "wait", payload |-> <<>>, rest |-> came]
           long == [says |-> "TooLong", payload |-> <<>>, rest |-> came]
           meant == [says |-> IF type.value = DATAGRAM THEN "datagram" ELSE "other",
                     payload |-> SubSeq(came, h + 1, total), rest |-> Advance(came, total)]
<1>1. /\ came \in Seq(Byte) /\ HeadLen(capsule) \in Nat /\ Len(capsule.payload) \in Nat
      /\ capsule.length \in Nat
  BY BytesAre DEF BeginsWith, HeadLen
<1>2. Len(capsule.payload) = capsule.length \/ capsule.length > MAX_CAPSULE BY DEF WellFramed
<1>3. /\ cut => took = waits
      /\ (~cut /\ over) => took = long
      /\ (~cut /\ ~over /\ short) => took = waits
      /\ (~cut /\ ~over /\ ~short) => took = meant
  <2>1. took = IF cut THEN waits ELSE IF over THEN long ELSE IF short THEN waits ELSE meant
    BY Zenon DEF TakeCapsule
  <2> HIDE DEF took, waits, long, meant, cut, over, short
  <2> QED BY <2>1
<1>4. took.says # "wait" /\ waits.says = "wait" OBVIOUS
<1> HIDE DEF took, waits
<1>5. type.used # 0 /\ length.used # 0 BY <1>3, <1>4
<1>6. /\ type = [value |-> capsule.type, used |-> VarintLen(capsule.type)]
      /\ length = [value |-> capsule.length, used |-> VarintLen(capsule.length)]
      /\ HeadLen(capsule) <= Len(came)
  BY <1>5, HeadIs
<1> HIDE DEF type, length
<1>7. Len(came) \in Nat BY <1>1, LenProperties
<1>8. h = HeadLen(capsule) /\ length.value = capsule.length /\ type.value = capsule.type
  BY <1>6 DEF HeadLen
<1>9. total = HeadLen(capsule) + capsule.length BY <1>8
<1> HIDE DEF h, total
<1>10. CASE capsule.length > MAX_CAPSULE
  <2>1. took = long BY <1>3, <1>5, <1>8, <1>10
  <2> QED BY <1>10, <2>1 DEF took
<1>11. CASE ~(capsule.length > MAX_CAPSULE)
  <2>1. capsule.length <= MAX_CAPSULE BY <1>1, <1>11, SMT DEF MAX_CAPSULE
  <2>2. Len(capsule.payload) = capsule.length BY <1>2, <1>11
  <2>3. ~short BY <1>3, <1>4, <1>5, <1>8, <1>11
  <2>4. took = meant BY <1>3, <1>5, <1>8, <1>11, <2>3
  <2>5. total = HeadLen(capsule) + Len(capsule.payload) BY <1>9, <2>2
  <2>6. total <= Len(came) BY <1>1, <1>7, <2>3, <2>5
  <2>7. /\ SubSeq(came, h + 1, total) = capsule.payload
        /\ Advance(came, total) \in Seq(Byte) /\ Advance(came, total) \o tail = rest
    <3> DEFINE a == HeadLen(capsule)
               b == a + Len(capsule.payload)
    <3>1. BeginsWith(came, tail, capsule, rest) OBVIOUS
    <3>2. b <= Len(came) => /\ SubSeq(came, a + 1, b) = capsule.payload
                           /\ Advance(came, b) \in Seq(Byte) /\ Advance(came, b) \o tail = rest
      <4>1. Follows(came, tail, capsule, rest) BY ONLY <3>1, PayloadIs
      <4> QED BY ONLY <4>1 DEF Follows
    <3>3. h = a /\ total = b /\ b <= Len(came) BY <1>8, <2>5, <2>6
    <3> HIDE DEF a, b
    <3> QED BY <3>2, <3>3
  <2>8. took.payload = capsule.payload /\ took.rest = Advance(came, total) BY <2>4, <2>7
  <2>9. took.says = IF capsule.type = DATAGRAM THEN "datagram" ELSE "other" BY <1>8, <2>4
  <2> QED BY <2>1, <2>7, <2>8, <2>9 DEF took
<1> QED BY <1>10, <1>11

-----------------------------------------------------------------------------
(* HTTP/2: what comes in.                                                  *)

\* The bytes of each capsule, and what each gives.
Wires(said) == [i \in DOMAIN said |-> Bytes(said[i])]

Gives(capsule) == IF capsule.type = DATAGRAM THEN <<capsule.payload>> ELSE <<>>

Gifts(said) == [i \in DOMAIN said |-> Gives(said[i])]

FramedSo(said) == said \in Seq(Framed) /\ \A i \in 1 .. Len(said) : Fitting(said[i])

LEMMA FramedAre ==
  ASSUME NEW said \in Replies
  PROVE  FramedSo(said) /\ \A i \in 1 .. Len(said) : WellFramed(said[i])
<1>1. said \in Seq(Framed) /\ \A i \in DOMAIN said : WellFramed(said[i])
  BY H2Assumption DEF H2Assumption
<1>2. DOMAIN said = 1 .. Len(said) BY <1>1, LenProperties
<1>3. \A i \in 1 .. Len(said) : Fitting(said[i]) BY <1>1, <1>2 DEF WellFramed, Fitting
<1> QED BY <1>1, <1>2, <1>3 DEF FramedSo

LEMMA WiresTyped ==
  ASSUME NEW said, FramedSo(said)
  PROVE  /\ Wires(said) \in Seq(Seq(Byte)) /\ Len(Wires(said)) = Len(said)
         /\ \A i \in 1 .. Len(said) : Wires(said)[i] = Bytes(said[i])
<1>1. /\ said \in Seq(Framed) /\ \A i \in 1 .. Len(said) : said[i] \in Framed /\ Fitting(said[i])
      /\ Len(said) \in Nat /\ DOMAIN said = 1 .. Len(said)
  BY LenProperties, ElementOfSeq DEF FramedSo
<1>2. \A i \in 1 .. Len(said) : Bytes(said[i]) \in Seq(Byte) BY <1>1, BytesAre
<1>3. Wires(said) = [i \in 1 .. Len(said) |-> Bytes(said[i])] BY <1>1 DEF Wires
<1>4. Wires(said) \in [1 .. Len(said) -> Seq(Byte)] BY <1>2, <1>3
<1>5. Wires(said) \in Seq(Seq(Byte)) BY <1>1, <1>4, IsASeq
<1>6. Len(Wires(said)) = Len(said) BY <1>1, <1>4, <1>5, LenProperties
<1> QED BY <1>3, <1>5, <1>6

LEMMA GiftsTyped ==
  ASSUME NEW said, FramedSo(said)
  PROVE  /\ Gifts(said) \in Seq(Seq(Seq(Byte))) /\ Len(Gifts(said)) = Len(said)
         /\ \A i \in 1 .. Len(said) : Gifts(said)[i] = Gives(said[i])
<1>1. /\ said \in Seq(Framed) /\ \A i \in 1 .. Len(said) : said[i] \in Framed
      /\ Len(said) \in Nat /\ DOMAIN said = 1 .. Len(said)
  BY LenProperties, ElementOfSeq DEF FramedSo
<1>2. ASSUME NEW i \in 1 .. Len(said) PROVE Gives(said[i]) \in Seq(Seq(Byte))
  <2>1. said[i].payload \in Seq(Byte) BY <1>1 DEF Framed
  <2>2. <<said[i].payload>> \in Seq(Seq(Byte)) /\ <<>> \in Seq(Seq(Byte)) BY <2>1, EmptySeq
  <2> QED BY <2>2 DEF Gives
<1>3. Gifts(said) = [i \in 1 .. Len(said) |-> Gives(said[i])] BY <1>1 DEF Gifts
<1>4. Gifts(said) \in [1 .. Len(said) -> Seq(Seq(Byte))] BY <1>2, <1>3
<1>5. Gifts(said) \in Seq(Seq(Seq(Byte))) BY <1>1, <1>4, IsASeq
<1>6. Len(Gifts(said)) = Len(said) BY <1>1, <1>4, <1>5, LenProperties
<1> QED BY <1>3, <1>5, <1>6

LEMMA PartsAre ==
  ASSUME NEW said, FramedSo(said), NEW a \in 1 .. Len(said) + 1, NEW b \in a - 1 .. Len(said)
  PROVE  /\ Said(SubSeq(said, a, b)) = FlattenSeq(SubSeq(Wires(said), a, b))
         /\ Payloads(SubSeq(said, a, b)) = FlattenSeq(SubSeq(Gifts(said), a, b))
<1> DEFINE part == SubSeq(said, a, b)
           W == [x \in Framed |-> Bytes(x)]
           G == [x \in Framed |-> Gives(x)]
<1>1. said \in Seq(Framed) /\ \A i \in DOMAIN said : said[i] \in Framed
  BY LenProperties, ElementOfSeq DEF FramedSo
<1>2. \A i \in DOMAIN part : part[i] \in Framed
  <2>1. Len(said) \in Nat /\ DOMAIN said = 1 .. Len(said) BY <1>1, LenProperties
  <2>2. a \in Int /\ b \in Int /\ \A i \in a .. b : i \in 1 .. Len(said) BY <2>1
  <2>3. \A i \in a .. b : said[i] \in Framed BY <1>1, <2>1, <2>2
  <2>4. part \in Seq(Framed) BY <2>2, <2>3, SubSeqProperties
  <2> QED BY <2>4, LenProperties, ElementOfSeq
<1>3. /\ [i \in DOMAIN part |-> W[part[i]]] = SubSeq([i \in DOMAIN said |-> W[said[i]]], a, b)
      /\ [i \in DOMAIN part |-> G[part[i]]] = SubSeq([i \in DOMAIN said |-> G[said[i]]], a, b)
  <2> HIDE DEF W, G
  <2>1. [i \in DOMAIN part |-> W[part[i]]] = SubSeq([i \in DOMAIN said |-> W[said[i]]], a, b)
    BY <1>1, MapPart
  <2>2. [i \in DOMAIN part |-> G[part[i]]] = SubSeq([i \in DOMAIN said |-> G[said[i]]], a, b)
    BY <1>1, MapPart
  <2> QED BY <2>1, <2>2
<1> HIDE DEF part
<1>4. /\ [i \in DOMAIN part |-> W[part[i]]] = [i \in DOMAIN part |-> Bytes(part[i])]
      /\ [i \in DOMAIN part |-> G[part[i]]] = [i \in DOMAIN part |-> Gives(part[i])]
  BY <1>2
<1>5. /\ [i \in DOMAIN said |-> W[said[i]]] = Wires(said)
      /\ [i \in DOMAIN said |-> G[said[i]]] = Gifts(said)
  BY <1>1 DEF Wires, Gifts
<1>6. /\ Said(part) = FlattenSeq([i \in DOMAIN part |-> Bytes(part[i])])
      /\ Payloads(part) = FlattenSeq([i \in DOMAIN part |-> Gives(part[i])])
  BY DEF Said, Payloads, Gives
<1> HIDE DEF W, G
<1> QED BY <1>3, <1>4, <1>5, <1>6 DEF part

Stream == (pending \o FlattenSeq(chunks)) \o reply

\* As far as one capsule, those before it were taken, and the rest is on its way.
HeardTo(said, k) ==
  /\ taken = Payloads(SubSeq(said, 1, k))
  /\ \A i \in 1 .. k : said[i].length <= MAX_CAPSULE
  /\ Stream = Said(Advance(said, k))

InOK ==
  /\ pending \in Seq(Byte) /\ chunks \in Seq(Seq(Byte)) /\ reply \in Seq(Byte)
  /\ \E said \in Replies : \E k \in 0 .. Len(said) : HeardTo(said, k)

LEMMA FlattenAll ==
  ASSUME NEW B, NEW s \in Seq(Seq(B))
  PROVE  FlattenSeq(s) \in Seq(B)
<1>1. Len(s) \in Nat BY LenProperties
<1>2. 1 \in 1 .. Len(s) + 1 /\ Len(s) \in 1 - 1 .. Len(s) BY <1>1
<1>3. FlattenSeq(SubSeq(s, 1, Len(s))) \in Seq(B) BY <1>2, FlattenTyped
<1>4. SubSeq(s, 1, Len(s)) = s BY SubSeqFull
<1> QED BY <1>3, <1>4

LEMMA StreamTyped ==
  ASSUME pending \in Seq(Byte), chunks \in Seq(Seq(Byte)), reply \in Seq(Byte)
  PROVE  /\ FlattenSeq(chunks) \in Seq(Byte) /\ FlattenSeq(chunks) \o reply \in Seq(Byte)
         /\ Stream = pending \o (FlattenSeq(chunks) \o reply)
<1>1. FlattenSeq(chunks) \in Seq(Byte) BY FlattenAll
<1>2. FlattenSeq(chunks) \o reply \in Seq(Byte) BY <1>1, ConcatProperties
<1>3. Associates(Byte) BY ConcatAssociates
<1>4. (pending \o FlattenSeq(chunks)) \o reply = pending \o (FlattenSeq(chunks) \o reply)
  BY <1>1, <1>3, Zenon DEF Associates
<1> QED BY <1>1, <1>2, <1>4 DEF Stream

\* What is on its way begins with the next capsule.
LEMMA NextIs ==
  ASSUME NEW said, FramedSo(said), NEW k \in 0 .. Len(said) - 1
  PROVE  /\ Said(Advance(said, k)) = Bytes(said[k + 1]) \o Said(Advance(said, k + 1))
         /\ Said(Advance(said, k + 1)) \in Seq(Byte)
         /\ Payloads(SubSeq(said, 1, k + 1)) = Payloads(SubSeq(said, 1, k)) \o Gives(said[k + 1])
<1> DEFINE N == Len(said)
           W == Wires(said)
           G == Gifts(said)
<1>1. N \in Nat BY LenProperties DEF FramedSo
<1>2. /\ W \in Seq(Seq(Byte)) /\ Len(W) = N /\ \A i \in 1 .. N : W[i] = Bytes(said[i])
  BY WiresTyped
<1>3. /\ G \in Seq(Seq(Seq(Byte))) /\ Len(G) = N /\ \A i \in 1 .. N : G[i] = Gives(said[i])
  BY GiftsTyped
<1>4. /\ k + 1 \in 1 .. N /\ k + 1 \in 1 .. N + 1 /\ N \in (k + 1) - 1 .. N
      /\ (k + 1) + 1 \in 1 .. N + 1 /\ N \in ((k + 1) + 1) - 1 .. N
      /\ 1 \in 1 .. N + 1 /\ k \in 1 - 1 .. N /\ k + 1 \in 1 - 1 .. N /\ k \in 1 - 1 .. N - 1
  BY <1>1
<1>5. Said(Advance(said, k)) = FlattenSeq(SubSeq(W, k + 1, N)) BY <1>4, PartsAre DEF Advance
<1>6. Said(Advance(said, k + 1)) = FlattenSeq(SubSeq(W, (k + 1) + 1, N))
  BY <1>4, PartsAre DEF Advance
<1>7. Payloads(SubSeq(said, 1, k)) = FlattenSeq(SubSeq(G, 1, k)) BY <1>4, PartsAre
<1>8. Payloads(SubSeq(said, 1, k + 1)) = FlattenSeq(SubSeq(G, 1, k + 1)) BY <1>4, PartsAre
<1> HIDE DEF W, G, N
<1>9. k \in 0 .. Len(W) - 1 BY <1>2 DEF N
<1>10. FlattenSeq(SubSeq(W, k + 1, Len(W)))
         = W[k + 1] \o FlattenSeq(SubSeq(W, (k + 1) + 1, Len(W)))
  BY <1>2, <1>9, FlattenFront
<1>11. Said(Advance(said, k)) = Bytes(said[k + 1]) \o Said(Advance(said, k + 1))
  BY <1>2, <1>4, <1>5, <1>6, <1>10
<1>12. Said(Advance(said, k + 1)) \in Seq(Byte)
  <2>1. FlattenSeq(SubSeq(W, (k + 1) + 1, N)) \in Seq(Byte) BY <1>2, <1>4, FlattenTyped
  <2> QED BY <1>6, <2>1
<1>13. Payloads(SubSeq(said, 1, k + 1)) = Payloads(SubSeq(said, 1, k)) \o Gives(said[k + 1])
  <2>1. /\ SubSeq(G, 1, k) \in Seq(Seq(Seq(Byte))) /\ G[k + 1] \in Seq(Seq(Byte))
        /\ SubSeq(G, 1, k + 1) = Append(SubSeq(G, 1, k), G[k + 1])
    BY <1>3, <1>4, SubSeqGrows
  <2>2. FlattenSeq(SubSeq(G, 1, k + 1)) = FlattenSeq(SubSeq(G, 1, k)) \o G[k + 1]
    BY <2>1, FlattenOfMore
  <2>3. G[k + 1] = Gives(said[k + 1]) BY <1>3, <1>4
  <2> QED BY <1>7, <1>8, <2>2, <2>3
<1> QED BY <1>11, <1>12, <1>13

LEMMA NothingWaits == TakeCapsule(<<>>).says = "wait"
<1>1. Get(<<>>).used = 0 BY DEF Get, NotWhole
<1> QED BY <1>1, Zenon DEF TakeCapsule

LEMMA TakeKeepsIn ==
  ASSUME InOK, TakeOne
  PROVE  InOK'
<1>1. PICK said \in Replies : \E k \in 0 .. Len(said) : HeardTo(said, k) BY DEF InOK
<1>2. PICK k \in 0 .. Len(said) : HeardTo(said, k) BY <1>1
<1> DEFINE took == TakeCapsule(pending)
           tail == FlattenSeq(chunks) \o reply
           rest == Said(Advance(said, k + 1))
           next == said[k + 1]
<1>3. /\ took.says # "wait" /\ pending' = took.rest
      /\ taken' = IF took.says = "datagram" THEN Append(taken, took.payload) ELSE taken
      /\ chunks' = chunks /\ reply' = reply
  BY Zenon DEF TakeOne
<1>4. pending \in Seq(Byte) /\ chunks \in Seq(Seq(Byte)) /\ reply \in Seq(Byte) BY DEF InOK
<1>5. tail \in Seq(Byte) /\ Stream = pending \o tail BY <1>4, StreamTyped
<1>6. FramedSo(said) BY FramedAre
<1>7. Len(said) \in Nat BY <1>6, LenProperties DEF FramedSo
<1>8. k # Len(said)
  <2> SUFFICES ASSUME k = Len(said) PROVE FALSE OBVIOUS
  <2>1. Said(Advance(said, k)) = <<>>
    <3>1. /\ k + 1 \in 1 .. Len(said) + 1 /\ k \in (k + 1) - 1 .. Len(said) /\ k < k + 1
          /\ k \in Int /\ k + 1 \in Int
      BY <1>7
    <3>2. Said(SubSeq(said, k + 1, k)) = FlattenSeq(SubSeq(Wires(said), k + 1, k))
      BY <1>6, <3>1, PartsAre
    <3>3. SubSeq(Wires(said), k + 1, k) = <<>> BY <3>1, SubSeqEmpty
    <3> QED BY <3>2, <3>3, FlattenOfNone DEF Advance
  <2>2. pending \o tail = <<>> BY <1>2, <1>5, <2>1 DEF HeardTo
  <2> HIDE DEF tail
  <2>3. pending = <<>> BY <1>4, <1>5, <2>2, ConcatSimplifications
  <2> QED BY <1>3, <2>3, NothingWaits
<1>9. k \in 0 .. Len(said) - 1 /\ k + 1 \in 0 .. Len(said) /\ k + 1 \in 1 .. Len(said)
  BY <1>7, <1>8
<1>10. /\ Said(Advance(said, k)) = Bytes(next) \o rest /\ rest \in Seq(Byte)
       /\ Payloads(SubSeq(said, 1, k + 1)) = Payloads(SubSeq(said, 1, k)) \o Gives(next)
  BY <1>6, <1>9, NextIs
<1>11. /\ next \in Framed /\ WellFramed(next)
       /\ BeginsWith(pending, tail, next, rest)
  <2>1. next \in Framed /\ Fitting(next) BY <1>6, <1>9, ElementOfSeq DEF FramedSo
  <2>2. WellFramed(next) BY <1>9, FramedAre
  <2>3. pending \o tail = Bytes(next) \o rest BY <1>2, <1>5, <1>10 DEF HeardTo
  <2> HIDE DEF tail, rest, next
  <2> QED BY <1>4, <1>5, <1>10, <2>1, <2>2, <2>3 DEF BeginsWith, Meets
<1> HIDE DEF took, tail, rest, next
<1>12. \/ /\ next.length > MAX_CAPSULE
          /\ took = [says |-> "TooLong", payload |-> <<>>, rest |-> pending]
       \/ /\ next.length <= MAX_CAPSULE
          /\ took.says = IF next.type = DATAGRAM THEN "datagram" ELSE "other"
          /\ took.payload = next.payload
          /\ took.rest \in Seq(Byte) /\ took.rest \o tail = rest
  BY <1>3, <1>11, TakenAsMeant DEF took
<1>13. CASE took = [says |-> "TooLong", payload |-> <<>>, rest |-> pending]
  <2>1. pending' = pending /\ taken' = taken BY <1>3, <1>13
  <2>2. HeardTo(said, k)' BY <1>2, <1>3, <2>1 DEF HeardTo, Stream
  <2>3. \E s \in Replies : \E j \in 0 .. Len(s) : HeardTo(s, j)' BY <2>2
  <2> QED BY <1>3, <1>4, <2>1, <2>3 DEF InOK
<1>14. CASE /\ next.length <= MAX_CAPSULE
            /\ took.says = IF next.type = DATAGRAM THEN "datagram" ELSE "other"
            /\ took.payload = next.payload
            /\ took.rest \in Seq(Byte) /\ took.rest \o tail = rest
  <2>1. pending' \in Seq(Byte) /\ chunks' \in Seq(Seq(Byte)) /\ reply' \in Seq(Byte)
    BY <1>3, <1>4, <1>14
  <2>2. Stream' = rest
    <3>1. Stream' = (took.rest \o FlattenSeq(chunks)) \o reply BY <1>3 DEF Stream
    <3>2. Associates(Byte) BY ConcatAssociates
    <3>3. FlattenSeq(chunks) \in Seq(Byte) BY <1>4, FlattenAll
    <3>4. took.rest \in Seq(Byte) /\ reply \in Seq(Byte) BY <1>4, <1>14
    <3>5. Stream' = took.rest \o (FlattenSeq(chunks) \o reply)
      BY <3>1, <3>2, <3>3, <3>4, Zenon DEF Associates
    <3>6. Stream' = took.rest \o tail BY <3>5 DEF tail
    <3> QED BY <1>14, <3>6
  <2>3. taken = Payloads(SubSeq(said, 1, k)) /\ taken \in Seq(Seq(Byte))
    <3>1. taken = Payloads(SubSeq(said, 1, k)) BY <1>2 DEF HeardTo
    <3>2. 1 \in 1 .. Len(said) + 1 /\ k \in 1 - 1 .. Len(said) BY <1>7
    <3>3. Payloads(SubSeq(said, 1, k)) = FlattenSeq(SubSeq(Gifts(said), 1, k))
      BY <1>6, <3>2, PartsAre
    <3>4. Gifts(said) \in Seq(Seq(Seq(Byte))) /\ Len(Gifts(said)) = Len(said)
      BY <1>6, GiftsTyped
    <3>5. FlattenSeq(SubSeq(Gifts(said), 1, k)) \in Seq(Seq(Byte)) BY <3>2, <3>4, FlattenTyped
    <3> QED BY <3>1, <3>3, <3>5
  <2>4. taken' = taken \o Gives(next)
    <3>1. CASE next.type = DATAGRAM
      <4>1. taken' = Append(taken, next.payload) BY <1>3, <1>14, <3>1
      <4>2. next.payload \in Seq(Byte) BY <1>11 DEF Framed
      <4>3. Append(taken, next.payload) = taken \o <<next.payload>> BY <2>3, <4>2, AppendIsConcat
      <4> QED BY <3>1, <4>1, <4>3 DEF Gives
    <3>2. CASE next.type # DATAGRAM
      <4>1. taken' = taken BY <1>3, <1>14, <3>2
      <4>2. taken \o <<>> = taken BY <2>3, ConcatEmptySeq
      <4> QED BY <3>2, <4>1, <4>2 DEF Gives
    <3> QED BY <3>1, <3>2
  <2>5. taken' = Payloads(SubSeq(said, 1, k + 1)) BY <1>10, <2>3, <2>4
  <2>6. \A i \in 1 .. k + 1 : said[i].length <= MAX_CAPSULE
    <3>1. \A i \in 1 .. k : said[i].length <= MAX_CAPSULE BY <1>2 DEF HeardTo
    <3>2. said[k + 1].length <= MAX_CAPSULE BY <1>14 DEF next
    <3>3. \A i \in 1 .. k + 1 : i \in 1 .. k \/ i = k + 1 BY <1>7
    <3> QED BY <3>1, <3>2, <3>3
  <2>7. HeardTo(said, k + 1)' BY <2>2, <2>5, <2>6 DEF HeardTo, rest
  <2>8. \E s \in Replies : \E j \in 0 .. Len(s) : HeardTo(s, j)' BY <1>9, <2>7
  <2> QED BY <2>1, <2>8 DEF InOK
<1> QED BY <1>12, <1>13, <1>14

\* What moves nothing in or out of the stream keeps it.
LEMMA InElsewhere ==
  ASSUME InOK, taken' = taken, Stream' = Stream,
         pending' \in Seq(Byte), chunks' \in Seq(Seq(Byte)), reply' \in Seq(Byte)
  PROVE  InOK'
<1>1. PICK said \in Replies : \E k \in 0 .. Len(said) : HeardTo(said, k) BY DEF InOK
<1>2. PICK k \in 0 .. Len(said) : HeardTo(said, k) BY <1>1
<1>3. HeardTo(said, k)' BY <1>2 DEF HeardTo
<1>4. \E s \in Replies : \E j \in 0 .. Len(s) : HeardTo(s, j)' BY <1>3
<1> QED BY <1>4 DEF InOK

LEMMA ReadKeepsIn ==
  ASSUME InOK, ReadChunk
  PROVE  InOK'
<1> DEFINE front == Head(chunks)
           more == FlattenSeq(Tail(chunks))
<1>1. /\ chunks # <<>> /\ pending' = pending \o front /\ chunks' = Tail(chunks)
      /\ reply' = reply /\ taken' = taken
  BY DEF ReadChunk
<1>2. pending \in Seq(Byte) /\ chunks \in Seq(Seq(Byte)) /\ reply \in Seq(Byte) BY DEF InOK
<1>3. front \in Seq(Byte) /\ Tail(chunks) \in Seq(Seq(Byte)) /\ front = chunks[1]
  <2>1. front \in Seq(Byte) /\ Tail(chunks) \in Seq(Seq(Byte)) BY <1>1, <1>2, HeadTailProperties
  <2>2. Head(chunks) = chunks[1] BY <1>1, <1>2
  <2> QED BY <2>1, <2>2
<1>4. more \in Seq(Byte) BY <1>3, FlattenAll
<1>5. FlattenSeq(chunks) = front \o more
  <2>1. Len(chunks) \in Nat /\ Len(chunks) # 0 BY <1>1, <1>2, LenProperties, EmptySeq
  <2>2. 0 \in 0 .. Len(chunks) - 1 BY <2>1
  <2>3. FlattenSeq(SubSeq(chunks, 0 + 1, Len(chunks)))
          = chunks[0 + 1] \o FlattenSeq(SubSeq(chunks, (0 + 1) + 1, Len(chunks)))
    BY <1>2, <2>2, FlattenFront
  <2>4. 0 + 1 = 1 /\ 1 + 1 = 2 OBVIOUS
  <2>5. SubSeq(chunks, 1, Len(chunks)) = chunks BY <1>2, SubSeqFull
  <2>6. SubSeq(chunks, 2, Len(chunks)) = Tail(chunks) BY <1>1, <1>2, TailIsSubSeq
  <2> QED BY <1>3, <2>3, <2>4, <2>5, <2>6
<1> HIDE DEF front, more
<1>6. pending' \in Seq(Byte) BY <1>1, <1>2, <1>3, ConcatProperties
<1>7. Stream' = Stream
  <2>1. Stream' = ((pending \o front) \o more) \o reply BY <1>1 DEF Stream, more
  <2>2. Associates(Byte) BY ConcatAssociates
  <2>3. (pending \o front) \o more = pending \o (front \o more)
    <3>1. pending \in Seq(Byte) /\ front \in Seq(Byte) /\ more \in Seq(Byte) BY <1>2, <1>3, <1>4
    <3> QED BY <2>2, <3>1, Zenon DEF Associates
  <2> QED BY <1>5, <2>1, <2>3 DEF Stream
<1> QED BY <1>1, <1>2, <1>3, <1>6, <1>7, InElsewhere

LEMMA FeedKeepsIn ==
  ASSUME InOK, NEW n \in 1 .. Len(reply), Feed(n)
  PROVE  InOK'
<1> DEFINE piece == SubSeq(reply, 1, n)
           left == Advance(reply, n)
<1>1. /\ chunks' = Append(chunks, piece) /\ reply' = left /\ pending' = pending /\ taken' = taken
  BY DEF Feed
<1>2. pending \in Seq(Byte) /\ chunks \in Seq(Seq(Byte)) /\ reply \in Seq(Byte) BY DEF InOK
<1>3. Len(reply) \in Nat /\ n \in Nat /\ \A i \in 1 .. Len(reply) : reply[i] \in Byte
  BY <1>2, LenProperties, ElementOfSeq
<1>4. piece \in Seq(Byte) /\ left \in Seq(Byte)
  <2>1. \A i \in 1 .. n : i \in 1 .. Len(reply) BY <1>3
  <2>2. \A i \in n + 1 .. Len(reply) : i \in 1 .. Len(reply) BY <1>3
  <2>3. piece \in Seq(Byte)
    <3>1. \A i \in 1 .. n : reply[i] \in Byte BY <1>3, <2>1
    <3> QED BY <1>3, <3>1, SubSeqProperties
  <2>4. left \in Seq(Byte)
    <3>1. \A i \in n + 1 .. Len(reply) : reply[i] \in Byte BY <1>3, <2>2
    <3>2. n + 1 \in Int /\ Len(reply) \in Int BY <1>3
    <3> QED BY <3>1, <3>2, SubSeqProperties DEF Advance
  <2> QED BY <2>3, <2>4
<1>5. piece \o left = reply
  <2>1. 1 \in 1 .. Len(reply) + 1 /\ n \in 1 - 1 .. Len(reply) /\ Len(reply) \in n .. Len(reply)
    BY <1>3
  <2>2. SubSeq(reply, 1, n) \o SubSeq(reply, n + 1, Len(reply)) = SubSeq(reply, 1, Len(reply))
    BY <1>2, <2>1, ConcatAdjacentSubSeq
  <2>3. SubSeq(reply, 1, Len(reply)) = reply BY <1>2, SubSeqFull
  <2> QED BY <2>2, <2>3 DEF Advance
<1> HIDE DEF piece, left
<1> DEFINE before == FlattenSeq(chunks)
<1>6. before \in Seq(Byte) BY <1>2, FlattenAll
<1>7. FlattenSeq(chunks') = before \o piece BY <1>1, <1>2, <1>4, FlattenOfMore
<1> HIDE DEF before
<1>8. chunks' \in Seq(Seq(Byte)) BY <1>1, <1>2, <1>4, AppendProperties
<1>9. Stream' = Stream
  <2>1. Stream' = (pending \o (before \o piece)) \o left BY <1>1, <1>7 DEF Stream
  <2>2. Associates(Byte) BY ConcatAssociates
  <2>3. pending \in Seq(Byte) /\ piece \in Seq(Byte) /\ left \in Seq(Byte) BY <1>2, <1>4
  <2>4. (pending \o before) \o piece = pending \o (before \o piece)
    BY <1>6, <2>2, <2>3, Zenon DEF Associates
  <2>5. pending \o before \in Seq(Byte) BY <1>2, <1>6, ConcatProperties
  <2>6. ((pending \o before) \o piece) \o left = (pending \o before) \o (piece \o left)
    BY <2>2, <2>5, <2>3, Zenon DEF Associates
  <2> QED BY <1>5, <2>1, <2>4, <2>6 DEF Stream, before
<1> QED BY <1>1, <1>2, <1>4, <1>8, <1>9, InElsewhere

LEMMA StepKeepsIn ==
  ASSUME InOK, [H2Next]_h2Vars
  PROVE  InOK'
<1>1. CASE TakeOne BY <1>1, TakeKeepsIn
<1>2. CASE ReadChunk BY <1>2, ReadKeepsIn
<1>3. CASE Fed BY <1>3, FeedKeepsIn DEF Fed
<1>4. ASSUME UNCHANGED <<reply, chunks, pending, taken>> PROVE InOK'
  <2>1. Stream' = Stream BY <1>4 DEF Stream
  <2>2. pending \in Seq(Byte) /\ chunks \in Seq(Seq(Byte)) /\ reply \in Seq(Byte) BY DEF InOK
  <2> QED BY <1>4, <2>1, <2>2, InElsewhere
<1>5. CASE ReadEnds \/ SendPing \/ Pong
  <2>1. UNCHANGED <<reply, chunks, pending, taken>>
    BY <1>5 DEF ReadEnds, SendPing, Pong, inVars
  <2> QED BY <1>4, <2>1
<1>6. CASE DialNext
  <2>1. UNCHANGED <<reply, chunks, pending, taken>>
    BY <1>6 DEF DialNext, TcpUp, TlsUp, Http2Up, Accepted, DialFails, DialOn, HeldBack,
                WriteHello, inVars
  <2> QED BY <1>4, <2>1
<1>7. CASE OutNext
  <2>1. UNCHANGED <<reply, chunks, pending, taken>>
    BY <1>7 DEF OutNext, Grant, SendData, SendFails, Stage, inVars
  <2> QED BY <1>4, <2>1
<1>8. CASE UNCHANGED h2Vars
  <2>1. UNCHANGED <<reply, chunks, pending, taken>> BY <1>8 DEF h2Vars, inVars
  <2> QED BY <1>4, <2>1
<1> QED BY <1>1, <1>2, <1>3, <1>5, <1>6, <1>7, <1>8 DEF H2Next, InNext

\* Whatever capsules an endpoint frames, and wherever its bytes are cut by the window
\* and the reading, what is taken are the datagrams so far, whole and in order, and the
\* rest is on its way.
THEOREM TakenWholeInOrder == H2Spec => []PayloadsAsWhole
<1>1. H2Init => InOK
  <2> SUFFICES ASSUME H2Init PROVE InOK OBVIOUS
  <2>1. PICK said \in Replies : reply = Said(said) BY DEF H2Init
  <2>2. chunks = <<>> /\ pending = <<>> /\ taken = <<>> BY DEF H2Init
  <2>3. FramedSo(said) BY FramedAre
  <2>4. Len(said) \in Nat /\ said \in Seq(Framed) BY <2>3, LenProperties DEF FramedSo
  <2>5. /\ 1 \in 1 .. Len(said) + 1 /\ 0 \in 1 - 1 .. Len(said) /\ Len(said) \in 1 - 1 .. Len(said)
        /\ 0 \in 0 .. Len(said) /\ 0 + 1 = 1
    BY <2>4
  <2>6. SubSeq(said, 1, Len(said)) = said BY <2>4, SubSeqFull
  <2>7. Advance(said, 0) = said BY <2>5, <2>6 DEF Advance
  <2>8. reply \in Seq(Byte)
    <3>1. Wires(said) \in Seq(Seq(Byte)) /\ Len(Wires(said)) = Len(said) BY <2>3, WiresTyped
    <3>2. Said(SubSeq(said, 1, Len(said))) = FlattenSeq(SubSeq(Wires(said), 1, Len(said)))
      BY <2>3, <2>5, PartsAre
    <3>3. FlattenSeq(SubSeq(Wires(said), 1, Len(said))) \in Seq(Byte)
      BY <2>5, <3>1, FlattenTyped
    <3> QED BY <2>1, <2>6, <3>2, <3>3
  <2>9. Stream = Said(Advance(said, 0))
    <3>1. <<>> \in Seq(Byte) /\ <<>> \o <<>> = <<>> BY EmptySeq, ConcatEmptySeq
    <3>2. <<>> \o reply = reply BY <2>8, ConcatEmptySeq
    <3> QED BY <2>1, <2>2, <2>7, <3>1, <3>2, FlattenOfNone DEF Stream
  <2>10. Payloads(SubSeq(said, 1, 0)) = <<>>
    <3>1. Payloads(SubSeq(said, 1, 0)) = FlattenSeq(SubSeq(Gifts(said), 1, 0))
      BY <2>3, <2>5, PartsAre
    <3>2. SubSeq(Gifts(said), 1, 0) = <<>> BY SubSeqEmpty
    <3> QED BY <3>1, <3>2, FlattenOfNone
  <2>11. HeardTo(said, 0) BY <2>2, <2>9, <2>10 DEF HeardTo
  <2>12. pending \in Seq(Byte) /\ chunks \in Seq(Seq(Byte)) BY <2>2, EmptySeq
  <2> QED BY <2>5, <2>8, <2>11, <2>12 DEF InOK
<1>2. InOK /\ [H2Next]_h2Vars => InOK' BY StepKeepsIn
<1>3. InOK => PayloadsAsWhole BY DEF InOK, HeardTo, Stream, PayloadsAsWhole
<1> QED BY <1>1, <1>2, <1>3, PTL DEF H2Spec

-----------------------------------------------------------------------------
(* HTTP/3: the frames of a stream.                                         *)

\* What is left once some are taken.
LEMMA AdvanceIs ==
  ASSUME NEW B, NEW x \in Seq(B), NEW n \in 0 .. Len(x)
  PROVE  /\ Advance(x, n) \in Seq(B) /\ Len(Advance(x, n)) = Len(x) - n
         /\ \A i \in 1 .. Len(x) - n : Advance(x, n)[i] = x[n + i]
<1>1. Len(x) \in Nat /\ \A i \in 1 .. Len(x) : x[i] \in B BY LenProperties, ElementOfSeq
<1>2. /\ n \in Nat /\ Len(x) - n \in Nat /\ Len(x) = n + (Len(x) - n)
      /\ \A i \in 1 .. Len(x) - n : n + i \in 1 .. Len(x)
  BY <1>1
<1>3. Within(x, n, Len(x) - n, B) BY <1>1, <1>2 DEF Within
<1>4. IsPart(SubSeq(x, n + 1, Len(x)), x, n, Len(x) - n, B) BY <1>2, <1>3, PartIs
<1> QED BY <1>4 DEF IsPart, Advance

LEMMA AdvanceNone ==
  ASSUME NEW B, NEW x \in Seq(B)
  PROVE  Advance(x, 0) = x
<1>1. 0 + 1 = 1 /\ SubSeq(x, 1, Len(x)) = x BY SubSeqFull
<1> QED BY <1>1 DEF Advance

LEMMA AdvanceFirst ==
  ASSUME NEW B, NEW x \in Seq(B), NEW y \in Seq(B), NEW n \in 0 .. Len(x)
  PROVE  Advance(x \o y, n) = Advance(x, n) \o y
<1> DEFINE all == x \o y
           rest == Advance(x, n)
           here == Advance(all, n)
           there == rest \o y
           a == Len(x)
           b == Len(y)
<1>1. a \in Nat /\ b \in Nat BY LenProperties
<1>2. /\ all \in Seq(B) /\ Len(all) = a + b
      /\ \A i \in 1 .. a + b : all[i] = IF i <= a THEN x[i] ELSE y[i - a]
  BY ConcatProperties
<1>3. rest \in Seq(B) /\ Len(rest) = a - n /\ \A i \in 1 .. a - n : rest[i] = x[n + i]
  BY AdvanceIs
<1> HIDE DEF all, rest
<1>4. /\ there \in Seq(B) /\ Len(there) = (a - n) + b
      /\ \A i \in 1 .. (a - n) + b :
            there[i] = IF i <= a - n THEN rest[i] ELSE y[i - (a - n)]
  <2>1. /\ there \in Seq(B) /\ Len(there) = Len(rest) + Len(y)
        /\ \A i \in 1 .. Len(rest) + Len(y) :
              there[i] = IF i <= Len(rest) THEN rest[i] ELSE y[i - Len(rest)]
    BY <1>3, ConcatProperties
  <2> HIDE DEF there
  <2>2. Len(rest) = a - n /\ Len(y) = b BY <1>3
  <2> QED BY <2>1, <2>2
<1>5. n \in 0 .. Len(all) BY <1>1, <1>2
<1>6. /\ here \in Seq(B) /\ Len(here) = (a + b) - n
      /\ \A i \in 1 .. (a + b) - n : here[i] = all[n + i]
  <2>1. /\ here \in Seq(B) /\ Len(here) = Len(all) - n
        /\ \A i \in 1 .. Len(all) - n : here[i] = all[n + i]
    BY <1>2, <1>5, AdvanceIs
  <2> HIDE DEF here
  <2> QED BY <1>2, <2>1
<1> HIDE DEF here, there, a, b
<1>7. n \in Nat /\ n <= a BY <1>1 DEF a
<1>8. ASSUME NEW i \in 1 .. (a + b) - n PROVE here[i] = there[i]
  <2>1. /\ i \in Nat /\ i \in 1 .. (a - n) + b /\ n + i \in 1 .. a + b
        /\ i <= a - n => i \in 1 .. a - n /\ n + i <= a
        /\ ~(i <= a - n) => ~(n + i <= a) /\ (n + i) - a = i - (a - n)
    BY <1>1, <1>7
  <2>2. here[i] = IF n + i <= a THEN x[n + i] ELSE y[(n + i) - a] BY <1>2, <1>6, <2>1
  <2>3. there[i] = IF i <= a - n THEN rest[i] ELSE y[i - (a - n)] BY <1>4, <2>1
  <2>4. i <= a - n => rest[i] = x[n + i] BY <1>3, <2>1
  <2> QED BY <2>1, <2>2, <2>3, <2>4
<1>9. Len(here) = Len(there) BY <1>1, <1>4, <1>6, <1>7
<1>10. here = there BY <1>4, <1>6, <1>8, <1>9, SeqEqual
<1> QED BY <1>10 DEF here, there, all, rest

LEMMA AdvanceTwice ==
  ASSUME NEW B, NEW x \in Seq(B), NEW a \in 0 .. Len(x), NEW b \in 0 .. Len(x) - a
  PROVE  Advance(Advance(x, a), b) = Advance(x, a + b)
<1> DEFINE one == Advance(x, a)
           here == Advance(one, b)
           there == Advance(x, a + b)
           n == Len(x)
<1>1. n \in Nat BY LenProperties
<1>2. one \in Seq(B) /\ Len(one) = n - a /\ \A i \in 1 .. n - a : one[i] = x[a + i]
  BY AdvanceIs
<1> HIDE DEF one
<1>3. b \in 0 .. Len(one) /\ a + b \in 0 .. Len(x) BY <1>1, <1>2
<1>4. /\ here \in Seq(B) /\ Len(here) = (n - a) - b
      /\ \A i \in 1 .. (n - a) - b : here[i] = one[b + i]
  <2>1. /\ here \in Seq(B) /\ Len(here) = Len(one) - b
        /\ \A i \in 1 .. Len(one) - b : here[i] = one[b + i]
    BY <1>2, <1>3, AdvanceIs
  <2> QED BY <1>2, <2>1
<1>5. /\ there \in Seq(B) /\ Len(there) = n - (a + b)
      /\ \A i \in 1 .. n - (a + b) : there[i] = x[(a + b) + i]
  BY <1>3, AdvanceIs
<1> HIDE DEF here, there, n
<1>6. a \in Nat /\ b \in Nat /\ a + b <= n BY <1>1 DEF n
<1>7. ASSUME NEW i \in 1 .. (n - a) - b PROVE here[i] = there[i]
  <2>1. i \in 1 .. n - (a + b) /\ b + i \in 1 .. n - a /\ a + (b + i) = (a + b) + i
    BY <1>1, <1>6
  <2> QED BY <1>2, <1>4, <1>5, <2>1
<1>8. Len(here) = Len(there) BY <1>1, <1>4, <1>5, <1>6
<1>9. here = there BY <1>4, <1>5, <1>7, <1>8, SeqEqual
<1> QED BY <1>9 DEF here, there, one

LEMMA AdvanceAll ==
  ASSUME NEW B, NEW x \in Seq(B), NEW y \in Seq(B)
  PROVE  Advance(x \o y, Len(x)) = y
<1>1. Len(x) \in Nat BY LenProperties
<1>2. Len(x) \in 0 .. Len(x) BY <1>1
<1>3. Advance(x \o y, Len(x)) = Advance(x, Len(x)) \o y BY <1>2, AdvanceFirst
<1>4. Advance(x, Len(x)) = <<>> BY <1>1, SubSeqEmpty DEF Advance
<1>5. <<>> \o y = y BY ConcatEmptySeq
<1> QED BY <1>3, <1>4, <1>5

\* Some of the rest of an unknown frame is discarded, and what is left of it is the same.
LEMMA DiscardKeeps ==
  ASSUME NEW reader, reader.pending \in Seq(Byte), reader.skipping \in Nat, NEW left \in Seq(Byte),
         reader.skipping <= Len(reader.pending) + Len(left)
  PROVE  LET kept == Discard(reader)
         IN  /\ kept.pending \in Seq(Byte) /\ kept.skipping \in Nat
             /\ kept.skipping <= Len(kept.pending) + Len(left)
             /\ Advance(kept.pending \o left, kept.skipping)
                  = Advance(reader.pending \o left, reader.skipping)
             /\ Len(kept.pending) <= Len(reader.pending)
<1> DEFINE x == reader.pending
           n == reader.skipping
           S == {Len(x), n}
           m == Min(S)
           rest == Advance(x, m)
           kept == Discard(reader)
<1>1. Len(x) \in Nat /\ Len(left) \in Nat /\ n \in Nat BY LenProperties
<1>2. m \in S /\ \A y \in S : m <= y
  <2>1. \E k \in S : \A y \in S : k <= y
    <3>1. CASE Len(x) <= n BY <1>1, <3>1
    <3>2. CASE ~(Len(x) <= n) BY <1>1, <3>2
    <3> QED BY <3>1, <3>2
  <2> HIDE DEF S
  <2> QED BY <2>1 DEF Min
<1>3. m \in Nat /\ m <= Len(x) /\ m <= n BY <1>1, <1>2
<1>4. kept = [pending |-> rest, skipping |-> n - m] BY DEF Discard, Reader
<1> HIDE DEF x, n, m
<1>5. m \in 0 .. Len(x) /\ n - m \in Nat BY <1>1, <1>3
<1>6. x \in Seq(Byte) BY DEF x
<1>7. rest \in Seq(Byte) /\ Len(rest) = Len(x) - m BY <1>5, <1>6, AdvanceIs
<1>8. Advance(rest \o left, n - m) = Advance(x \o left, n)
  <2> DEFINE all == x \o left
  <2>1. all \in Seq(Byte) /\ Len(all) = Len(x) + Len(left) BY <1>6, ConcatProperties
  <2>2. Advance(all, m) = rest \o left BY <1>5, <1>6, AdvanceFirst
  <2>3. n <= Len(x) + Len(left) BY DEF x, n
  <2> HIDE DEF all
  <2>4. m \in 0 .. Len(all) /\ n - m \in 0 .. Len(all) - m /\ m + (n - m) = n
    BY <1>1, <1>3, <2>1, <2>3
  <2>5. Advance(Advance(all, m), n - m) = Advance(all, m + (n - m)) BY <2>1, <2>4, AdvanceTwice
  <2> QED BY <2>2, <2>4, <2>5 DEF all
<1>9. n - m <= Len(rest) + Len(left)
  <2>1. n <= Len(x) + Len(left) BY DEF x, n
  <2> QED BY <1>1, <1>3, <1>7, <2>1
<1>10. Len(rest) <= Len(x) BY <1>1, <1>3, <1>7
<1> HIDE DEF kept, rest
<1>11. kept.pending = rest /\ kept.skipping = n - m BY <1>4
<1> QED BY <1>5, <1>7, <1>8, <1>9, <1>10, <1>11 DEF kept, x, n

\* One turn of next_frame's loop, by what has come.
LEMMA PassIs ==
  ASSUME NEW reader
  PROVE  LET kept   == Discard(reader)
             kind   == Get(kept.pending)
             length == Get(Advance(kept.pending, kind.used))
             head   == kind.used + length.used
             total  == head + length.value
             cut    == kept.skipping > 0 \/ kind.used = 0 \/ length.used = 0
             known  == IsKnown(kind.value)
             long   == length.value > MAX_FRAME
             short  == Len(kept.pending) < total
         IN  /\ cut => Pass(reader) = [says |-> "wait", reader |-> kept, frame |-> NoFrame]
             /\ ~cut /\ ~known =>
                  Pass(reader) = [says |-> "again", frame |-> NoFrame,
                                  reader |-> Reader(Advance(kept.pending, head), length.value)]
             /\ ~cut /\ known /\ long =>
                  Pass(reader) = [says |-> "FrameTooLong", reader |-> kept, frame |-> NoFrame]
             /\ ~cut /\ known /\ ~long /\ short =>
                  Pass(reader) = [says |-> "wait", reader |-> kept, frame |-> NoFrame]
             /\ ~cut /\ known /\ ~long /\ ~short =>
                  Pass(reader) = [says |-> "frame",
                                  reader |-> Reader(Advance(kept.pending, total), 0),
                                  frame |-> Frame(kind.value,
                                                  SubSeq(kept.pending, head + 1, total))]
<1> DEFINE kept   == Discard(reader)
           kind   == Get(kept.pending)
           length == Get(Advance(kept.pending, kind.used))
           head   == kind.used + length.used
           total  == head + length.value
           cut    == kept.skipping > 0 \/ kind.used = 0 \/ length.used = 0
           known  == IsKnown(kind.value)
           long   == length.value > MAX_FRAME
           short  == Len(kept.pending) < total
           waits  == [says |-> "wait", reader |-> kept, frame |-> NoFrame]
           again  == [says |-> "again", frame |-> NoFrame,
                      reader |-> Reader(Advance(kept.pending, head), length.value)]
           longer == [says |-> "FrameTooLong", reader |-> kept, frame |-> NoFrame]
           frame  == [says |-> "frame", reader |-> Reader(Advance(kept.pending, total), 0),
                      frame |-> Frame(kind.value, SubSeq(kept.pending, head + 1, total))]
           pass   == Pass(reader)
<1>1. again = [says |-> "again", reader |-> Reader(Advance(kept.pending, head), length.value),
               frame |-> NoFrame]
  OBVIOUS
<1>2. pass = IF cut THEN waits
             ELSE IF ~known
             THEN [says |-> "again", reader |-> Reader(Advance(kept.pending, head), length.value),
                   frame |-> NoFrame]
             ELSE IF long THEN longer ELSE IF short THEN waits ELSE frame
  BY Zenon DEF Pass
<1> HIDE DEF pass, cut, known, long, short, waits, again, longer, frame
<1>3. /\ cut => pass = waits
      /\ ~cut /\ ~known => pass = again
      /\ ~cut /\ known /\ long => pass = longer
      /\ ~cut /\ known /\ ~long /\ short => pass = waits
      /\ ~cut /\ known /\ ~long /\ ~short => pass = frame
  BY <1>1, <1>2
<1> QED BY <1>3, Zenon DEF pass, cut, known, long, short, waits, again, longer, frame

\* A frame at the front of a stream, once nothing is left to discard, is given as it was
\* meant, skipped, refused for what it declares, or waited for.
LEMMA PassAsMeant ==
  ASSUME NEW reader, NEW frame, WellMeant(frame), NEW tail, NEW rest,
         BeginsWith(Discard(reader).pending, tail, frame, rest), Pass(reader).says # "wait"
  PROVE  LET pass == Pass(reader)
         IN  \/ /\ ~IsKnown(frame.type)
                /\ pass.says = "again"
                /\ pass.reader.skipping = frame.length
                /\ frame.length = Len(frame.payload)
                /\ pass.reader.pending \in Seq(Byte)
                /\ pass.reader.pending \o tail = frame.payload \o rest
             \/ /\ IsKnown(frame.type) /\ frame.length > MAX_FRAME
                /\ pass.says = "FrameTooLong"
                /\ pass.reader = Discard(reader)
             \/ /\ IsKnown(frame.type) /\ frame.length <= MAX_FRAME
                /\ pass.says = "frame"
                /\ pass.frame = Frame(frame.type, frame.payload)
                /\ pass.reader.skipping = 0
                /\ pass.reader.pending \in Seq(Byte)
                /\ pass.reader.pending \o tail = rest
                /\ Len(pass.reader.pending) < Len(Discard(reader).pending)
<1> DEFINE kept   == Discard(reader)
           came   == kept.pending
           kind   == Get(came)
           length == Get(Advance(came, kind.used))
           head   == kind.used + length.used
           total  == head + length.value
           cut    == kept.skipping > 0 \/ kind.used = 0 \/ length.used = 0
           known  == IsKnown(kind.value)
           long   == length.value > MAX_FRAME
           short  == Len(came) < total
           waits  == [says |-> "wait", reader |-> kept, frame |-> NoFrame]
           again  == [says |-> "again", frame |-> NoFrame,
                      reader |-> Reader(Advance(came, head), length.value)]
           longer == [says |-> "FrameTooLong", reader |-> kept, frame |-> NoFrame]
           given_ == [says |-> "frame", reader |-> Reader(Advance(came, total), 0),
                      frame |-> Frame(kind.value, SubSeq(came, head + 1, total))]
           pass   == Pass(reader)
<1>1. /\ cut => pass = waits
      /\ ~cut /\ ~known => pass = again
      /\ ~cut /\ known /\ long => pass = longer
      /\ ~cut /\ known /\ ~long /\ short => pass = waits
      /\ ~cut /\ known /\ ~long /\ ~short => pass = given_
  BY PassIs, Zenon
<1>2. pass.says # "wait" /\ waits.says = "wait" OBVIOUS
<1>3. /\ came \in Seq(Byte) /\ HeadLen(frame) \in Nat /\ HeadLen(frame) # 0
      /\ Len(frame.payload) \in Nat /\ frame.length \in Nat
  BY BytesAre DEF BeginsWith, HeadLen
<1>4. Len(frame.payload) = frame.length \/ (IsKnown(frame.type) /\ frame.length > MAX_FRAME)
  BY DEF WellMeant
<1>5. BeginsWith(came, tail, frame, rest) OBVIOUS
<1> HIDE DEF pass, waits
<1>6. ~cut BY <1>1, <1>2
<1>7. kind.used # 0 /\ length.used # 0 BY <1>6
<1> HIDE DEF kept, came
<1>8. /\ kind = [value |-> frame.type, used |-> VarintLen(frame.type)]
      /\ length = [value |-> frame.length, used |-> VarintLen(frame.length)]
      /\ HeadLen(frame) <= Len(came)
  BY <1>5, <1>7, HeadIs
<1> HIDE DEF kind, length, cut
<1>9. head = HeadLen(frame) /\ kind.value = frame.type /\ length.value = frame.length
  BY <1>8 DEF HeadLen
<1>10. total = HeadLen(frame) + frame.length BY <1>9
<1>11. Len(came) \in Nat BY <1>3, LenProperties
<1> DEFINE h == HeadLen(frame)
           all == h + Len(frame.payload)
<1>12. /\ h <= Len(came) => /\ Advance(came, h) \in Seq(Byte)
                            /\ Advance(came, h) \o tail = frame.payload \o rest
       /\ all <= Len(came) => /\ SubSeq(came, h + 1, all) = frame.payload
                              /\ Advance(came, all) \in Seq(Byte)
                              /\ Advance(came, all) \o tail = rest
  <2>1. Follows(came, tail, frame, rest) BY ONLY <1>5, PayloadIs
  <2> QED BY ONLY <2>1 DEF Follows
<1> HIDE DEF head, total
<1>13. CASE ~known
  <2>1. pass = again BY <1>1, <1>6, <1>13
  <2>2. ~IsKnown(frame.type) /\ frame.length = Len(frame.payload) BY <1>4, <1>9, <1>13
  <2>3. /\ Advance(came, head) \in Seq(Byte)
        /\ Advance(came, head) \o tail = frame.payload \o rest
    BY <1>8, <1>9, <1>12
  <2>4. /\ pass.says = "again" /\ pass.reader.pending = Advance(came, head)
        /\ pass.reader.skipping = frame.length
    BY <1>9, <2>1 DEF Reader
  <2> HIDE DEF known, again, all, h
  <2> QED BY <2>2, <2>3, <2>4 DEF pass
<1>14. CASE known /\ long
  <2>1. pass = longer BY <1>1, <1>6, <1>14
  <2>2. IsKnown(frame.type) /\ frame.length > MAX_FRAME BY <1>9, <1>14
  <2>3. pass.says = "FrameTooLong" /\ pass.reader = kept BY <2>1
  <2> QED BY <2>2, <2>3 DEF pass, kept
<1>15. CASE known /\ ~long
  <2>1. IsKnown(frame.type) /\ ~(frame.length > MAX_FRAME) BY <1>9, <1>15
  <2>2. frame.length <= MAX_FRAME BY <1>3, <2>1, SMT DEF MAX_FRAME
  <2>3. ~short BY <1>1, <1>2, <1>6, <1>15
  <2>4. pass = given_ BY <1>1, <1>6, <1>15, <2>3
  <2>5. Len(frame.payload) = frame.length BY <1>4, <2>1
  <2>6. total = all /\ all <= Len(came) /\ all \in Nat /\ all # 0
    BY <1>3, <1>10, <1>11, <2>3, <2>5
  <2>7. /\ SubSeq(came, head + 1, total) = frame.payload
        /\ Advance(came, total) \in Seq(Byte) /\ Advance(came, total) \o tail = rest
    BY <1>9, <1>12, <2>6
  <2>8. /\ pass.says = "frame" /\ pass.frame = Frame(kind.value, SubSeq(came, head + 1, total))
        /\ pass.reader.skipping = 0 /\ pass.reader.pending = Advance(came, total)
    BY <2>4 DEF Reader
  <2>9. Len(Advance(came, total)) < Len(came)
    <3>1. total \in 0 .. Len(came) BY <1>11, <2>6
    <3>2. Len(Advance(came, total)) = Len(came) - total BY <1>3, <3>1, AdvanceIs
    <3> QED BY <1>11, <2>6, <3>2
  <2> HIDE DEF known, given_, all, h
  <2>10. pass.frame = Frame(frame.type, frame.payload) BY <1>9, <2>7, <2>8
  <2> QED BY <2>1, <2>2, <2>7, <2>8, <2>9, <2>10 DEF pass, came, kept
<1> QED BY <1>13, <1>14, <1>15

\* What a frame gives, and each of several.
Reading(frame) == IF IsKnown(frame.type) THEN <<Frame(frame.type, frame.payload)>> ELSE <<>>

Readings(frames) == [i \in DOMAIN frames |-> Reading(frames[i])]

ReadFrame == [kind : Nat, payload : Seq(Byte)]

LEMMA ReadingsTyped ==
  ASSUME NEW frames, FramedSo(frames)
  PROVE  /\ Readings(frames) \in Seq(Seq(ReadFrame)) /\ Len(Readings(frames)) = Len(frames)
         /\ \A i \in 1 .. Len(frames) : Readings(frames)[i] = Reading(frames[i])
<1>1. /\ frames \in Seq(Framed) /\ \A i \in 1 .. Len(frames) : frames[i] \in Framed
      /\ Len(frames) \in Nat /\ DOMAIN frames = 1 .. Len(frames)
  BY LenProperties, ElementOfSeq DEF FramedSo
<1>2. ASSUME NEW i \in 1 .. Len(frames) PROVE Reading(frames[i]) \in Seq(ReadFrame)
  <2> DEFINE one == Frame(frames[i].type, frames[i].payload)
  <2>1. one \in ReadFrame BY <1>1 DEF Framed, Frame, ReadFrame
  <2> HIDE DEF one
  <2>2. <<one>> \in Seq(ReadFrame) /\ <<>> \in Seq(ReadFrame) BY <2>1, EmptySeq
  <2> QED BY <2>2 DEF Reading, one
<1>3. Readings(frames) = [i \in 1 .. Len(frames) |-> Reading(frames[i])] BY <1>1 DEF Readings
<1>4. Readings(frames) \in [1 .. Len(frames) -> Seq(ReadFrame)] BY <1>2, <1>3
<1>5. Readings(frames) \in Seq(Seq(ReadFrame)) BY <1>1, <1>4, IsASeq
<1>6. Len(Readings(frames)) = Len(frames) BY <1>1, <1>4, <1>5, LenProperties
<1> QED BY <1>3, <1>5, <1>6

LEMMA KnownPart ==
  ASSUME NEW frames, FramedSo(frames),
         NEW a \in 1 .. Len(frames) + 1, NEW b \in a - 1 .. Len(frames)
  PROVE  Known(SubSeq(frames, a, b)) = FlattenSeq(SubSeq(Readings(frames), a, b))
<1> DEFINE part == SubSeq(frames, a, b)
           R == [x \in Framed |-> Reading(x)]
<1>1. frames \in Seq(Framed) /\ \A i \in DOMAIN frames : frames[i] \in Framed
  BY LenProperties, ElementOfSeq DEF FramedSo
<1>2. \A i \in DOMAIN part : part[i] \in Framed
  <2>1. Len(frames) \in Nat /\ DOMAIN frames = 1 .. Len(frames) BY <1>1, LenProperties
  <2>2. a \in Int /\ b \in Int /\ \A i \in a .. b : i \in 1 .. Len(frames) BY <2>1
  <2>3. \A i \in a .. b : frames[i] \in Framed BY <1>1, <2>1, <2>2
  <2>4. part \in Seq(Framed) BY <2>2, <2>3, SubSeqProperties
  <2> QED BY <2>4, LenProperties, ElementOfSeq
<1>3. [i \in DOMAIN part |-> R[part[i]]] = SubSeq([i \in DOMAIN frames |-> R[frames[i]]], a, b)
  <2> HIDE DEF R
  <2> QED BY <1>1, MapPart
<1> HIDE DEF part
<1>4. [i \in DOMAIN part |-> R[part[i]]] = [i \in DOMAIN part |-> Reading(part[i])] BY <1>2
<1>5. [i \in DOMAIN frames |-> R[frames[i]]] = Readings(frames) BY <1>1 DEF Readings
<1>6. Known(part) = FlattenSeq([i \in DOMAIN part |-> Reading(part[i])]) BY DEF Known, Reading
<1> HIDE DEF R
<1> QED BY <1>3, <1>4, <1>5, <1>6 DEF part

LEMMA KnownGrows ==
  ASSUME NEW frames, FramedSo(frames), NEW k \in 0 .. Len(frames) - 1
  PROVE  /\ Known(SubSeq(frames, 1, k)) \in Seq(ReadFrame)
         /\ Known(SubSeq(frames, 1, k + 1))
              = Known(SubSeq(frames, 1, k)) \o Reading(frames[k + 1])
<1> DEFINE N == Len(frames)
           R == Readings(frames)
<1>1. N \in Nat BY LenProperties DEF FramedSo
<1>2. R \in Seq(Seq(ReadFrame)) /\ Len(R) = N /\ \A i \in 1 .. N : R[i] = Reading(frames[i])
  BY ReadingsTyped
<1>3. /\ 1 \in 1 .. N + 1 /\ k \in 1 - 1 .. N /\ k + 1 \in 1 - 1 .. N /\ k \in 1 - 1 .. N - 1
      /\ k + 1 \in 1 .. N
  BY <1>1
<1>4. Known(SubSeq(frames, 1, k)) = FlattenSeq(SubSeq(R, 1, k)) BY <1>3, KnownPart
<1>5. Known(SubSeq(frames, 1, k + 1)) = FlattenSeq(SubSeq(R, 1, k + 1)) BY <1>3, KnownPart
<1> HIDE DEF R, N
<1>6. FlattenSeq(SubSeq(R, 1, k)) \in Seq(ReadFrame) BY <1>2, <1>3, FlattenTyped
<1>7. /\ SubSeq(R, 1, k) \in Seq(Seq(ReadFrame)) /\ R[k + 1] \in Seq(ReadFrame)
      /\ SubSeq(R, 1, k + 1) = Append(SubSeq(R, 1, k), R[k + 1])
  BY <1>2, <1>3, SubSeqGrows
<1>8. FlattenSeq(SubSeq(R, 1, k + 1)) = FlattenSeq(SubSeq(R, 1, k)) \o R[k + 1]
  BY <1>7, FlattenOfMore
<1> QED BY <1>2, <1>3, <1>4, <1>5, <1>6, <1>8

LEMMA SaidOfNone ==
  ASSUME NEW said, FramedSo(said)
  PROVE  Said(Advance(said, Len(said))) = <<>> /\ Said(said) \in Seq(Byte)
<1>1. Len(said) \in Nat /\ said \in Seq(Framed) BY LenProperties DEF FramedSo
<1>2. Said(Advance(said, Len(said))) = <<>>
  <2>1. /\ Len(said) + 1 \in 1 .. Len(said) + 1 /\ Len(said) \in (Len(said) + 1) - 1 .. Len(said)
        /\ Len(said) < Len(said) + 1 /\ Len(said) \in Int /\ Len(said) + 1 \in Int
    BY <1>1
  <2>2. Said(SubSeq(said, Len(said) + 1, Len(said)))
          = FlattenSeq(SubSeq(Wires(said), Len(said) + 1, Len(said)))
    BY <2>1, PartsAre
  <2>3. SubSeq(Wires(said), Len(said) + 1, Len(said)) = <<>> BY <2>1, SubSeqEmpty
  <2> QED BY <2>2, <2>3, FlattenOfNone DEF Advance
<1>3. Said(said) \in Seq(Byte)
  <2>1. Wires(said) \in Seq(Seq(Byte)) BY WiresTyped
  <2>2. Said(said) = FlattenSeq(Wires(said)) BY DEF Said, Wires
  <2> QED BY <2>1, <2>2, FlattenAll
<1> QED BY <1>2, <1>3

\* Frames as an endpoint means them.
MeantSo(frames) ==
  /\ FramedSo(frames)
  /\ \A i \in 1 .. Len(frames) : WellMeant(frames[i])

\* What a reader holds, of a stream of which so much is still to come.
ReaderOK(reader, left) ==
  /\ reader.pending \in Seq(Byte) /\ reader.skipping \in Nat /\ left \in Seq(Byte)
  /\ reader.skipping <= Len(reader.pending) + Len(left)

\* As far as one frame, those before it were given, and the rest is still there.
ReadTo(reader, left, gave, frames, k) ==
  /\ gave = Known(SubSeq(frames, 1, k))
  /\ \A i \in 1 .. k : IsKnown(frames[i].type) => frames[i].length <= MAX_FRAME
  /\ Advance(reader.pending \o left, reader.skipping) = Said(Advance(frames, k))

\* One turn of the loop waits where it was, or reads one frame further.
LEMMA LookReads ==
  ASSUME NEW frames, MeantSo(frames), NEW k \in 0 .. Len(frames), NEW reader, NEW left, NEW gave,
         ReaderOK(reader, left), ReadTo(reader, left, gave, frames, k)
  PROVE  LET pass == Pass(reader)
             now == IF pass.says = "frame" THEN Append(gave, pass.frame) ELSE gave
         IN  /\ ReaderOK(pass.reader, left)
             /\ \E j \in 0 .. Len(frames) : ReadTo(pass.reader, left, now, frames, j)
             /\ pass.says = "frame" => pass.reader # reader
<1> DEFINE pass == Pass(reader)
           kept == Discard(reader)
           now == IF pass.says = "frame" THEN Append(gave, pass.frame) ELSE gave
           next == frames[k + 1]
           rest == Said(Advance(frames, k + 1))
           Goal == /\ ReaderOK(pass.reader, left)
                   /\ \E j \in 0 .. Len(frames) : ReadTo(pass.reader, left, now, frames, j)
                   /\ pass.says = "frame" => pass.reader # reader
<1> SUFFICES Goal OBVIOUS
<1>1. /\ reader.pending \in Seq(Byte) /\ reader.skipping \in Nat /\ left \in Seq(Byte)
      /\ reader.skipping <= Len(reader.pending) + Len(left)
  BY DEF ReaderOK
<1>2. /\ kept.pending \in Seq(Byte) /\ kept.skipping \in Nat
      /\ kept.skipping <= Len(kept.pending) + Len(left)
      /\ Advance(kept.pending \o left, kept.skipping)
           = Advance(reader.pending \o left, reader.skipping)
      /\ Len(kept.pending) <= Len(reader.pending)
  BY <1>1, DiscardKeeps
<1>3. FramedSo(frames) /\ Len(frames) \in Nat BY LenProperties DEF MeantSo, FramedSo
<1> HIDE DEF pass, kept
<1>4. ReaderOK(kept, left) /\ ReadTo(kept, left, gave, frames, k)
  BY <1>1, <1>2 DEF ReaderOK, ReadTo
<1>5. ASSUME pass.reader = kept, pass.says # "frame" PROVE Goal
  <2>1. now = gave BY <1>5
  <2> HIDE DEF now
  <2> QED BY <1>4, <1>5, <2>1
<1>6. pass.says = "wait" => pass.reader = kept
  <2> DEFINE kind == Get(kept.pending)
             length == Get(Advance(kept.pending, kind.used))
             head == kind.used + length.used
             total == head + length.value
             cut == kept.skipping > 0 \/ kind.used = 0 \/ length.used = 0
             known == IsKnown(kind.value)
             long == length.value > MAX_FRAME
             short == Len(kept.pending) < total
  <2>1. /\ cut => pass.reader = kept
        /\ ~cut /\ ~known => pass.says = "again"
        /\ ~cut /\ known /\ long => pass.reader = kept
        /\ ~cut /\ known /\ ~long /\ short => pass.reader = kept
        /\ ~cut /\ known /\ ~long /\ ~short => pass.says = "frame"
    <3> DEFINE waits == [says |-> "wait", reader |-> kept, frame |-> NoFrame]
               again == [says |-> "again", frame |-> NoFrame,
                         reader |-> Reader(Advance(kept.pending, head), length.value)]
               longer == [says |-> "FrameTooLong", reader |-> kept, frame |-> NoFrame]
               whole == [says |-> "frame", reader |-> Reader(Advance(kept.pending, total), 0),
                         frame |-> Frame(kind.value, SubSeq(kept.pending, head + 1, total))]
    <3>1. /\ cut => pass = waits
          /\ ~cut /\ ~known => pass = again
          /\ ~cut /\ known /\ long => pass = longer
          /\ ~cut /\ known /\ ~long /\ short => pass = waits
          /\ ~cut /\ known /\ ~long /\ ~short => pass = whole
      BY PassIs, Zenon DEF pass, kept
    <3>2. waits.reader = kept /\ longer.reader = kept /\ again.says = "again"
          /\ whole.says = "frame"
      OBVIOUS
    <3> HIDE DEF waits, again, longer, whole, cut, known, long, short
    <3> QED BY <3>1, <3>2
  <2> HIDE DEF cut, known, long, short
  <2>2. CASE cut BY <2>1, <2>2
  <2>3. CASE ~cut /\ ~known
    <3>1. pass.says = "again" BY <2>1, <2>3
    <3> QED BY <3>1
  <2>4. CASE ~cut /\ known /\ long BY <2>1, <2>4
  <2>5. CASE ~cut /\ known /\ ~long /\ short BY <2>1, <2>5
  <2>6. CASE ~cut /\ known /\ ~long /\ ~short
    <3>1. pass.says = "frame" BY <2>1, <2>6
    <3> QED BY <3>1
  <2> QED BY <2>2, <2>3, <2>4, <2>5, <2>6, Zenon
<1>7. CASE pass.says = "wait" BY <1>5, <1>6, <1>7
<1>8. CASE pass.says # "wait"
  <2>1. kept.skipping = 0 /\ Get(kept.pending).used # 0
    <3> DEFINE kind == Get(kept.pending)
               length == Get(Advance(kept.pending, kind.used))
               cut == kept.skipping > 0 \/ kind.used = 0 \/ length.used = 0
    <3>1. cut => pass = [says |-> "wait", reader |-> kept, frame |-> NoFrame]
      BY PassIs, Zenon DEF pass, kept
    <3>2. ~cut BY <1>8, <3>1
    <3> HIDE DEF kind, length
    <3>3. ~(kept.skipping > 0) /\ kind.used # 0 BY <3>2
    <3> QED BY <1>2, <3>3 DEF kind
  <2>2. kept.pending \o left = Said(Advance(frames, k))
    <3>1. kept.pending \o left \in Seq(Byte) BY <1>2, <1>1, ConcatProperties
    <3>2. Advance(kept.pending \o left, 0) = kept.pending \o left BY <3>1, AdvanceNone
    <3> QED BY <1>4, <2>1, <3>2 DEF ReadTo
  <2>3. k # Len(frames)
    <3> SUFFICES ASSUME k = Len(frames) PROVE FALSE OBVIOUS
    <3>1. Said(Advance(frames, k)) = <<>> BY <1>3, SaidOfNone
    <3>2. kept.pending = <<>> BY <1>1, <1>2, <2>2, <3>1, ConcatSimplifications
    <3>3. Get(<<>>).used = 0 BY DEF Get, NotWhole
    <3> QED BY <2>1, <3>2, <3>3
  <2>4. k \in 0 .. Len(frames) - 1 /\ k + 1 \in 0 .. Len(frames) /\ k + 1 \in 1 .. Len(frames)
    BY <1>3, <2>3
  <2>5. /\ Said(Advance(frames, k)) = Bytes(next) \o rest /\ rest \in Seq(Byte)
        /\ Known(SubSeq(frames, 1, k)) \in Seq(ReadFrame)
        /\ Known(SubSeq(frames, 1, k + 1)) = Known(SubSeq(frames, 1, k)) \o Reading(next)
    BY <1>3, <2>4, NextIs, KnownGrows
  <2>6. next \in Framed /\ Fitting(next) /\ WellMeant(next)
    BY <1>3, <2>4, ElementOfSeq DEF FramedSo, MeantSo
  <2> HIDE DEF next, rest
  <2>7. BeginsWith(kept.pending, left, next, rest)
    BY <1>1, <1>2, <2>2, <2>5, <2>6 DEF BeginsWith, Meets
  <2>8. \/ /\ ~IsKnown(next.type)
           /\ pass.says = "again"
           /\ pass.reader.skipping = next.length
           /\ next.length = Len(next.payload)
           /\ pass.reader.pending \in Seq(Byte)
           /\ pass.reader.pending \o left = next.payload \o rest
        \/ /\ IsKnown(next.type) /\ next.length > MAX_FRAME
           /\ pass.says = "FrameTooLong"
           /\ pass.reader = kept
        \/ /\ IsKnown(next.type) /\ next.length <= MAX_FRAME
           /\ pass.says = "frame"
           /\ pass.frame = Frame(next.type, next.payload)
           /\ pass.reader.skipping = 0
           /\ pass.reader.pending \in Seq(Byte)
           /\ pass.reader.pending \o left = rest
           /\ Len(pass.reader.pending) < Len(kept.pending)
    BY <1>8, <2>6, <2>7, PassAsMeant DEF pass, kept
  <2>9. gave = Known(SubSeq(frames, 1, k)) /\ gave \in Seq(ReadFrame)
        /\ \A i \in 1 .. k : IsKnown(frames[i].type) => frames[i].length <= MAX_FRAME
    BY <1>4, <2>5 DEF ReadTo
  <2>10. ASSUME IsKnown(next.type) => next.length <= MAX_FRAME,
                now = gave \o Reading(next),
                Advance(pass.reader.pending \o left, pass.reader.skipping) = rest
         PROVE  \E j \in 0 .. Len(frames) : ReadTo(pass.reader, left, now, frames, j)
    <3>1. now = Known(SubSeq(frames, 1, k + 1)) BY <2>5, <2>9, <2>10
    <3>2. \A i \in 1 .. k + 1 : IsKnown(frames[i].type) => frames[i].length <= MAX_FRAME
      <4>1. \A i \in 1 .. k + 1 : i \in 1 .. k \/ i = k + 1 BY <1>3
      <4>2. frames[k + 1] = next BY DEF next
      <4> QED BY <2>9, <2>10, <4>1, <4>2
    <3> HIDE DEF now
    <3>3. ReadTo(pass.reader, left, now, frames, k + 1) BY <2>10, <3>1, <3>2 DEF ReadTo, rest
    <3> QED BY <2>4, <3>3
  <2>11. CASE /\ ~IsKnown(next.type)
              /\ pass.says = "again"
              /\ pass.reader.skipping = next.length
              /\ next.length = Len(next.payload)
              /\ pass.reader.pending \in Seq(Byte)
              /\ pass.reader.pending \o left = next.payload \o rest
    <3>1. now = gave BY <2>11
    <3>2. gave \o <<>> = gave BY <2>9, ConcatEmptySeq
    <3>3. now = gave \o Reading(next) BY <2>11, <3>1, <3>2 DEF Reading
    <3>4. next.payload \in Seq(Byte) BY <2>6 DEF Framed
    <3>5. Advance(next.payload \o rest, Len(next.payload)) = rest BY <2>5, <3>4, AdvanceAll
    <3>6. Advance(pass.reader.pending \o left, pass.reader.skipping) = rest BY <2>11, <3>5
    <3> HIDE DEF now
    <3>7. \E j \in 0 .. Len(frames) : ReadTo(pass.reader, left, now, frames, j)
      BY <2>10, <2>11, <3>3, <3>6
    <3>8. ReaderOK(pass.reader, left)
      <4>1. Len(pass.reader.pending \o left) = Len(pass.reader.pending) + Len(left)
        BY <1>1, <2>11, ConcatProperties
      <4>2. Len(next.payload \o rest) = Len(next.payload) + Len(rest)
        BY <2>5, <3>4, ConcatProperties
      <4>3. Len(next.payload) \in Nat /\ Len(rest) \in Nat BY <2>5, <3>4, LenProperties
      <4>4. pass.reader.skipping <= Len(pass.reader.pending) + Len(left)
        BY <2>11, <4>1, <4>2, <4>3
      <4>5. pass.reader.skipping \in Nat /\ pass.reader.pending \in Seq(Byte)
        BY <2>11, <4>3
      <4> QED BY <1>1, <4>4, <4>5 DEF ReaderOK
    <3>9. pass.says # "frame"
      <4>1. pass.says = "again" BY <2>11
      <4> QED BY <4>1
    <3> QED BY <3>7, <3>8, <3>9
  <2>12. CASE pass.says = "FrameTooLong" /\ pass.reader = kept BY <1>5, <2>12
  <2>13. CASE /\ IsKnown(next.type) /\ next.length <= MAX_FRAME
              /\ pass.says = "frame"
              /\ pass.frame = Frame(next.type, next.payload)
              /\ pass.reader.skipping = 0
              /\ pass.reader.pending \in Seq(Byte)
              /\ pass.reader.pending \o left = rest
              /\ Len(pass.reader.pending) < Len(kept.pending)
    <3> DEFINE one == Frame(next.type, next.payload)
    <3>1. now = Append(gave, one) BY <2>13
    <3>2. one \in ReadFrame BY <2>6 DEF Framed, Frame, ReadFrame
    <3> HIDE DEF one
    <3>3. Append(gave, one) = gave \o <<one>> BY <2>9, <3>2, AppendIsConcat
    <3>4. Reading(next) = <<one>> BY <2>13 DEF Reading, one
    <3>5. now = gave \o Reading(next) BY <3>1, <3>3, <3>4
    <3>6. Advance(pass.reader.pending \o left, pass.reader.skipping) = rest
      BY <2>5, <2>13, AdvanceNone
    <3> HIDE DEF now
    <3>7. \E j \in 0 .. Len(frames) : ReadTo(pass.reader, left, now, frames, j)
      BY <2>10, <2>13, <3>5, <3>6
    <3>8. Len(pass.reader.pending) \in Nat /\ Len(left) \in Nat BY <1>1, <2>13, LenProperties
    <3>9. ReaderOK(pass.reader, left) BY <1>1, <2>13, <3>8 DEF ReaderOK
    <3>10. pass.reader # reader
      <4>1. Len(kept.pending) \in Nat /\ Len(reader.pending) \in Nat BY <1>1, <1>2, LenProperties
      <4>2. Len(pass.reader.pending) # Len(reader.pending) BY <1>2, <2>13, <3>8, <4>1
      <4> SUFFICES ASSUME pass.reader = reader PROVE FALSE OBVIOUS
      <4>3. pass.reader.pending = reader.pending OBVIOUS
      <4> QED BY <4>2, <4>3
    <3> QED BY <3>7, <3>9, <3>10
  <2> QED BY <2>8, <2>11, <2>12, <2>13
<1> HIDE DEF now
<1> QED BY <1>7, <1>8

LEMMA PassShape ==
  ASSUME NEW reader
  PROVE  "pending" \in DOMAIN Pass(reader).reader
<1> DEFINE kept   == Discard(reader)
           kind   == Get(kept.pending)
           length == Get(Advance(kept.pending, kind.used))
           head   == kind.used + length.used
           total  == head + length.value
           cut    == kept.skipping > 0 \/ kind.used = 0 \/ length.used = 0
           known  == IsKnown(kind.value)
           long   == length.value > MAX_FRAME
           short  == Len(kept.pending) < total
           waits  == [says |-> "wait", reader |-> kept, frame |-> NoFrame]
           again  == [says |-> "again", frame |-> NoFrame,
                      reader |-> Reader(Advance(kept.pending, head), length.value)]
           longer == [says |-> "FrameTooLong", reader |-> kept, frame |-> NoFrame]
           whole  == [says |-> "frame", reader |-> Reader(Advance(kept.pending, total), 0),
                      frame |-> Frame(kind.value, SubSeq(kept.pending, head + 1, total))]
           pass   == Pass(reader)
<1> SUFFICES "pending" \in DOMAIN pass.reader OBVIOUS
<1>1. /\ cut => pass = waits
      /\ ~cut /\ ~known => pass = again
      /\ ~cut /\ known /\ long => pass = longer
      /\ ~cut /\ known /\ ~long /\ short => pass = waits
      /\ ~cut /\ known /\ ~long /\ ~short => pass = whole
  BY PassIs, Zenon
<1>2. "pending" \in DOMAIN kept BY DEF Discard, Reader
<1>3. /\ waits.reader = kept /\ longer.reader = kept
      /\ "pending" \in DOMAIN again.reader /\ "pending" \in DOMAIN whole.reader
  BY DEF Reader
<1> HIDE DEF kept, cut, known, long, short, waits, again, longer, whole, pass
<1>4. CASE cut BY <1>1, <1>2, <1>3, <1>4
<1>5. CASE ~cut /\ ~known BY <1>1, <1>3, <1>5
<1>6. CASE ~cut /\ known /\ long BY <1>1, <1>2, <1>3, <1>6
<1>7. CASE ~cut /\ known /\ ~long /\ short BY <1>1, <1>2, <1>3, <1>7
<1>8. CASE ~cut /\ known /\ ~long /\ ~short BY <1>1, <1>3, <1>8
<1> QED BY <1>4, <1>5, <1>6, <1>7, <1>8, Zenon

LEMMA MeantAre ==
  ASSUME NEW stream \in Meant
  PROVE  stream.type \in Nat /\ Fits(stream.type) /\ MeantSo(stream.frames)
<1>1. /\ stream.type \in Nat /\ stream.frames \in Seq(Framed)
      /\ Fits(stream.type) /\ \A i \in DOMAIN stream.frames : WellMeant(stream.frames[i])
  BY MeantAssumption DEF MeantAssumption
<1>2. DOMAIN stream.frames = 1 .. Len(stream.frames) BY <1>1, LenProperties
<1>3. \A i \in 1 .. Len(stream.frames) : Fitting(stream.frames[i])
  BY <1>1, <1>2 DEF WellMeant, Fitting
<1> QED BY <1>1, <1>2, <1>3 DEF MeantSo, FramedSo

\* What is read of a stream's bytes in pieces is what there was.
LEMMA PieceJoins ==
  ASSUME NEW x \in Seq(Byte), NEW y \in Seq(Byte), NEW n \in 1 .. Len(y)
  PROVE  /\ x \o SubSeq(y, 1, n) \in Seq(Byte) /\ Advance(y, n) \in Seq(Byte)
         /\ (x \o SubSeq(y, 1, n)) \o Advance(y, n) = x \o y
         /\ Len(x \o SubSeq(y, 1, n)) + Len(Advance(y, n)) = Len(x) + Len(y)
<1> DEFINE piece == SubSeq(y, 1, n)
           rest == Advance(y, n)
<1>1. Len(x) \in Nat /\ Len(y) \in Nat /\ n \in Nat /\ \A i \in 1 .. Len(y) : y[i] \in Byte
  BY LenProperties, ElementOfSeq
<1>2. piece \in Seq(Byte)
  <2>1. \A i \in 1 .. n : y[i] \in Byte BY <1>1
  <2> QED BY <1>1, <2>1, SubSeqProperties
<1>3. rest \in Seq(Byte)
  <2>1. n \in 0 .. Len(y) BY <1>1
  <2> QED BY <2>1, AdvanceIs
<1>4. piece \o rest = y
  <2>1. 1 \in 1 .. Len(y) + 1 /\ n \in 1 - 1 .. Len(y) /\ Len(y) \in n .. Len(y) BY <1>1
  <2>2. SubSeq(y, 1, n) \o SubSeq(y, n + 1, Len(y)) = SubSeq(y, 1, Len(y))
    BY <2>1, ConcatAdjacentSubSeq
  <2>3. SubSeq(y, 1, Len(y)) = y BY SubSeqFull
  <2> QED BY <2>2, <2>3 DEF Advance
<1> HIDE DEF piece, rest
<1>5. (x \o piece) \o rest = x \o y
  <2>1. Associates(Byte) BY ConcatAssociates
  <2>2. x \in Seq(Byte) /\ piece \in Seq(Byte) /\ rest \in Seq(Byte) BY <1>2, <1>3
  <2>3. (x \o piece) \o rest = x \o (piece \o rest) BY ONLY <2>1, <2>2, Zenon DEF Associates
  <2> QED BY <1>4, <2>3
<1>6. x \o piece \in Seq(Byte) BY <1>2, ConcatProperties
<1>7. Len((x \o piece) \o rest) = Len(x \o piece) + Len(rest) BY <1>3, <1>6, ConcatProperties
<1>8. Len(x \o y) = Len(x) + Len(y) BY ConcatProperties
<1> QED BY <1>3, <1>5, <1>6, <1>7, <1>8 DEF piece, rest

\* A stream that is not read as a control stream, or not yet: what there is of it.
Fresh(s) ==
  /\ heard[s] = <<>> /\ peer[s].reader.skipping = 0 /\ peer[s].at \notin {"look", "frames"}
  /\ peer[s].at \in {"unopened", "type", "opening"} =>
       Unread(s) = <<>> \/ \E stream \in Meant : Unread(s) = Spelt(stream)

\* A control stream, read as far as one of its frames.
Read(s) ==
  /\ peer[s].at \notin {"unopened", "type", "opening", "drain"}
  /\ \E stream \in Meant :
       /\ stream.type = CONTROL
       /\ \E k \in 0 .. Len(stream.frames) :
            ReadTo(peer[s].reader, peer[s].left, heard[s], stream.frames, k)

StreamOK(s) == ReaderOK(peer[s].reader, peer[s].left) /\ (Fresh(s) \/ Read(s))

PeerShape ==
  /\ DOMAIN peer = Streams
  /\ \A s \in Streams : /\ {"at", "reader", "left"} \subseteq DOMAIN peer[s]
                        /\ "pending" \in DOMAIN peer[s].reader

FramesOK == PeerShape /\ \A s \in Streams : StreamOK(s)

\* One stream's task moves, or the endpoint on one stream.
\* A stream that is done with, whatever came of it.
Leaves(s) == StreamEnds(s) \/ StreamLost(s) \/ Fail(s)

Moves(s) ==
  \/ Accept(s) \/ Opening(s) \/ Look(s) \/ StreamLost(s) \/ Fail(s) \/ StreamEnds(s)
  \/ \E n \in 1 .. Len(peer[s].left) : Chunk(s, n)

LEMMA OneMoves ==
  ASSUME H3Next
  PROVE  peer' = peer \/ \E s \in Streams : Moves(s)
<1>1. CASE ConnectNext \/ Abandon
  <2>1. peer' = peer
    BY <1>1 DEF ConnectNext, NoHandshake, Handshake, OpenControl, Steps, TakeSettings, Fails,
                SettingsLost, ExchangeLost, OpenRequest, ReadResponse, ResponseEnds, Tell,
                Unanswered, RoomEnough, RoomLacking, Abandon
  <2> QED BY <2>1
<1>2. CASE \E s \in Streams : PeerNext(s)
  BY <1>2 DEF PeerNext, Moves
<1>3. CASE HalvesNext \/ DropTunnel
  <2>1. peer' = peer
    BY <1>3 DEF HalvesNext, Send, ReadDatagram, ReadAnswer, ReadWatch, Probe, ProbeAnswer,
                OfHalf, DropTunnel
  <2> QED BY <2>1
<1>4. CASE EndpointNext
  <2>1. CASE \E s \in Streams : StreamEnds(s) \/ \E n \in 1 .. Len(peer[s].left) : Chunk(s, n)
    BY <2>1 DEF Moves
  <2>2. CASE \/ \E datagram \in Inbound : Arrives(datagram)
             \/ RoomChanges \/ Lost
    <3>1. peer' = peer BY <2>2 DEF Arrives, OfHalf, RoomChanges, Lost
    <3> QED BY <3>1
  <2> QED BY <1>4, <2>1, <2>2 DEF EndpointNext
<1> QED BY <1>1, <1>2, <1>3, <1>4 DEF H3Next

\* Whichever it is, the others stay as they are.
LEMMA OthersStay ==
  ASSUME PeerShape, NEW s \in Streams, Moves(s)
  PROVE  /\ \A t \in Streams : t # s => peer'[t] = peer[t]
         /\ DOMAIN peer' = Streams
<1>1. DOMAIN peer = Streams BY DEF PeerShape
<1>2. CASE Accept(s) BY <1>1, <1>2 DEF Accept
<1>3. CASE Opening(s) BY <1>1, <1>3 DEF Opening
<1>4. CASE Look(s) BY <1>1, <1>4 DEF Look
<1>5. CASE StreamLost(s) BY <1>1, <1>5 DEF StreamLost
<1>6. CASE Fail(s) BY <1>1, <1>6 DEF Fail
<1>7. CASE StreamEnds(s) BY <1>1, <1>7 DEF StreamEnds
<1>8. CASE \E n \in 1 .. Len(peer[s].left) : Chunk(s, n) BY <1>1, <1>8 DEF Chunk
<1> QED BY <1>2, <1>3, <1>4, <1>5, <1>6, <1>7, <1>8 DEF Moves

\* Nothing is given of a stream that is not looked at, or that stays as it is.
LEMMA HeardStays ==
  ASSUME Recorded, NEW s \in Streams, peer[s].at # "look" \/ peer'[s] = peer[s]
  PROVE  heard'[s] = heard[s]
BY DEF Recorded, GivesFrame

LEMMA Stays ==
  ASSUME Recorded, NEW s \in Streams, StreamOK(s), peer'[s] = peer[s]
  PROVE  StreamOK(s)'
<1>1. heard'[s] = heard[s] BY HeardStays
<1>2. Unread(s)' = Unread(s) BY DEF Unread
<1>3. ReaderOK(peer[s].reader, peer[s].left)' BY DEF StreamOK
<1>4. Fresh(s) => Fresh(s)' BY <1>1, <1>2 DEF Fresh
<1>5. Read(s) => Read(s)' BY <1>1 DEF Read
<1> QED BY <1>3, <1>4, <1>5 DEF StreamOK

\* A control stream that is no longer looked at is read as far as it was.
LEMMA StaysRead ==
  ASSUME NEW s \in Streams, Read(s), peer'[s].reader = peer[s].reader,
         peer'[s].left = peer[s].left, heard'[s] = heard[s],
         peer'[s].at \in {"failing", "closing", "done"}
  PROVE  Read(s)'
<1>1. PICK stream \in Meant :
        /\ stream.type = CONTROL
        /\ \E k \in 0 .. Len(stream.frames) :
             ReadTo(peer[s].reader, peer[s].left, heard[s], stream.frames, k)
  BY DEF Read
<1>2. PICK k \in 0 .. Len(stream.frames) :
        ReadTo(peer[s].reader, peer[s].left, heard[s], stream.frames, k)
  BY <1>1
<1>3. ReadTo(peer[s].reader, peer[s].left, heard[s], stream.frames, k)'
  BY <1>2 DEF ReadTo
<1>4. peer'[s].at \notin {"unopened", "type", "opening", "drain"} BY ONLY
      peer'[s].at \in {"failing", "closing", "done"}
<1> QED BY <1>1, <1>3, <1>4 DEF Read

\* A task that ends, or is about to.
LEMMA LeftAsRead ==
  ASSUME Recorded, PeerShape, NEW s \in Streams, StreamOK(s), Leaves(s)
  PROVE  StreamOK(s)' /\ DOMAIN peer'[s] = DOMAIN peer[s] /\ peer'[s].reader = peer[s].reader
<1>1. "at" \in DOMAIN peer[s] /\ DOMAIN peer = Streams BY DEF PeerShape
<1>2. /\ peer[s].at # "look" /\ peer'[s].at \in {"failing", "closing", "done"}
      /\ peer'[s].reader = peer[s].reader /\ peer'[s].left = peer[s].left
      /\ DOMAIN peer'[s] = DOMAIN peer[s]
      /\ peer[s].at \in {"type", "frames", "drain", "failing", "closing"}
  <2>1. CASE StreamEnds(s) BY <1>1, <2>1 DEF StreamEnds, Waits
  <2>2. CASE StreamLost(s) BY <1>1, <2>2 DEF StreamLost, Waits
  <2>3. CASE Fail(s)
    <3>1. \/ /\ peer[s].at = "failing"
             /\ peer' = [peer EXCEPT ![s].at = "closing"]
          \/ /\ peer[s].at = "closing"
             /\ peer' = [peer EXCEPT ![s].at = "done"]
      BY ONLY <2>3 DEF Fail
    <3>2. CASE peer[s].at = "failing" /\ peer' = [peer EXCEPT ![s].at = "closing"]
      BY <1>1, <3>2
    <3>3. CASE peer[s].at = "closing" /\ peer' = [peer EXCEPT ![s].at = "done"]
      BY <1>1, <3>3
    <3> QED BY <3>1, <3>2, <3>3
  <2>4. StreamEnds(s) \/ StreamLost(s) \/ Fail(s) BY DEF Leaves
  <2> QED BY <2>1, <2>2, <2>3, <2>4
<1>3. heard'[s] = heard[s] BY <1>2, HeardStays
<1>4. ReaderOK(peer[s].reader, peer[s].left)' BY <1>2 DEF StreamOK
<1>5. Fresh(s) => Fresh(s)'
  <2>1. /\ peer'[s].at \notin {"look", "frames"}
        /\ peer'[s].at \notin {"unopened", "type", "opening"}
    BY <1>2
  <2> QED BY <1>2, <1>3, <2>1 DEF Fresh
<1>6. Read(s) => Read(s)' BY <1>2, <1>3, StaysRead
<1>7. Fresh(s) \/ Read(s) BY DEF StreamOK
<1>8. Fresh(s)' \/ Read(s)' BY <1>5, <1>6, <1>7
<1>9. StreamOK(s)' BY <1>4, <1>8 DEF StreamOK
<1> QED BY <1>2, <1>9

LEMMA Accepts ==
  ASSUME Recorded, PeerShape, NEW s \in Streams, StreamOK(s), Accept(s)
  PROVE  StreamOK(s)' /\ DOMAIN peer'[s] = DOMAIN peer[s] /\ peer'[s].reader = peer[s].reader
<1>1. "at" \in DOMAIN peer[s] /\ DOMAIN peer = Streams BY DEF PeerShape
<1>2. /\ peer[s].at = "unopened" /\ peer'[s].at = "type"
      /\ peer'[s].reader = peer[s].reader /\ peer'[s].left = peer[s].left
      /\ DOMAIN peer'[s] = DOMAIN peer[s]
  BY <1>1 DEF Accept
<1>3. heard'[s] = heard[s] BY <1>2, HeardStays
<1>4. ReaderOK(peer[s].reader, peer[s].left)' BY <1>2 DEF StreamOK
<1>5. Unread(s)' = Unread(s) BY <1>2 DEF Unread
<1>6. Fresh(s) BY <1>2 DEF StreamOK, Read
<1>7. Fresh(s)' BY <1>2, <1>3, <1>5, <1>6 DEF Fresh
<1> QED BY <1>2, <1>4, <1>7 DEF StreamOK

\* A piece that arrives is still to be read.
LEMMA Arrived ==
  ASSUME Recorded, PeerShape, NEW s \in Streams, StreamOK(s),
         NEW n \in 1 .. Len(peer[s].left), Chunk(s, n)
  PROVE  /\ StreamOK(s)' /\ DOMAIN peer'[s] = DOMAIN peer[s]
         /\ "pending" \in DOMAIN peer'[s].reader
<1> DEFINE x == peer[s].reader.pending
           y == peer[s].left
           piece == SubSeq(y, 1, n)
<1>1. /\ {"at", "reader", "left"} \subseteq DOMAIN peer[s] /\ "pending" \in DOMAIN peer[s].reader
      /\ DOMAIN peer = Streams
  BY DEF PeerShape
<1>2. /\ peer[s].at \in {"type", "frames", "drain"} /\ DOMAIN peer'[s] = DOMAIN peer[s]
      /\ peer'[s].left = Advance(y, n)
      /\ peer'[s].reader = IF peer[s].at = "drain" THEN peer[s].reader
                           ELSE Extend(peer[s].reader, piece)
      /\ peer'[s].at = IF peer[s].at = "type" THEN "opening"
                       ELSE IF peer[s].at = "frames" THEN "look" ELSE peer[s].at
  BY <1>1 DEF Chunk, Waits
<1>3. heard'[s] = heard[s] BY <1>2, HeardStays
<1>4. /\ x \in Seq(Byte) /\ y \in Seq(Byte) /\ peer[s].reader.skipping \in Nat
      /\ peer[s].reader.skipping <= Len(x) + Len(y)
  BY DEF StreamOK, ReaderOK
<1>5. /\ x \o piece \in Seq(Byte) /\ Advance(y, n) \in Seq(Byte)
      /\ (x \o piece) \o Advance(y, n) = x \o y
      /\ Len(x \o piece) + Len(Advance(y, n)) = Len(x) + Len(y)
  BY <1>4, PieceJoins
<1>6. /\ "pending" \in DOMAIN Extend(peer[s].reader, piece)
      /\ Extend(peer[s].reader, piece).pending = x \o piece
      /\ Extend(peer[s].reader, piece).skipping = peer[s].reader.skipping
  BY <1>1 DEF Extend
<1> HIDE DEF x, y, piece
<1>7. CASE peer[s].at = "drain"
  <2>1. peer'[s].reader = peer[s].reader /\ peer'[s].at = "drain" BY <1>2, <1>7
  <2>2. Fresh(s) BY <1>7 DEF StreamOK, Read
  <2>3. peer[s].reader.skipping = 0 BY <2>2 DEF Fresh
  <2>4. Fresh(s)' BY <1>3, <2>1, <2>2 DEF Fresh
  <2>5. Len(x) \in Nat /\ Len(Advance(y, n)) \in Nat BY <1>4, <1>5, LenProperties
  <2>6. peer'[s].reader.pending = x BY <2>1 DEF x
  <2>7. ReaderOK(peer[s].reader, peer[s].left)'
    BY <1>2, <1>4, <1>5, <2>1, <2>3, <2>5, <2>6 DEF ReaderOK
  <2> QED BY <1>1, <1>2, <2>1, <2>4, <2>7 DEF StreamOK
<1>8. CASE peer[s].at \in {"type", "frames"}
  <2>1. /\ peer'[s].reader.pending = x \o piece
        /\ peer'[s].reader.skipping = peer[s].reader.skipping
        /\ "pending" \in DOMAIN peer'[s].reader
    BY <1>2, <1>6, <1>8
  <2>2. ReaderOK(peer[s].reader, peer[s].left)' BY <1>2, <1>4, <1>5, <2>1 DEF ReaderOK
  <2>3. Unread(s)' = Unread(s) BY <1>2, <1>5, <2>1 DEF Unread, x, y
  <2>4. CASE peer[s].at = "type"
    <3>1. peer'[s].at = "opening" BY <1>2, <2>4
    <3>2. Fresh(s) BY <2>4 DEF StreamOK, Read
    <3>3. Fresh(s)' BY <1>3, <2>1, <2>3, <2>4, <3>1, <3>2 DEF Fresh
    <3> QED BY <1>2, <2>1, <2>2, <3>3 DEF StreamOK
  <2>5. CASE peer[s].at = "frames"
    <3>1. peer'[s].at = "look" BY <1>2, <2>5
    <3>2. Read(s) BY <2>5 DEF StreamOK, Fresh
    <3>3. PICK stream \in Meant :
            /\ stream.type = CONTROL
            /\ \E k \in 0 .. Len(stream.frames) :
                 ReadTo(peer[s].reader, peer[s].left, heard[s], stream.frames, k)
      BY <3>2 DEF Read
    <3>4. PICK k \in 0 .. Len(stream.frames) :
            ReadTo(peer[s].reader, peer[s].left, heard[s], stream.frames, k)
      BY <3>3
    <3>5. ReadTo(peer[s].reader, peer[s].left, heard[s], stream.frames, k)'
      BY <1>3, <2>1, <2>3, <3>4 DEF ReadTo, Unread
    <3>6. Read(s)' BY <3>1, <3>3, <3>5 DEF Read
    <3> QED BY <1>2, <2>1, <2>2, <3>6 DEF StreamOK
  <2> QED BY <1>8, <2>4, <2>5
<1> QED BY <1>2, <1>7, <1>8

\* The type in front is taken off, and a control stream is read from its first frame.
LEMMA Opens ==
  ASSUME Recorded, PeerShape, NEW s \in Streams, StreamOK(s), Opening(s)
  PROVE  /\ StreamOK(s)' /\ DOMAIN peer'[s] = DOMAIN peer[s]
         /\ "pending" \in DOMAIN peer'[s].reader
<1> DEFINE x == peer[s].reader.pending
           y == peer[s].left
           kind == Get(x)
           broken == kind.value = CONTROL /\ seen
           rest == Advance(x, kind.used)
<1>1. /\ {"at", "reader", "left"} \subseteq DOMAIN peer[s] /\ "pending" \in DOMAIN peer[s].reader
      /\ DOMAIN peer = Streams
  BY DEF PeerShape
<1>2. /\ peer[s].at = "opening" /\ DOMAIN peer'[s] = DOMAIN peer[s]
      /\ peer'[s].left = y
      /\ peer'[s].reader = [peer[s].reader EXCEPT !.pending = rest]
      /\ peer'[s].at = IF kind.used = 0 THEN "type"
                       ELSE IF broken THEN "failing"
                       ELSE IF kind.value = CONTROL THEN "look"
                       ELSE IF kind.value \in {QPACK_ENCODER, QPACK_DECODER} THEN "drain"
                       ELSE "done"
  BY <1>1 DEF Opening
<1>3. heard'[s] = heard[s] BY <1>2, HeardStays
<1>4. Fresh(s) BY <1>2 DEF StreamOK, Read
<1>5. /\ x \in Seq(Byte) /\ y \in Seq(Byte) /\ peer[s].reader.skipping = 0 /\ heard[s] = <<>>
      /\ x \o y = <<>> \/ \E stream \in Meant : x \o y = Spelt(stream)
  BY <1>2, <1>4 DEF StreamOK, ReaderOK, Fresh, Unread
<1> HIDE DEF broken, rest
<1>6. /\ "pending" \in DOMAIN peer'[s].reader /\ peer'[s].reader.pending = rest
      /\ peer'[s].reader.skipping = 0
  BY <1>1, <1>2, <1>5
<1> HIDE DEF x, y, kind
<1>7. ASSUME kind.used = 0 PROVE StreamOK(s)'
  <2>1. rest = x BY <1>5, <1>7, AdvanceNone DEF rest
  <2>2. peer'[s].at = "type" BY <1>2, <1>7
  <2>3. Unread(s)' = Unread(s) BY <1>2, <1>6, <2>1 DEF Unread, x, y
  <2>4. Fresh(s)' BY <1>2, <1>3, <1>4, <1>6, <2>2, <2>3 DEF Fresh
  <2>5. Len(rest) \in Nat /\ Len(y) \in Nat BY <1>5, <2>1, LenProperties
  <2>6. ReaderOK(peer[s].reader, peer[s].left)' BY <1>2, <1>5, <1>6, <2>1, <2>5 DEF ReaderOK
  <2> QED BY <2>4, <2>6 DEF StreamOK
<1>8. ASSUME kind.used # 0 PROVE StreamOK(s)'
  <2>1. x \o y # <<>>
    <3> SUFFICES ASSUME x \o y = <<>> PROVE FALSE OBVIOUS
    <3>1. x = <<>> BY <1>5, ConcatSimplifications
    <3>2. Get(<<>>).used = 0 BY DEF Get, NotWhole
    <3> QED BY <1>8, <3>1, <3>2 DEF kind
  <2>2. PICK stream \in Meant : x \o y = Spelt(stream) BY <1>5, <2>1
  <2> DEFINE type == Put(stream.type)
             n == VarintLen(stream.type)
             said == Said(stream.frames)
  <2>3. stream.type \in Nat /\ Fits(stream.type) /\ MeantSo(stream.frames) BY MeantAre
  <2>4. type \in Seq(Byte) /\ Len(type) = n /\ n \in Nat BY <2>3, PutTyped
  <2>5. said \in Seq(Byte) /\ FramedSo(stream.frames) BY <2>3, SaidOfNone DEF MeantSo
  <2>6. x \o y = type \o said BY <2>2 DEF Spelt
  <2> HIDE DEF type, said
  <2>7. /\ Len(x) \in Nat
        /\ \A i \in 1 .. Len(x) : i <= n => x[i] = type[i]
    BY <1>5, <2>4, <2>5, <2>6, CameIs
  <2>8. Agrees(x, stream.type) BY <2>7 DEF Agrees, type
  <2>9. /\ Len(x) < n => kind = NotWhole
        /\ n <= Len(x) => kind = [value |-> stream.type, used |-> n]
    BY <1>5, <2>3, <2>8, PutIsGot DEF kind
  <2> HIDE DEF n
  <2>10. ~(Len(x) < n) BY <1>8, <2>9 DEF NotWhole
  <2>11. n <= Len(x) /\ kind.value = stream.type /\ kind.used = n BY <2>4, <2>7, <2>9, <2>10
  <2>12. rest \in Seq(Byte) /\ rest \o y = said
    <3>1. Meets(x, y, type, said) BY <2>6 DEF Meets
    <3>2. Len(type) <= Len(x) BY <2>4, <2>11
    <3>3. Advance(x, Len(type)) \in Seq(Byte) /\ Advance(x, Len(type)) \o y = said
      BY <1>5, <2>4, <2>5, <3>1, <3>2, LeftOf
    <3> QED BY <2>4, <2>11, <3>3 DEF rest
  <2>13. Len(rest) \in Nat /\ Len(y) \in Nat BY <1>5, <2>12, LenProperties
  <2>14. ReaderOK(peer[s].reader, peer[s].left)' BY <1>2, <1>5, <1>6, <2>12, <2>13 DEF ReaderOK
  <2>15. CASE broken \/ kind.value # CONTROL
    <3>1. peer'[s].at \in {"failing", "drain", "done"} BY <1>2, <1>8, <2>15
    <3>2. /\ peer'[s].at \notin {"look", "frames"}
          /\ peer'[s].at \notin {"unopened", "type", "opening"}
      BY <3>1
    <3>3. Fresh(s)' BY <1>3, <1>5, <1>6, <3>2 DEF Fresh
    <3> QED BY <2>14, <3>3 DEF StreamOK
  <2>16. CASE ~broken /\ kind.value = CONTROL
    <3>1. peer'[s].at = "look" BY <1>2, <1>8, <2>16
    <3>2. stream.type = CONTROL BY <2>11, <2>16
    <3>3. Len(stream.frames) \in Nat /\ stream.frames \in Seq(Framed)
      BY <2>5, LenProperties DEF FramedSo
    <3>4. 0 \in 0 .. Len(stream.frames) /\ 1 \in 1 .. Len(stream.frames) + 1
          /\ 0 \in 1 - 1 .. Len(stream.frames)
      BY <3>3
    <3>5. Known(SubSeq(stream.frames, 1, 0)) = <<>>
      <4>1. Known(SubSeq(stream.frames, 1, 0))
              = FlattenSeq(SubSeq(Readings(stream.frames), 1, 0))
        BY <2>5, <3>4, KnownPart
      <4>2. SubSeq(Readings(stream.frames), 1, 0) = <<>> BY SubSeqEmpty
      <4> QED BY <4>1, <4>2, FlattenOfNone
    <3>6. Advance(stream.frames, 0) = stream.frames BY <3>3, AdvanceNone
    <3>7. Advance(rest \o y, 0) = rest \o y
      <4>1. rest \o y \in Seq(Byte) BY <2>5, <2>12
      <4> QED BY <4>1, AdvanceNone
    <3>8. Advance(rest \o y, 0) = Said(Advance(stream.frames, 0))
      BY <2>12, <3>6, <3>7 DEF said
    <3>9. ReadTo(peer[s].reader, peer[s].left, heard[s], stream.frames, 0)'
      BY <1>2, <1>3, <1>5, <1>6, <3>5, <3>8 DEF ReadTo
    <3>10. Read(s)' BY <3>1, <3>2, <3>4, <3>9 DEF Read
    <3> QED BY <2>14, <3>10 DEF StreamOK
  <2> QED BY <2>15, <2>16
<1> QED BY <1>2, <1>6, <1>7, <1>8

\* A look gives the next frame, or skips one, or waits, or finds a rule broken.
LEMMA Looks ==
  ASSUME Recorded, PeerShape, NEW s \in Streams, StreamOK(s), Look(s)
  PROVE  /\ StreamOK(s)' /\ DOMAIN peer'[s] = DOMAIN peer[s]
         /\ "pending" \in DOMAIN peer'[s].reader
<1> DEFINE pass == Pass(peer[s].reader)
           now == IF pass.says = "frame" THEN Append(heard[s], pass.frame) ELSE heard[s]
<1>1. {"at", "reader", "left"} \subseteq DOMAIN peer[s] /\ DOMAIN peer = Streams
  BY DEF PeerShape
<1>2. /\ peer[s].at = "look" /\ DOMAIN peer'[s] = DOMAIN peer[s]
      /\ peer'[s].left = peer[s].left /\ peer'[s].reader = pass.reader
      /\ peer'[s].at \in {"failing", "frames", "look"}
  BY <1>1 DEF Look
<1>3. Read(s) /\ ReaderOK(peer[s].reader, peer[s].left) BY <1>2 DEF StreamOK, Fresh
<1>4. PICK stream \in Meant :
        /\ stream.type = CONTROL
        /\ \E k \in 0 .. Len(stream.frames) :
             ReadTo(peer[s].reader, peer[s].left, heard[s], stream.frames, k)
  BY <1>3 DEF Read
<1>5. PICK k \in 0 .. Len(stream.frames) :
        ReadTo(peer[s].reader, peer[s].left, heard[s], stream.frames, k)
  BY <1>4
<1>6. MeantSo(stream.frames) BY MeantAre
<1>7. /\ ReaderOK(pass.reader, peer[s].left)
      /\ \E j \in 0 .. Len(stream.frames) :
            ReadTo(pass.reader, peer[s].left, now, stream.frames, j)
      /\ pass.says = "frame" => pass.reader # peer[s].reader
  BY <1>3, <1>5, <1>6, LookReads
<1>8. "pending" \in DOMAIN pass.reader BY PassShape
<1>9. heard'[s] = now
  <2>1. GivesFrame(s) <=> pass.says = "frame"
    <3>1. pass.says = "frame" => peer'[s] # peer[s] BY <1>2, <1>7
    <3> HIDE DEF pass
    <3> QED BY <1>2, <3>1 DEF GivesFrame, pass
  <2>2. heard'[s] = IF GivesFrame(s) THEN Append(heard[s], Pass(peer[s].reader).frame) ELSE heard[s]
    BY DEF Recorded
  <2> QED BY <2>1, <2>2
<1> HIDE DEF pass, now
<1>10. PICK j \in 0 .. Len(stream.frames) :
         ReadTo(pass.reader, peer[s].left, now, stream.frames, j)
  BY <1>7
<1>11. ReadTo(peer[s].reader, peer[s].left, heard[s], stream.frames, j)'
  BY <1>2, <1>9, <1>10 DEF ReadTo
<1>12. ReaderOK(peer[s].reader, peer[s].left)' BY <1>2, <1>7 DEF ReaderOK
<1>13. peer'[s].at \notin {"unopened", "type", "opening", "drain"} BY <1>2
<1>14. Read(s)' BY <1>4, <1>11, <1>13 DEF Read
<1> QED BY <1>2, <1>8, <1>12, <1>14 DEF StreamOK

LEMMA StepKeepsFrames ==
  ASSUME FramesOK, [H3Next /\ Recorded]_<<vars, readVars>>
  PROVE  FramesOK'
<1>1. PeerShape /\ \A s \in Streams : StreamOK(s) BY DEF FramesOK
<1>2. ASSUME H3Next, Recorded PROVE FramesOK'
  <2>1. CASE peer' = peer
    <3>1. \A s \in Streams : StreamOK(s)' BY <1>1, <1>2, <2>1, Stays
    <3>2. PeerShape' BY <1>1, <2>1 DEF PeerShape
    <3> QED BY <3>1, <3>2 DEF FramesOK
  <2>2. ASSUME NEW s \in Streams, Moves(s) PROVE FramesOK'
    <3>1. /\ \A t \in Streams : t # s => peer'[t] = peer[t]
          /\ DOMAIN peer' = Streams
      BY <1>1, <2>2, OthersStay
    <3>2. /\ StreamOK(s)' /\ DOMAIN peer'[s] = DOMAIN peer[s]
          /\ "pending" \in DOMAIN peer'[s].reader
      <4>1. "pending" \in DOMAIN peer[s].reader BY <1>1 DEF PeerShape
      <4>2. CASE Accept(s) BY <1>1, <1>2, <4>1, <4>2, Accepts
      <4>3. CASE Opening(s) BY <1>1, <1>2, <4>3, Opens
      <4>4. CASE Look(s) BY <1>1, <1>2, <4>4, Looks
      <4>5. CASE Leaves(s) BY <1>1, <1>2, <4>1, <4>5, LeftAsRead
      <4>6. CASE \E n \in 1 .. Len(peer[s].left) : Chunk(s, n)
        BY <1>1, <1>2, <4>6, Arrived
      <4> QED BY <2>2, <4>2, <4>3, <4>4, <4>5, <4>6 DEF Moves, Leaves
    <3>3. ASSUME NEW t \in Streams PROVE StreamOK(t)'
      <4>1. CASE t = s BY <3>2, <4>1
      <4>2. CASE t # s BY <1>1, <1>2, <3>1, <4>2, Stays
      <4> QED BY <4>1, <4>2
    <3>4. PeerShape'
      <4>1. ASSUME NEW t \in Streams
            PROVE  /\ {"at", "reader", "left"} \subseteq DOMAIN peer'[t]
                   /\ "pending" \in DOMAIN peer'[t].reader
        <5>1. CASE t = s BY <1>1, <3>2, <5>1 DEF PeerShape
        <5>2. CASE t # s BY <1>1, <3>1, <5>2 DEF PeerShape
        <5> QED BY <5>1, <5>2
      <4> QED BY <3>1, <4>1 DEF PeerShape
    <3> QED BY <3>3, <3>4 DEF FramesOK
  <2> QED BY <1>2, <2>1, <2>2, OneMoves
<1>3. CASE UNCHANGED <<vars, readVars>>
  <2>1. peer' = peer /\ heard' = heard BY <1>3 DEF vars, readVars
  <2>2. ASSUME NEW s \in Streams PROVE StreamOK(s)'
    <3>1. StreamOK(s) BY <1>1
    <3> QED BY <2>1, <3>1 DEF StreamOK, Fresh, Read, Unread, ReaderOK, ReadTo
  <2>3. PeerShape' BY <1>1, <2>1 DEF PeerShape
  <2> QED BY <2>2, <2>3 DEF FramesOK
<1> QED BY <1>2, <1>3

\* Whatever frames an endpoint puts on its streams, and wherever their bytes are cut,
\* what is given of a control stream are the frames so far that are known, whole, in
\* order, and none of them too long, and the rest is still to be read
\* (FrameReader::next_frame, src/transport/http3.rs:154).
THEOREM ReadWholeInOrder == FrameSpec => []FramesAsWhole
<1>1. H3Init /\ FrameInit => FramesOK
  <2> SUFFICES ASSUME H3Init, FrameInit PROVE FramesOK OBVIOUS
  <2>1. PICK endpoint \in Endpoints :
          peer = [s \in Streams |->
                    [at |-> "unopened", reader |-> EmptyReader, settled |-> FALSE,
                     error |-> "none", left |-> endpoint.script[s], pieces |-> endpoint.pieces]]
    BY DEF H3Init
  <2>2. PeerShape BY <2>1 DEF PeerShape, EmptyReader, Reader
  <2>3. ASSUME NEW s \in Streams PROVE StreamOK(s)
    <3>1. /\ peer[s].at = "unopened" /\ peer[s].left = endpoint.script[s]
          /\ peer[s].reader.pending = <<>> /\ peer[s].reader.skipping = 0
          /\ heard[s] = <<>>
      BY <2>1 DEF EmptyReader, Reader, FrameInit
    <3> DEFINE said == endpoint.script[s]
    <3>2. said = <<>> \/ \E stream \in Meant : said = Spelt(stream)
      BY MeantAssumption DEF MeantAssumption
    <3> HIDE DEF said
    <3>3. said \in Seq(Byte)
      <4>1. CASE said = <<>> BY <4>1, EmptySeq
      <4>2. ASSUME NEW stream \in Meant, said = Spelt(stream) PROVE said \in Seq(Byte)
        <5> DEFINE type == Put(stream.type)
                   frames == Said(stream.frames)
        <5>1. stream.type \in Nat /\ Fits(stream.type) /\ MeantSo(stream.frames) BY MeantAre
        <5>2. type \in Seq(Byte) BY <5>1, PutTyped
        <5>3. frames \in Seq(Byte) BY <5>1, SaidOfNone DEF MeantSo
        <5>4. said = type \o frames BY <4>2 DEF Spelt
        <5> HIDE DEF type, frames
        <5> QED BY <5>2, <5>3, <5>4, ConcatProperties
      <4> QED BY <3>2, <4>1, <4>2
    <3>4. <<>> \in Seq(Byte) /\ <<>> \o said = said BY <3>3, EmptySeq, ConcatEmptySeq
    <3>5. Unread(s) = said BY <3>1, <3>4 DEF Unread, said
    <3>6. Fresh(s) BY <3>1, <3>2, <3>5 DEF Fresh
    <3>7. Len(said) \in Nat /\ Len(<<>>) = 0 BY <3>3, LenProperties
    <3>8. ReaderOK(peer[s].reader, peer[s].left) BY <3>1, <3>3, <3>4, <3>7 DEF ReaderOK, said
    <3> QED BY <3>6, <3>8 DEF StreamOK
  <2> QED BY <2>2, <2>3 DEF FramesOK
<1>2. FramesOK /\ [H3Next /\ Recorded]_<<vars, readVars>> => FramesOK' BY StepKeepsFrames
<1>3. FramesOK => FramesAsWhole
  <2> SUFFICES ASSUME FramesOK, NEW s \in Streams
               PROVE  \/ heard[s] = <<>> /\ peer[s].at \notin {"look", "frames"}
                      \/ \E stream \in Meant : \E k \in 0 .. Len(stream.frames) :
                          /\ stream.type = CONTROL
                          /\ heard[s] = Known(SubSeq(stream.frames, 1, k))
                          /\ \A i \in 1 .. k : IsKnown(stream.frames[i].type)
                                                  => stream.frames[i].length <= MAX_FRAME
                          /\ Advance(Unread(s), peer[s].reader.skipping)
                                = Said(Advance(stream.frames, k))
    BY DEF FramesAsWhole
  <2>1. Fresh(s) \/ Read(s) BY DEF FramesOK, StreamOK
  <2>2. CASE Fresh(s) BY <2>2 DEF Fresh
  <2>3. CASE Read(s) BY <2>3 DEF Read, ReadTo, Unread
  <2> QED BY <2>1, <2>2, <2>3
<1> QED BY <1>1, <1>2, <1>3, PTL DEF FrameSpec

-----------------------------------------------------------------------------
(* HTTP/3: the packets of datagrams.                                       *)

LEMMA PutOfZero == Put(0) = <<0>>
<1>1. VarintLen(0) = 1 BY SMT DEF VarintLen
<1>2. Prefix(1) = 0 BY PrefixIs
<1>3. Shifted(0)[0] = 0 BY ShiftedIs
<1>4. Put(0)[1] = 0 BY <1>1, <1>2, <1>3, PutIs
<1>5. \A i \in 1 .. VarintLen(0) : Put(0)[i] \in {0} BY <1>1, <1>4
<1>6. Put(0) \in Seq({0}) BY <1>1, <1>5, PutIsASeq
<1>7. DOMAIN Put(0) = 1 .. 1 BY <1>1 DEF Put
<1>8. Len(Put(0)) = 1 BY <1>6, <1>7, LenProperties
<1> QED BY <1>4, <1>6, <1>8

\* Of a datagram that has a packet for this request, the bytes are those of sending it.
LEMMA PacketIsOfThis ==
  ASSUME NEW datagram \in Inbound, NEW packet \in DatagramPacket(datagram, StreamId)
  PROVE  Datagram(StreamId, packet) = datagram
<1> DEFINE quarter == Get(datagram)
           context == Get(Advance(datagram, quarter.used))
<1>1. /\ quarter.used # 0 /\ quarter.value = StreamId \div 4
      /\ context.used # 0 /\ context.value = 0
      /\ packet = Advance(datagram, quarter.used + context.used)
  BY DEF DatagramPacket
<1>2. Addressed(datagram) BY MeantAssumption DEF MeantAssumption
<1>3. datagram = Put(quarter.value) \o Put(context.value)
                   \o Advance(datagram, quarter.used + context.used)
  BY <1>1, <1>2 DEF Addressed
<1> HIDE DEF quarter, context
<1>4. datagram = Put(StreamId \div 4) \o <<0>> \o packet BY <1>1, <1>3, PutOfZero
<1> QED BY <1>4 DEF Datagram

\* What waits to be read was sent, and what was given was of this request.
PacketsOK == arrived \in Seq(Inbound) /\ PacketsOfThisRequest

\* Datagrams are left, read, dropped with the tunnel, or there is one more.
LEMMA DatagramsMove ==
  ASSUME H3Next
  PROVE  \/ arrived' \in {arrived, <<>>}
         \/ arrived # <<>> /\ arrived' = Tail(arrived)
         \/ \E datagram \in Inbound : arrived' = Append(arrived, datagram)
<1>1. CASE ConnectNext \/ Abandon
  <2>1. arrived' = arrived
    BY <1>1 DEF ConnectNext, NoHandshake, Handshake, OpenControl, Steps, TakeSettings, Fails,
                SettingsLost, ExchangeLost, OpenRequest, ReadResponse, ResponseEnds, Tell,
                Unanswered, RoomEnough, RoomLacking, Abandon, tunnelVars
  <2> QED BY <2>1
<1>2. ASSUME NEW s \in Streams, PeerNext(s) PROVE arrived' = arrived
  BY <1>2 DEF PeerNext, Accept, Opening, Look, StreamLost, Fail, OfPeer, tunnelVars
<1>3. ASSUME HalvesNext
      PROVE  \/ arrived' = arrived
             \/ arrived # <<>> /\ arrived' = Tail(arrived)
  <2>1. CASE ReadDatagram BY <2>1 DEF ReadDatagram
  <2>2. CASE \/ \E packet \in Outbound : Send(packet)
             \/ ReadAnswer \/ ReadWatch \/ Probe \/ ProbeAnswer
    BY <2>2 DEF Send, ReadAnswer, ReadWatch, Probe, ProbeAnswer
  <2> QED BY <1>3, <2>1, <2>2 DEF HalvesNext
<1>4. CASE DropTunnel BY <1>4 DEF DropTunnel
<1>5. CASE EndpointNext
  <2>1. ASSUME NEW s \in Streams, StreamEnds(s) PROVE arrived' = arrived
    BY <2>1 DEF StreamEnds, OfPeer
  <2>2. ASSUME NEW s \in Streams, NEW n \in 1 .. Len(peer[s].left), Chunk(s, n)
        PROVE  arrived' = arrived
    BY <2>2 DEF Chunk, OfPeer
  <2>3. ASSUME NEW datagram \in Inbound, Arrives(datagram)
        PROVE  arrived' = Append(arrived, datagram)
    BY <2>3 DEF Arrives
  <2>4. CASE RoomChanges \/ Lost BY <2>4 DEF RoomChanges, Lost, tunnelVars
  <2> QED BY <1>5, <2>1, <2>2, <2>3, <2>4 DEF EndpointNext
<1> QED BY <1>1, <1>2, <1>3, <1>4, <1>5 DEF H3Next

\* Whatever datagrams the endpoint sends, for whatever request and context, the packets
\* given are those sent for this request and its context 0, as they were sent
\* (datagram_packet, src/transport/http3.rs:365).
THEOREM GivenAsSent == FrameSpec => []PacketsOfThisRequest
<1>1. H3Init /\ FrameInit => PacketsOK
  <2> SUFFICES ASSUME H3Init, FrameInit PROVE PacketsOK OBVIOUS
  <2>1. arrived = <<>> /\ given = {} BY DEF H3Init, FrameInit
  <2> QED BY <2>1, EmptySeq DEF PacketsOK, PacketsOfThisRequest
<1>2. ASSUME PacketsOK, [H3Next /\ Recorded]_<<vars, readVars>>
      PROVE  PacketsOK'
  <2>1. arrived \in Seq(Inbound) /\ \A packet \in given : Datagram(StreamId, packet) \in Inbound
    BY <1>2 DEF PacketsOK, PacketsOfThisRequest
  <2>2. ASSUME H3Next, Recorded PROVE PacketsOK'
    <3>1. arrived' \in Seq(Inbound)
      <4>1. CASE arrived' \in {arrived, <<>>} BY <2>1, <4>1, EmptySeq
      <4>2. CASE arrived # <<>> /\ arrived' = Tail(arrived)
        BY <2>1, <4>2, HeadTailProperties
      <4>3. ASSUME NEW datagram \in Inbound, arrived' = Append(arrived, datagram)
            PROVE  arrived' \in Seq(Inbound)
        BY <2>1, <4>3, AppendProperties
      <4> QED BY <2>2, <4>1, <4>2, <4>3, DatagramsMove
    <3>2. ASSUME NEW packet \in given' PROVE Datagram(StreamId, packet) \in Inbound
      <4>1. CASE packet \in given BY <2>1, <4>1
      <4>2. CASE packet \notin given
        <5>1. arrived # <<>> /\ packet \in DatagramPacket(Head(arrived), StreamId)
          BY <2>2, <3>2, <4>2 DEF Recorded
        <5>2. Head(arrived) \in Inbound BY <2>1, <5>1, HeadTailProperties
        <5>3. Datagram(StreamId, packet) = Head(arrived) BY <5>1, <5>2, PacketIsOfThis
        <5> QED BY <5>2, <5>3
      <4> QED BY <4>1, <4>2
    <3> QED BY <3>1, <3>2 DEF PacketsOK, PacketsOfThisRequest
  <2>3. CASE UNCHANGED <<vars, readVars>>
    <3>1. arrived' = arrived /\ given' = given BY <2>3 DEF vars, readVars
    <3> QED BY <2>1, <3>1 DEF PacketsOK, PacketsOfThisRequest
  <2> QED BY <1>2, <2>2, <2>3
<1>3. PacketsOK => PacketsOfThisRequest BY DEF PacketsOK
<1> QED BY <1>1, <1>2, <1>3, PTL DEF FrameSpec

\* What an endpoint means by its streams and its datagrams is what is read of them, over
\* whatever streams, frames and cuts, and whatever datagrams
\* (src/transport/http3.rs:154, :365).
THEOREM ReadAsMeant == FrameSpec => []GivenAsMeant
<1>1. FramesAsWhole /\ PacketsOfThisRequest => GivenAsMeant BY DEF GivenAsMeant
<1> QED BY <1>1, ReadWholeInOrder, GivenAsSent, PTL
=============================================================================
