--------------------------- MODULE MCPacketQueue ----------------------------
(***************************************************************************)
(* Instances of the queue, and a record of how far one bucket got ahead of *)
(* another that was kept waiting.                                          *)
(***************************************************************************)
EXTENDS PacketQueue

VARIABLE streak     \* bytes each bucket was given while each other waited

Waits(b) == Contains(backlogged, b) /\ packets[b] # <<>>

\* What it was given: the last of the packets that left it.
Given(b) == packets[b][Len(packets[b]) - Len(packets'[b])].bytes

HistInit == QueueInit /\ streak = [b \in Buckets |-> [c \in Buckets |-> 0]]

HistNext ==
    /\ Next
    /\ streak' = [b \in Buckets |-> [c \in Buckets |->
        IF Serves(c) \/ ~Waits(c) THEN 0
        ELSE IF Serves(b) /\ fresh = <<>> THEN streak[b][c] + Given(b) ELSE streak[b][c]]]

HistSpec == HistInit /\ [][HistNext]_<<vars, streak>> /\ Fairness

\* What a bucket overdrawn by its largest packet is given, a quantum a round,
\* before it has credit again.
MakesGood == Quantum * ((Largest - 1) \div Quantum + 1)

\* queue.rs:16-18, 418-426 and neither_of_two_busy_flows_is_starved: of two buckets
\* with a backlog neither is given more than makes good what the other overdrew (a
\* quantum, unless packets are larger than that), and what its last packet overdraws,
\* before the other has its turn.
NeitherRunsAway == \A b, c \in Buckets : streak[b][c] < MakesGood + Largest

Data(c, n, ect) == [conn |-> c, bytes |-> n, ack |-> NoAck, ect |-> ect]
Ack(c, n) == [conn |-> c, bytes |-> 1, ack |-> n, ect |-> FALSE]

\* Two buckets: one shared by a connection whose acknowledgements wrap and by a
\* neighbour's, and one of a sender that asks to be told.
SharedConnections == {"acks", "neighbour", "data"}
SharedBuckets == [c \in SharedConnections |-> IF c = "data" THEN 2 ELSE 1]
SharedPackets == {Ack("acks", 7), Ack("acks", 1), Ack("neighbour", 0),
                  Data("data", 1, TRUE), Data("data", 2, TRUE)}
=============================================================================
