----------------------------- MODULE ConnectIp ------------------------------
(***************************************************************************)
(* What the two carriers share (src/transport/connect_ip.rs): why a tunnel *)
(* could not be opened or stopped carrying, its three halves, and the hop  *)
(* count every packet loses on the way out.                                *)
(***************************************************************************)
EXTENDS Integers, Sequences, FiniteSets

\* ConnectError, each with what it carries that somebody acts on.
ConnectError(kind, about) == [kind |-> kind, about |-> about]

Plain(kind) == ConnectError(kind, kind)

NoError == Plain("none")

\* The three values Tunnel::split hands to the tasks that drive it.
Halves == {"sender", "receiver", "health"}

\* A packet is what its header declares: the IP version, the bytes of the header
\* and of the whole, the hops left, and how many bytes its checksum covers.
IpPacket(version, header, length, hops) ==
    [version |-> version, header |-> header, length |-> length, hops |-> hops,
     summed |-> header]

MayLeave(packet) ==
    \/ /\ packet.version = 4
       /\ packet.header >= 20
       /\ packet.length >= packet.header
       /\ packet.hops > 1
    \/ /\ packet.version = 6
       /\ packet.length >= 40
       /\ packet.hops > 1

\* decrement_hop_limit, of a packet that may leave: the IPv4 checksum is taken
\* again over the header the packet declares.
DecrementHopLimit(packet) ==
    IF packet.version = 4
    THEN [packet EXCEPT !.hops = @ - 1, !.summed = packet.header]
    ELSE [packet EXCEPT !.hops = @ - 1]
=============================================================================
