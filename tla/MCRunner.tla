------------------------------ MODULE MCRunner ------------------------------
(***************************************************************************)
(* Packet sets for the instances of Runner.                                *)
(***************************************************************************)
EXTENDS Runner, TLC

(* Applications are interchangeable. *)
SrcSymmetry == Permutations(Src)

Tcp(flags, good) ==
    [proto : {"tcp"}, src : Src, dst : Dst, ok : good, flag : flags]

Udp(good) == [proto : {"udp"}, src : Src, dst : Dst, ok : good, flag : {"data"}]

TcpPackets == Tcp({"syn", "ack", "fin", "ack_fin", "rst"}, {TRUE})

UdpPackets == Udp({TRUE})

(* A handshake that is reset, datagrams, and a SYN with a wrong checksum. *)
MixedPackets == Tcp({"ack", "rst"}, {TRUE}) \cup Tcp({"syn"}, BOOLEAN) \cup Udp({TRUE})
=============================================================================
