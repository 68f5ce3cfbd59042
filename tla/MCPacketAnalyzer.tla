-------------------------- MODULE MCPacketAnalyzer --------------------------
(***************************************************************************)
(* Frames of every length at which a test of packet_analyzer.c changes its *)
(* answer, and one less, for IP headers without options, with one word of  *)
(* them, and shorter than an IP header can be.                             *)
(***************************************************************************)
EXTENDS PacketAnalyzer

Lengths == {0, 13, 14, 33, 34, 37, 38, 41, 42, 45, 46, 53, 54, 57, 58}

MCFrames ==
  { f \in [caplen : Lengths, ethertype : {"IPV4", "ARP"}, ihl : {2, 5, 6},
           proto : Protocols, ports : {<<1024, 2048>>, <<5000, 53>>}, fragment : BOOLEAN] :
      /\ f.ethertype = "ARP" => f.ihl = 5 /\ f.proto = "TCP"
      /\ f.fragment => f.ihl = 5
      /\ f.proto \notin {"TCP", "UDP"} \/ f.fragment \/ f.ihl < 5 => f.ports = <<5000, 53>> }

=============================================================================
