--------------------------- MODULE PacketAnalyzer ---------------------------
(***************************************************************************)
(* m4_packet_analyzer/packet_analyzer.c: each frame of a capture is looked *)
(* at twice.  main() counts it under a protocol; analyze_packet() decides  *)
(* on its own, with other tests, what to print of it.                      *)
(*                                                                         *)
(* A frame is what these tests read: how much of it was captured, and the  *)
(* fields of its headers.  Offsets and lengths are in bytes.               *)
(***************************************************************************)
EXTENDS Integers, Sequences, FiniteSets

CONSTANTS
  Frames,      \* the frames a capture may hold
  MaxFrames    \* bound: frames in one capture

Protocols == {"TCP", "UDP", "ICMP", "OTHER"}     \* ip_p
EtherTypes == {"IPV4", "ARP", "IPV6", "OTHER"}

\* ports: source and destination port in the transport header, if there is one;
\* fragment: a fragment other than the first, which has no transport header.
Frame == [caplen : Nat, ethertype : EtherTypes, ihl : 0..15, proto : Protocols,
          ports : Nat \X Nat, fragment : BOOLEAN]

ASSUME AnalyzerAssumption == Frames \subseteq Frame /\ MaxFrames \in Nat

EthernetSize == 14
IpSize == 20                                  \* sizeof(struct ip)
TransportSize == [TCP |-> 20, UDP |-> 8]      \* struct tcphdr, struct udphdr

VARIABLES
  step,      \* "next" (pcap_next_ex), "analyze", "end" (summary printed)
  frame,     \* header and packet, as the last pcap_next_ex() left them
  count,     \* packet_count, ipv4_count, tcp_count, ...
  printed    \* what was printed of each frame so far (history)

analyzerVars == <<step, frame, count, printed>>

Counters == {"packets", "ipv4"} \cup Protocols

AnalyzerInit ==
  /\ step = "next"
  /\ frame \in Frames
  /\ count = [k \in Counters |-> 0]
  /\ printed = <<>>

-----------------------------------------------------------------------------
\* Mutant: main() counts what it takes for IPv4 without its length.
IsCountedAnyLength(f) == f.caplen >= EthernetSize /\ f.ethertype = "IPV4"

\* The tests of main() before it reads ip_p.
IsCounted(f) == f.caplen >= EthernetSize + IpSize /\ f.ethertype = "IPV4"

CountedUnder(f) ==
  IF IsCounted(f) THEN {"packets", "ipv4", f.proto} ELSE {"packets", "OTHER"}

NextFrame(f) ==
  /\ step = "next"
  /\ Len(printed) < MaxFrames
  /\ frame' = f
  /\ count' = [k \in Counters |-> IF k \in CountedUnder(f) THEN count[k] + 1 ELSE count[k]]
  /\ step' = "analyze"
  /\ UNCHANGED printed

\* The end of the file, or an error in it: the summary is printed either way.
NoMoreFrames ==
  /\ step = "next"
  /\ step' = "end"
  /\ UNCHANGED <<frame, count, printed>>

-----------------------------------------------------------------------------
\* Mutant: the options of the IP header are forgotten.
TransportAfterFixedHeader(f) == EthernetSize + IpSize

\* transport_offset
TransportOffset(f) == EthernetSize + 4 * f.ihl

\* The two port fields at an offset; elsewhere than at the transport header of
\* the frame they are bytes that mean something else.
NoPorts == <<-1, -1>>
PortsAt(f, offset) ==
  IF f.ihl >= 5 /\ ~f.fragment /\ offset = EthernetSize + 4 * f.ihl THEN f.ports ELSE NoPorts

\* get_application_protocol(): the first service that either port names.
Services == <<
  <<53, "DNS">>, <<80, "HTTP">>, <<443, "HTTPS">>, <<22, "SSH">>,
  <<5000, "CUSTOM_TCP_TEST_SERVICE">>, <<5001, "CUSTOM_UDP_TEST_SERVICE">> >>

First(S) == CHOOSE k \in S : \A j \in S : k <= j

Application(ports) ==
  LET named == {k \in DOMAIN Services : Services[k][1] \in {ports[1], ports[2]}}
  IN  IF named = {} THEN "UNKNOWN" ELSE Services[First(named)][2]

\* What is printed of f: a complaint or a description, how many bytes had to be
\* read for it, and for TCP and UDP the flow.
Short(what, bytes) == [what |-> what, reach |-> bytes]
Flow(f, size) ==
  LET ports == PortsAt(f, TransportOffset(f))
  IN  [what |-> f.proto, reach |-> TransportOffset(f) + size,
       ports |-> ports, application |-> Application(ports)]

\* analyze_packet() below the IP header
ReportTransport(f) ==
  IF f.proto \notin DOMAIN TransportSize
    THEN Short(f.proto, EthernetSize + IpSize)
    ELSE LET size == TransportSize[f.proto]
         IN  IF f.caplen >= TransportOffset(f) + size
               THEN Flow(f, size)
               ELSE Short("short_transport", EthernetSize + IpSize)

\* analyze_packet(): the first test that fails decides what is printed.
Report(f) ==
  IF f.caplen < EthernetSize THEN Short("short_ethernet", 0)
  ELSE IF f.ethertype # "IPV4" THEN Short("not_ipv4", EthernetSize)
  ELSE IF f.caplen < EthernetSize + IpSize THEN Short("short_ipv4", EthernetSize)
  ELSE IF f.caplen < TransportOffset(f)
    THEN Short("bad_ip_length", EthernetSize + IpSize)
  ELSE ReportTransport(f)

Analyze ==
  /\ step = "analyze"
  /\ printed' = Append(printed, [frame |-> frame, report |-> Report(frame)])
  /\ step' = "next"
  /\ UNCHANGED <<frame, count>>

AnalyzerNext ==
  \/ \E f \in Frames : NextFrame(f)
  \/ NoMoreFrames
  \/ Analyze

AnalyzerSpec == AnalyzerInit /\ [][AnalyzerNext]_analyzerVars

-----------------------------------------------------------------------------
AnalyzerTypeOK ==
  /\ step \in {"next", "analyze", "end"}
  /\ frame \in Frames
  /\ count \in [Counters -> Nat]
  /\ printed \in Seq({[frame |-> f, report |-> Report(f)] : f \in Frames})

\* A printed entry of a frame whose IP header was read, and how many there are.
BelowIp(r) == r.report.what \in Protocols \cup {"short_transport", "bad_ip_length"}
IpReports == Cardinality({k \in DOMAIN printed : BelowIp(printed[k])})
ReportsUnder(p) ==
  Cardinality({k \in DOMAIN printed : BelowIp(printed[k]) /\ printed[k].frame.proto = p})

(***************************************************************************)
(* The summary (264-270) agrees with what was printed frame by frame,      *)
(* although main() (236-259) and analyze_packet() (50-204) test lengths    *)
(* and types each in their own way: a frame counts under TCP, UDP or ICMP  *)
(* exactly when it was described as such, or was found to be one and then  *)
(* too short or wrong in its IP header length; every other frame is OTHER. *)
(***************************************************************************)
SummaryMatchesReports ==
  step # "analyze" =>
    /\ count["packets"] = Len(printed)
    /\ count["ipv4"] = IpReports
    /\ \A p \in {"TCP", "UDP", "ICMP"} : count[p] = ReportsUnder(p)
    /\ count["OTHER"] =
         Len(printed) - ReportsUnder("TCP") - ReportsUnder("UDP") - ReportsUnder("ICMP")

\* f has a transport header that PortsAt() can find.
HasTransport(f) ==
  /\ f.ethertype = "IPV4" /\ f.ihl >= 5 /\ ~f.fragment
  /\ f.proto \in {"TCP", "UDP"}

\* r is a true report of f.
Genuine(f, r) ==
  LET whole == EthernetSize + 4 * f.ihl + (IF f.proto = "TCP" THEN 20 ELSE 8)
      named == {s \in DOMAIN Services : Services[s][1] \in {f.ports[1], f.ports[2]}}
  IN  /\ r.reach <= f.caplen
      /\ HasTransport(f) => (f.caplen >= whole <=> r.what = f.proto)
      /\ HasTransport(f) /\ r.what = f.proto =>
           /\ r.ports = f.ports
           /\ IF named = {} THEN r.application = "UNKNOWN"
                            ELSE \E s \in named : r.application = Services[s][2]

(***************************************************************************)
(* Nothing is read past what was captured, and a flow is printed only of a *)
(* frame with a whole transport header of that protocol, with the ports of *)
(* that header and a service that one of them names.  Four kinds of frame  *)
(* are excepted, where the ports printed are other bytes.  An ip_hl below  *)
(* 5 passes the test of line 94, and later fragments are not told apart:   *)
(* the formula leaves them out.  Padding behind a datagram shorter than    *)
(* its headers, since ip_len is only printed, and a capture of another     *)
(* link type than Ethernet are not among the frames of the model.          *)
(***************************************************************************)
FlowsAreGenuine ==
  \A k \in DOMAIN printed : Genuine(printed[k].frame, printed[k].report)

=============================================================================
