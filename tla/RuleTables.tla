----------------------------- MODULE RuleTables -----------------------------
(***************************************************************************)
(* The rules and packets of m5_acl_nat_engine/acl_nat_engine.c and the     *)
(* tests that compare one with the other.  Addresses are Width bits wide   *)
(* (32 in the code); names of protocols, directions and interfaces stand   *)
(* for the strings the code compares without regard to case.               *)
(***************************************************************************)
EXTENDS Integers, Sequences

CONSTANTS Width, Protos, Interfaces

ASSUME WidthAssumption == Width \in Nat \ {0}

\* The engine takes this interface name for a failed lookup.
NoRoute == "NO_ROUTE"
ASSUME InterfaceAssumption == NoRoute \notin Interfaces

Addresses == 0..(2^Width - 1)
Ports == Nat
Any == -1               \* src_any, src_port_any, dst_any, dst_port_any
AnyProto == "ANY"

AclRule == [action : {"ALLOW", "DENY", "OTHER"}, proto : Protos \cup {AnyProto},
            src : Addresses \cup {Any}, sport : Ports \cup {Any},
            dst : Addresses \cup {Any}, dport : Ports \cup {Any}]

NatRule == [net : Addresses, prefix : Int, public : Addresses]

RouteRule == [net : Addresses, prefix : Int, iface : Interfaces]

\* The direction may be neither IN nor OUT: then no address is translated.
Packet == [dir : {"IN", "OUT", "OTHER"}, proto : Protos,
           src : Addresses, sport : Ports, dst : Addresses, dport : Ports]

NatState == [proto : Protos, privateIp : Addresses, privatePort : Ports,
             publicIp : Addresses, publicPort : Ports,
             remoteIp : Addresses, remotePort : Ports]

\* match_acl_rule()
MatchAclRule(r, p) ==
  /\ r.proto \in {AnyProto, p.proto}
  /\ r.src \in {Any, p.src} /\ r.sport \in {Any, p.sport}
  /\ r.dst \in {Any, p.dst} /\ r.dport \in {Any, p.dport}

(***************************************************************************)
(* The low bits that prefix_mask() clears.  parse_cidr() lets any prefix   *)
(* through; outside 0..Width the shift is undefined in C, and the compiled *)
(* one (gcc for x86-64 and AArch64) takes its count modulo Width.          *)
(***************************************************************************)
HostBits(prefix) == IF prefix = 0 THEN Width ELSE (Width - prefix) % Width

\* cidr_match(): the bits above them agree.
CidrMatch(ip, net, prefix) ==
  ip \div 2^HostBits(prefix) = net \div 2^HostBits(prefix)

\* The test of apply_inbound_nat(): p answers a packet translated as s.
IsReplyTo(p, s) ==
  /\ p.proto = s.proto
  /\ p.dst = s.publicIp /\ p.dport = s.publicPort
  /\ p.src = s.remoteIp /\ p.sport = s.remotePort

\* The state apply_outbound_nat() records for p.
NewState(p, rule, port) ==
  [proto |-> p.proto, privateIp |-> p.src, privatePort |-> p.sport,
   publicIp |-> rule.public, publicPort |-> port,
   remoteIp |-> p.dst, remotePort |-> p.dport]

\* What NAT makes of p, leaving and entering.
Outward(p, s) == [p EXCEPT !.src = s.publicIp, !.sport = s.publicPort]
Inward(p, s) == [p EXCEPT !.dst = s.privateIp, !.dport = s.privatePort]

=============================================================================
