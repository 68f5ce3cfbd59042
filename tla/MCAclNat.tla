------------------------------ MODULE MCAclNat ------------------------------
(***************************************************************************)
(* The rule engine on two-bit addresses: 0 and 1 are private, 2 is a       *)
(* remote host, 3 the public address.  The rules files are those with up   *)
(* to MaxRules or MaxRoutes lines for each table, and short ones in which  *)
(* anything may come in any order.                                         *)
(***************************************************************************)
EXTENDS AclNatProgram

CONSTANTS MaxRules, MaxRoutes, MaxLines

MCProtos == {"TCP", "UDP"}
MCInterfaces == {"eth0", "eth1"}

Lists(S, n) == UNION {[1..k -> S] : k \in 0..n}

AclOf(action, src, dst, dport) ==
  [action |-> action, proto |-> AnyProto, src |-> src, sport |-> Any,
   dst |-> dst, dport |-> dport]

\* Overlapping rules, so that their order decides.
AclLines == {
  AclOf("ALLOW", Any, Any, Any),
  AclOf("DENY", 0, Any, Any),
  AclOf("DENY", Any, 1, Any),
  [AclOf("OTHER", 0, 2, Any) EXCEPT !.proto = "TCP"] }

NatLines == { [net |-> 0, prefix |-> 1, public |-> 3],
              [net |-> 1, prefix |-> 2, public |-> 3] }

RouteLines == { [net |-> 0, prefix |-> 0, iface |-> "eth0"],
                [net |-> 0, prefix |-> 1, iface |-> "eth1"],
                [net |-> 2, prefix |-> 1, iface |-> "eth1"],
                [net |-> 1, prefix |-> 2, iface |-> "eth0"] }

MCAcls == Lists(AclLines, MaxRules)
MCNats == Lists(NatLines, 1) \cup {<<r, s>> : r, s \in NatLines}
MCRoutings == Lists(RouteLines, MaxRoutes)

LinesOf(t, rs) == [k \in DOMAIN rs |-> [kind |-> t, rule |-> rs[k]]]

\* Any order, with lines that are not rules and a prefix beyond the address.
OddLines == {
  [kind |-> "comment"], [kind |-> "empty"], [kind |-> "blank"], [kind |-> "other"],
  [kind |-> "ACL", rule |-> Malformed], [kind |-> "ROUTE", rule |-> Malformed],
  [kind |-> "ACL", rule |-> AclOf("ALLOW", Any, Any, Any)],
  [kind |-> "NAT", rule |-> [net |-> 0, prefix |-> 3, public |-> 3]],
  [kind |-> "ROUTE", rule |-> [net |-> 2, prefix |-> 3, iface |-> "eth1"]],
  [kind |-> "ROUTE", rule |-> [net |-> 2, prefix |-> -1, iface |-> "eth0"]] }

MCFiles ==
  {LinesOf("ACL", a) \o LinesOf("NAT", n) \o LinesOf("ROUTE", r) :
     a \in MCAcls, n \in MCNats, r \in MCRoutings}
  \cup Lists(OddLines, MaxLines)

Out(proto, src, dst) ==
  [dir |-> "OUT", proto |-> proto, src |-> src, sport |-> 5, dst |-> dst, dport |-> 6]

Reply(proto, port) ==
  [dir |-> "IN", proto |-> proto, src |-> 2, sport |-> 6, dst |-> 3, dport |-> port]

MCPackets ==
  {Out("TCP", 0, 2), Out("TCP", 1, 2), Out("UDP", 1, 0), Out("TCP", 2, 1)}
  \cup {Reply("TCP", FirstPort + k) : k \in 0..MaxNatState}
  \cup {Reply("UDP", FirstPort), [Reply("TCP", FirstPort) EXCEPT !.src = 1],
        [Out("TCP", 1, 2) EXCEPT !.dir = "OTHER"]}

=============================================================================
