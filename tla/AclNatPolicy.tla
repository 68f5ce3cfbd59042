---------------------------- MODULE AclNatPolicy ----------------------------
(***************************************************************************)
(* What the rule engine promises for one packet after another, with no     *)
(* loops, array positions or port counter:                                 *)
(*                                                                         *)
(*   - an incoming packet is considered only as the answer to an open      *)
(*     session, which it determines uniquely, and is then judged as the    *)
(*     private host will see it;                                           *)
(*   - the first ACL rule that matches decides, and none means DENY;       *)
(*   - an outgoing packet of a translated network opens a session on a     *)
(*     public port that no session has, before it is known whether a route *)
(*     exists;                                                             *)
(*   - the interface is that of the longest matching prefix, negative      *)
(*     ones aside;                                                         *)
(*   - the rules may be set up before the first packet, never after.       *)
(***************************************************************************)
EXTENDS RuleTables

CONSTANTS Packets, FirstPort

VARIABLES
  acl, nat, routes,   \* the rules, in the order of the file
  sessions,           \* the translations made so far
  stage,              \* "idle", "judging" or "sending"
  packet,             \* the packet under consideration, or NoPacket
  verdict             \* the last decision

policyVars == <<acl, nat, routes, sessions, stage, packet, verdict>>

NoPacket == [dir |-> "NONE"]

Drop(why) == [decision |-> "DROP", why |-> why]
Forward(p, iface) == [decision |-> "FORWARD", packet |-> p, iface |-> iface]

\* The first rule that matches decides; none means DENY.
Permitted(p) ==
  \E k \in DOMAIN acl :
    /\ MatchAclRule(acl[k], p)
    /\ \A j \in 1..(k - 1) : ~MatchAclRule(acl[j], p)
    /\ acl[k].action # "DENY"

\* What the ACL is asked about: for an incoming packet, its inner form.
InnerForms(p) ==
  IF p.dir = "IN" THEN {Inward(p, s) : s \in {t \in sessions : IsReplyTo(p, t)}}
                  ELSE {p}

\* The first NAT rule for the source of p, if there is one.
IsNatRuleFor(k, p) ==
  /\ k \in DOMAIN nat
  /\ CidrMatch(p.src, nat[k].net, nat[k].prefix)
  /\ \A j \in 1..(k - 1) : ~CidrMatch(p.src, nat[j].net, nat[j].prefix)

IsFresh(port) == port >= FirstPort /\ \A s \in sessions : s.publicPort # port

RoutesFor(p) ==
  {i \in DOMAIN routes : /\ routes[i].prefix >= 0
                         /\ CidrMatch(p.dst, routes[i].net, routes[i].prefix)}

IsBestRoute(i, p) ==
  /\ i \in RoutesFor(p)
  /\ \A j \in RoutesFor(p) :
       \/ routes[j].prefix < routes[i].prefix
       \/ routes[j].prefix = routes[i].prefix /\ i <= j

-----------------------------------------------------------------------------
Init ==
  /\ sessions = {}
  /\ stage = "idle" /\ packet = NoPacket
  /\ verdict = Drop("nothing_yet")

Configure ==
  /\ stage = "idle" /\ verdict = Drop("nothing_yet")
  /\ UNCHANGED <<sessions, stage, packet, verdict>>

Arrive(p) ==
  /\ stage = "idle"
  /\ stage' = "judging" /\ packet' = p
  /\ UNCHANGED <<acl, nat, routes, sessions, verdict>>

Refuse ==
  /\ stage = "judging"
  /\ \/ InnerForms(packet) = {} /\ verdict' = Drop("no_NAT_state")
     \/ \E q \in InnerForms(packet) : ~Permitted(q) /\ verdict' = Drop("ACL")
  /\ stage' = "idle" /\ packet' = NoPacket
  /\ UNCHANGED <<acl, nat, routes, sessions>>

Admit ==
  /\ stage = "judging"
  /\ \E q \in InnerForms(packet) : Permitted(q) /\ packet' = q
  /\ packet.dir = "OUT" => \A k \in DOMAIN nat : ~IsNatRuleFor(k, packet)
  /\ stage' = "sending"
  /\ UNCHANGED <<acl, nat, routes, sessions, verdict>>

OpenSession ==
  /\ stage = "judging"
  /\ packet.dir = "OUT"
  /\ Permitted(packet)
  /\ \E k \in DOMAIN nat, s \in sessions' \ sessions :
       /\ IsNatRuleFor(k, packet)
       /\ IsFresh(s.publicPort)
       /\ s = NewState(packet, nat[k], s.publicPort)
       /\ sessions' = sessions \cup {s}
       /\ packet' = Outward(packet, s)
  /\ stage' = "sending"
  /\ UNCHANGED <<acl, nat, routes, verdict>>

Send ==
  /\ stage = "sending"
  /\ IF RoutesFor(packet) = {}
       THEN verdict' = Drop("no_route")
       ELSE \E i \in RoutesFor(packet) :
              IsBestRoute(i, packet) /\ verdict' = Forward(packet, routes[i].iface)
  /\ stage' = "idle" /\ packet' = NoPacket
  /\ UNCHANGED <<acl, nat, routes, sessions>>

Next ==
  \/ Configure
  \/ \E p \in Packets : Arrive(p)
  \/ Refuse
  \/ Admit
  \/ OpenSession
  \/ Send

Spec == Init /\ [][Next]_policyVars

=============================================================================
