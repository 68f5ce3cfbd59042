---------------------------- MODULE AclNatEngine ----------------------------
(***************************************************************************)
(* m5_acl_nat_engine/acl_nat_engine.c after load_rules(): the loop of      *)
(* process_packets() and, inside it, the linear searches of the NAT table, *)
(* the ACL, the NAT rules and the routes, one position per step.           *)
(***************************************************************************)
EXTENDS RuleTables

CONSTANTS
  Acls, Nats, Routings,  \* the rule lists a rules file may hold, loaded
  Packets,               \* the packets the input may hold
  MaxNatState,           \* MAX_NAT_STATE
  FirstPort              \* the initial next_public_port

ASSUME EngineAssumption ==
  /\ Acls \subseteq Seq(AclRule)
  /\ Nats \subseteq Seq(NatRule)
  /\ Routings \subseteq Seq(RouteRule)
  /\ Packets \subseteq Packet
  /\ MaxNatState \in Nat /\ FirstPort \in Nat

VARIABLES
  acl, nat, routes, \* acl_rules, nat_rules, route_rules
  table,            \* nat_table[0 .. nat_state_count - 1]
  nextPort,         \* next_public_port
  packet,           \* p
  original,         \* p as it was read (printed as ORIGINAL)
  pc,               \* the search that is going on
  i,                \* its position, from 1
  best,             \* positions of the route best_prefix and best_iface name, or 0
  verdict           \* the last FINAL DECISION of the log

rules == <<acl, nat, routes>>
vars == <<rules, table, nextPort, packet, original, pc, i, best, verdict>>

\* "overrun": nat_table has been indexed past its end, which C leaves undefined.
Places == {"read", "natin", "acl", "natout", "route", "end", "overrun"}

Drop(why) == [decision |-> "DROP", why |-> why]
Forward(p, iface) == [decision |-> "FORWARD", packet |-> p, iface |-> iface]
DropReasons == {"nothing_yet", "no_NAT_state", "ACL", "no_route"}
Verdict == {Drop(w) : w \in DropReasons}
           \cup [decision : {"FORWARD"}, packet : Packet, iface : Interfaces]

TypeOK ==
  /\ acl \in Seq(AclRule) /\ nat \in Seq(NatRule) /\ routes \in Seq(RouteRule)
  /\ table \in Seq(NatState) /\ Len(table) <= MaxNatState
  /\ nextPort \in Ports
  /\ packet \in Packet /\ original \in Packet
  /\ pc \in Places
  /\ i \in Nat \ {0}
  /\ best \in 0..Len(routes)
  /\ verdict.decision \in {"DROP", "FORWARD"}
  /\ verdict.decision = "DROP" => verdict.why \in DropReasons
  /\ verdict.decision = "FORWARD" => verdict.packet \in Packet /\ verdict.iface \in Interfaces

Init ==
  /\ acl \in Acls /\ nat \in Nats /\ routes \in Routings
  /\ table = <<>>
  /\ nextPort = FirstPort
  /\ packet \in Packets /\ original = packet
  /\ pc = "read"
  /\ i = 1
  /\ best = 0
  /\ verdict = Drop("nothing_yet")

-----------------------------------------------------------------------------
\* The search goes on at the next position, or another one starts.
NextPosition == i' = i + 1 /\ UNCHANGED pc
Search(place) == pc' = place /\ i' = 1

\* FINAL DECISION, and "continue" to the next line of the input.
Decide(v) == verdict' = v /\ Search("read")

\* A line that is a packet; lines that are not are skipped.
ReadPacket(p) ==
  /\ pc = "read"
  /\ packet' = p /\ original' = p
  /\ Search(IF p.dir = "IN" THEN "natin" ELSE "acl")
  /\ best' = 0
  /\ UNCHANGED <<rules, table, nextPort, verdict>>

EndOfInput ==
  /\ pc = "read"
  /\ Search("end")
  /\ UNCHANGED <<rules, table, nextPort, packet, original, best, verdict>>

-----------------------------------------------------------------------------
\* apply_inbound_nat()
NatInStep ==
  /\ pc = "natin" /\ i <= Len(table)
  /\ IF IsReplyTo(packet, table[i])
       THEN packet' = Inward(packet, table[i]) /\ Search("acl")
       ELSE NextPosition /\ UNCHANGED packet
  /\ UNCHANGED <<rules, table, nextPort, original, best, verdict>>

\* Mutant: the result of apply_inbound_nat() is not looked at.
NatInIgnored ==
  /\ pc = "natin" /\ i > Len(table)
  /\ Search("acl")
  /\ UNCHANGED <<rules, table, nextPort, packet, original, best, verdict>>

\* process_packets(), when apply_inbound_nat() has returned 0
NatInFails ==
  /\ pc = "natin" /\ i > Len(table)
  /\ Decide(Drop("no_NAT_state"))
  /\ UNCHANGED <<rules, table, nextPort, packet, original, best>>

\* evaluate_acl(): any action but DENY lets the packet through.
AclStep ==
  /\ pc = "acl" /\ i <= Len(acl)
  /\ \/ /\ ~MatchAclRule(acl[i], packet)
        /\ NextPosition /\ UNCHANGED verdict
     \/ /\ MatchAclRule(acl[i], packet)
        /\ acl[i].action = "DENY"
        /\ Decide(Drop("ACL"))
     \/ /\ MatchAclRule(acl[i], packet)
        /\ acl[i].action # "DENY"
        /\ Search(IF packet.dir = "OUT" THEN "natout" ELSE "route")
        /\ UNCHANGED verdict
  /\ UNCHANGED <<rules, table, nextPort, packet, original, best>>

\* Mutant: no rule means ALLOW.
AclDefaultAllow ==
  /\ pc = "acl" /\ i > Len(acl)
  /\ Search(IF packet.dir = "OUT" THEN "natout" ELSE "route")
  /\ UNCHANGED <<rules, table, nextPort, packet, original, best, verdict>>

\* evaluate_acl(): no rule matched.
AclDefault ==
  /\ pc = "acl" /\ i > Len(acl)
  /\ Decide(Drop("ACL"))
  /\ UNCHANGED <<rules, table, nextPort, packet, original, best>>

\* find_nat_rule_for_source()
NatRuleMatches == CidrMatch(packet.src, nat[i].net, nat[i].prefix)

NatOutSkip ==
  /\ pc = "natout"
  /\ IF i > Len(nat) THEN Search("route") ELSE ~NatRuleMatches /\ NextPosition
  /\ UNCHANGED <<rules, table, nextPort, packet, original, best, verdict>>

\* Mutant: the table is checked one entry too late.
TranslateOneTooMany ==
  /\ pc = "natout" /\ i <= Len(nat) /\ NatRuleMatches
  /\ Len(table) <= MaxNatState
  /\ LET s == NewState(packet, nat[i], nextPort)
     IN  table' = Append(table, s) /\ packet' = Outward(packet, s)
  /\ nextPort' = nextPort + 1
  /\ Search("route")
  /\ UNCHANGED <<rules, original, best, verdict>>

\* Mutant: the port is not used up.
ReusePort ==
  /\ pc = "natout" /\ i <= Len(nat) /\ NatRuleMatches
  /\ Len(table) < MaxNatState
  /\ LET s == NewState(packet, nat[i], nextPort)
     IN  table' = Append(table, s) /\ packet' = Outward(packet, s)
  /\ Search("route")
  /\ UNCHANGED <<rules, nextPort, original, best, verdict>>

\* apply_outbound_nat(): every packet gets a new entry and a new port.
NatOutTranslate ==
  /\ pc = "natout" /\ i <= Len(nat) /\ NatRuleMatches
  /\ Len(table) < MaxNatState
  /\ LET s == NewState(packet, nat[i], nextPort)
     IN  table' = Append(table, s) /\ packet' = Outward(packet, s)
  /\ nextPort' = nextPort + 1
  /\ Search("route")
  /\ UNCHANGED <<rules, original, best, verdict>>

\* nat_table[nat_state_count++] with every entry in use.
NatOutOverrun ==
  /\ pc = "natout" /\ i <= Len(nat) /\ NatRuleMatches
  /\ Len(table) >= MaxNatState
  /\ Search("overrun")
  /\ UNCHANGED <<rules, table, nextPort, packet, original, best, verdict>>

\* Mutant: the first matching route wins.
RouteFirst ==
  /\ pc = "route" /\ i <= Len(routes)
  /\ best' = IF /\ CidrMatch(packet.dst, routes[i].net, routes[i].prefix)
                /\ best = 0
               THEN i ELSE best
  /\ NextPosition
  /\ UNCHANGED <<rules, table, nextPort, packet, original, verdict>>

\* best_prefix, which starts at -1: a negative prefix is never taken.
BestPrefix == IF best = 0 THEN -1 ELSE routes[best].prefix

\* route_lookup()
RouteStep ==
  /\ pc = "route" /\ i <= Len(routes)
  /\ best' = IF /\ CidrMatch(packet.dst, routes[i].net, routes[i].prefix)
                /\ routes[i].prefix > BestPrefix
               THEN i ELSE best
  /\ NextPosition
  /\ UNCHANGED <<rules, table, nextPort, packet, original, verdict>>

\* The interface of the route found, or NO_ROUTE
RouteDone ==
  /\ pc = "route" /\ i > Len(routes)
  /\ Decide(IF best = 0 THEN Drop("no_route")
                        ELSE Forward(packet, routes[best].iface))
  /\ UNCHANGED <<rules, table, nextPort, packet, original, best>>

-----------------------------------------------------------------------------
Next ==
  \/ \E p \in Packets : ReadPacket(p)
  \/ EndOfInput
  \/ NatInStep
  \/ NatInFails
  \/ AclStep
  \/ AclDefault
  \/ NatOutSkip
  \/ NatOutTranslate
  \/ NatOutOverrun
  \/ RouteStep
  \/ RouteDone

Spec == Init /\ [][Next]_vars

-----------------------------------------------------------------------------
IsAclDecision(k, p) ==
  /\ k \in DOMAIN acl /\ MatchAclRule(acl[k], p)
  /\ \A j \in 1..(k - 1) : ~MatchAclRule(acl[j], p)

Permits(p) == \E k \in DOMAIN acl : IsAclDecision(k, p) /\ acl[k].action # "DENY"

\* The packet an entry of the table was made for.
PrivateForm(s) ==
  [dir |-> "OUT", proto |-> s.proto, src |-> s.privateIp, sport |-> s.privatePort,
   dst |-> s.remoteIp, dport |-> s.remotePort]

(***************************************************************************)
(* A packet from outside answers at most one translation, so the first hit *)
(* of the scan in apply_inbound_nat (306-336) is the only one: replies to  *)
(* one private host never reach another.  Nothing in the scan ensures it;  *)
(* it rests on the port counter of apply_outbound_nat (284).               *)
(***************************************************************************)
TranslationsAreUnambiguous ==
  \A j, k \in DOMAIN table :
    /\ table[j].publicIp = table[k].publicIp
    /\ table[j].publicPort = table[k].publicPort
    => j = k

(***************************************************************************)
(* Every translation was made for a packet that the ACL permits as it left *)
(* the private host, before translation: a denied flow never opens a door  *)
(* for packets from outside (order of 443-459).                            *)
(***************************************************************************)
TranslationsArePermitted ==
  \A k \in DOMAIN table : Permits(PrivateForm(table[k]))

(***************************************************************************)
(* What is forwarded inwards is the answer to a translated packet, with    *)
(* the private address and port of that packet, and the ACL permits it in  *)
(* the form the private host sees.                                         *)
(***************************************************************************)
ForwardedInboundIsReply ==
  verdict.decision = "FORWARD" /\ verdict.packet.dir = "IN" =>
    /\ Permits(verdict.packet)
    /\ \E k \in DOMAIN table :
         /\ verdict.packet.proto = table[k].proto
         /\ verdict.packet.src = table[k].remoteIp
         /\ verdict.packet.sport = table[k].remotePort
         /\ verdict.packet.dst = table[k].privateIp
         /\ verdict.packet.dport = table[k].privatePort

(***************************************************************************)
(* Every run of the engine, with its loops and early exits, is a behaviour *)
(* of AclNatPolicy: first match, fresh port, longest prefix, first among   *)
(* equals.                                                                 *)
(***************************************************************************)
Judging == {"natin", "acl", "natout", "overrun"}
Sessions == {table[k] : k \in DOMAIN table}
Stage == IF pc \in Judging THEN "judging" ELSE IF pc = "route" THEN "sending" ELSE "idle"
Considered == IF pc \in Judging THEN original
              ELSE IF pc = "route" THEN packet ELSE [dir |-> "NONE"]

Policy == INSTANCE AclNatPolicy WITH
  sessions <- Sessions, stage <- Stage, packet <- Considered

RefinesPolicy == Policy!Spec

(***************************************************************************)
(* "#define MAX_NAT_STATE 100" (10) bounds nat_table (71): it is never     *)
(* indexed past its end.                                                   *)
(***************************************************************************)
NoTableOverrun == pc # "overrun"

=============================================================================
