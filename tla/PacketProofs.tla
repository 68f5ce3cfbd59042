---------------------------- MODULE PacketProofs ----------------------------
(***************************************************************************)
(* The two programs that read packets.  First the rule engine of M5, for   *)
(* every rule file, every input and every size of the tables: types, the   *)
(* safety invariants of AclNatEngine, and that it implements AclNatPolicy; *)
(* then the whole of AclNatProgram, whose loader leaves it either with all *)
(* rules of the file or stopped.  Addresses are never computed with:       *)
(* CidrMatch stays closed, so the proofs hold whatever it compares.        *)
(* Then the packet analyzer of M4, for every set of frames.                *)
(***************************************************************************)
EXTENDS AclNatProgram, PacketAnalyzer, FiniteSetTheorems, TLAPS

-----------------------------------------------------------------------------
\* Entry k has the k-th port, and the counter stands at the next one.
PortsCounted ==
  /\ nextPort = FirstPort + Len(table)
  /\ \A k \in DOMAIN table : table[k].publicPort = FirstPort + k - 1

\* A search has passed over no match.
NatInSearched == pc = "natin" => \A j \in DOMAIN table : j < i => ~IsReplyTo(packet, table[j])
AclSearched == pc = "acl" => \A j \in DOMAIN acl : j < i => ~MatchAclRule(acl[j], packet)

SourceMatches(j, p) == CidrMatch(p.src, nat[j].net, nat[j].prefix)
NatOutSearched == pc = "natout" => \A j \in DOMAIN nat : j < i => ~SourceMatches(j, packet)

RouteMatches(j, p) ==
  routes[j].prefix >= 0 /\ CidrMatch(p.dst, routes[j].net, routes[j].prefix)
RouteSearched ==
  pc = "route" =>
    /\ best < i
    /\ best = 0 => \A j \in DOMAIN routes : j < i => ~RouteMatches(j, packet)
    /\ best # 0 =>
         /\ RouteMatches(best, packet)
         /\ \A j \in DOMAIN routes : j < i /\ RouteMatches(j, packet) =>
              \/ routes[j].prefix < routes[best].prefix
              \/ routes[j].prefix = routes[best].prefix /\ best <= j

NoRouteYet == pc \in {"natin", "acl", "natout"} => best = 0

Searched ==
  NatInSearched /\ AclSearched /\ NatOutSearched /\ RouteSearched /\ NoRouteYet

\* Where the packet is as it was read, and how it differs elsewhere.
Directed ==
  /\ packet.dir = original.dir
  /\ pc = "natin" => packet.dir = "IN"
  /\ pc = "natout" => packet.dir = "OUT"

Untouched ==
  pc \in {"natin", "natout"} \/ (pc = "acl" /\ packet.dir # "IN") => packet = original

InnerForm ==
  pc \in {"acl", "route"} /\ packet.dir = "IN" =>
    \E k \in DOMAIN table : IsReplyTo(original, table[k]) /\ packet = Inward(original, table[k])

\* The ACL has been asked before a packet gets this far.
Passed ==
  pc = "natout" \/ (pc = "route" /\ packet.dir # "OUT") => Permits(packet)

IInv ==
  /\ TypeOK
  /\ PortsCounted
  /\ Searched
  /\ Directed /\ Untouched /\ InnerForm
  /\ Passed
  /\ TranslationsArePermitted
  /\ ForwardedInboundIsReply

-----------------------------------------------------------------------------
(***************************************************************************)
(* NAT rewrites a packet into a packet.                                    *)
(***************************************************************************)
LEMMA RewrittenPackets ==
  ASSUME NEW p \in Packet, NEW s \in NatState
  PROVE  Inward(p, s) \in Packet /\ Outward(p, s) \in Packet
BY DEF Packet, NatState, Inward, Outward

LEMMA NewStateType ==
  ASSUME NEW p \in Packet, NEW rule \in NatRule, NEW port \in Ports
  PROVE  NewState(p, rule, port) \in NatState
BY DEF Packet, NatState, NatRule, NewState, Ports

\* What an entry was made for can be read off it.
LEMMA PrivateFormOfNewState ==
  ASSUME NEW p \in Packet, p.dir = "OUT", NEW rule \in NatRule, NEW port \in Ports
  PROVE  PrivateForm(NewState(p, rule, port)) = p
BY DEF Packet, PrivateForm, NewState

\* A packet as the private host sees it carries the remote end of the entry
\* it answers and that entry's private end.
LEMMA InwardFields ==
  ASSUME NEW p \in Packet, NEW s \in NatState, IsReplyTo(p, s)
  PROVE  /\ Inward(p, s).dir = p.dir
         /\ Inward(p, s).proto = s.proto
         /\ Inward(p, s).src = s.remoteIp /\ Inward(p, s).sport = s.remotePort
         /\ Inward(p, s).dst = s.privateIp /\ Inward(p, s).dport = s.privatePort
BY DEF Packet, NatState, Inward, IsReplyTo

LEMMA PacketsTyped == Packets \subseteq Packet
BY EngineAssumption

\* Rules never change, and Permits depends on nothing else.
LEMMA PermitsStable ==
  ASSUME UNCHANGED rules
  PROVE  \A p : Permits(p) <=> Permits(p)'
BY DEF rules, Permits, IsAclDecision

-----------------------------------------------------------------------------
LEMMA InitIInv == Init => IInv
<1> SUFFICES ASSUME Init PROVE IInv
  OBVIOUS
<1> USE DEF Init, Drop
<1>1. acl \in Seq(AclRule) /\ nat \in Seq(NatRule) /\ routes \in Seq(RouteRule)
  BY EngineAssumption
<1>2. table \in Seq(NatState) /\ Len(table) = 0 /\ DOMAIN table = {}
  OBVIOUS
<1>3. verdict = [decision |-> "DROP", why |-> "nothing_yet"]
  OBVIOUS
<1>4. TypeOK
  BY <1>1, <1>2, <1>3, EngineAssumption DEF TypeOK, Places, DropReasons, Ports
<1>5. PortsCounted
  BY <1>2, EngineAssumption DEF PortsCounted
<1>6. TranslationsArePermitted /\ ForwardedInboundIsReply
  BY <1>2, <1>3 DEF TranslationsArePermitted, ForwardedInboundIsReply
<1> QED BY <1>4, <1>5, <1>6
  DEF IInv, Searched, NatInSearched, AclSearched, NatOutSearched, RouteSearched, NoRouteYet, Directed,
      Untouched, InnerForm, Passed

\* A search that starts has passed over nothing.
LEMMA SearchStarts ==
  ASSUME TypeOK', i' = 1, best' = 0
  PROVE  Searched'
<1>1. \A j \in DOMAIN table' : ~(j < i')
  BY DEF TypeOK
<1>2. \A j \in DOMAIN acl' : ~(j < i')
  BY DEF TypeOK
<1>3. \A j \in DOMAIN nat' : ~(j < i')
  BY DEF TypeOK
<1>4. \A j \in DOMAIN routes' : ~(j < i')
  BY DEF TypeOK
<1> QED BY <1>1, <1>2, <1>3, <1>4
        DEF Searched, NatInSearched, AclSearched, NatOutSearched, RouteSearched, NoRouteYet

LEMMA ReadPacketKeeps ==
  ASSUME NEW p \in Packets, IInv, ReadPacket(p)
  PROVE  IInv'
<1> USE DEF IInv, ReadPacket, Search, rules
<1>1. p \in Packet /\ p.dir \in {"IN", "OUT", "OTHER"}
  BY PacketsTyped DEF Packet
<1>2. TypeOK'
  BY <1>1 DEF TypeOK, Places
<1>3. PortsCounted'
  BY DEF PortsCounted
<1>4. Searched'
  BY <1>2, SearchStarts
<1>5. Directed' /\ Untouched' /\ InnerForm' /\ Passed'
  BY <1>1 DEF Directed, Untouched, InnerForm, Passed
<1>6. TranslationsArePermitted' /\ ForwardedInboundIsReply'
  BY DEF TranslationsArePermitted, ForwardedInboundIsReply, Permits, IsAclDecision
<1> QED BY <1>2, <1>3, <1>4, <1>5, <1>6

LEMMA EndOfInputKeeps == IInv /\ (EndOfInput \/ UNCHANGED vars) => IInv'
<1> SUFFICES ASSUME IInv, EndOfInput \/ UNCHANGED vars PROVE IInv'
  OBVIOUS
<1>1. UNCHANGED <<rules, table, nextPort, packet, original, best, verdict>>
  BY DEF EndOfInput, vars
<1>2. (pc' = "end" /\ i' = 1) \/ UNCHANGED <<pc, i>>
  BY DEF EndOfInput, vars, Search
<1> USE <1>1, <1>2 DEF IInv, rules
<1>3. TypeOK'
  BY DEF TypeOK, Places
<1>4. PortsCounted'
  BY DEF PortsCounted
<1>5. Searched'
  BY DEF Searched, NatInSearched, AclSearched, NatOutSearched, RouteSearched, NoRouteYet,
         SourceMatches, RouteMatches
<1>6. Directed' /\ Untouched' /\ InnerForm' /\ Passed'
  BY DEF Directed, Untouched, InnerForm, Passed, Permits, IsAclDecision
<1>7. TranslationsArePermitted' /\ ForwardedInboundIsReply'
  BY DEF TranslationsArePermitted, ForwardedInboundIsReply, Permits, IsAclDecision
<1> QED BY <1>3, <1>4, <1>5, <1>6, <1>7

-----------------------------------------------------------------------------
(***************************************************************************)
(* The steps that only move on or decide leave the tables alone; what they *)
(* must show is that the search so far is on record.                       *)
(***************************************************************************)
LEMMA TablesKept ==
  ASSUME IInv, UNCHANGED <<rules, table, nextPort>>
  PROVE  PortsCounted' /\ TranslationsArePermitted'
BY DEF IInv, PortsCounted, TranslationsArePermitted, Permits, IsAclDecision, rules

LEMMA VerdictKept ==
  ASSUME IInv, UNCHANGED <<rules, table, verdict>>
  PROVE  ForwardedInboundIsReply'
BY DEF IInv, ForwardedInboundIsReply, Permits, IsAclDecision, rules

LEMMA DropKeeps ==
  ASSUME IInv, NEW why \in DropReasons, Decide(Drop(why)),
         UNCHANGED <<rules, table, nextPort, packet, original, best>>
  PROVE  IInv'
<1> USE DEF IInv, Decide, Drop, Search
<1>1. TypeOK'
  BY DEF TypeOK, Places, rules
<1>2. ForwardedInboundIsReply'
  BY DEF ForwardedInboundIsReply
<1>3. Searched' /\ Untouched' /\ InnerForm' /\ Passed'
  BY DEF Searched, NatInSearched, AclSearched, NatOutSearched, RouteSearched, NoRouteYet,
         Untouched, InnerForm, Passed
<1>4. Directed'
  BY DEF Directed
<1> QED BY <1>1, <1>2, <1>3, <1>4, TablesKept

LEMMA NatInStepKeeps == IInv /\ NatInStep => IInv'
<1> SUFFICES ASSUME IInv, NatInStep PROVE IInv'
  OBVIOUS
<1> USE DEF IInv
<1>1. /\ pc = "natin" /\ i \in DOMAIN table /\ packet = original /\ packet.dir = "IN"
      /\ UNCHANGED <<rules, table, nextPort, original, best, verdict>>
  BY DEF NatInStep, Untouched, Directed, TypeOK
<1>2. packet \in Packet /\ table[i] \in NatState
  BY <1>1 DEF TypeOK
<1>3. PortsCounted' /\ TranslationsArePermitted' /\ ForwardedInboundIsReply'
  BY <1>1, TablesKept, VerdictKept
<1>4. CASE IsReplyTo(packet, table[i])
  <2>1. packet' = Inward(original, table[i]) /\ pc' = "acl" /\ i' = 1
    BY <1>1, <1>4 DEF NatInStep, Search
  <2>2. packet' \in Packet /\ packet'.dir = "IN"
    BY <1>1, <1>2, <1>4, <2>1, RewrittenPackets, InwardFields
  <2>3. TypeOK'
    BY <1>1, <2>1, <2>2 DEF TypeOK, Places, rules
  <2>4. Searched'
    BY <1>1, <2>1, <2>3, SearchStarts DEF Searched, NoRouteYet
  <2>5. Directed' /\ Untouched' /\ InnerForm' /\ Passed'
    BY <1>1, <1>4, <2>1, <2>2 DEF Directed, Untouched, InnerForm, Passed
  <2> QED BY <1>3, <2>3, <2>4, <2>5
<1>5. CASE ~IsReplyTo(packet, table[i])
  <2>1. UNCHANGED <<packet, pc>> /\ i' = i + 1
    BY <1>5 DEF NatInStep, NextPosition
  <2>2. TypeOK'
    BY <1>1, <2>1 DEF TypeOK, rules
  <2>3. Searched'
    <3>1. NatInSearched'
      <4> SUFFICES ASSUME NEW j \in DOMAIN table, j < i + 1
                   PROVE  ~IsReplyTo(packet, table[j])
        BY <1>1, <2>1 DEF NatInSearched
      <4> QED BY <1>1, <1>5 DEF Searched, NatInSearched, TypeOK
    <3> QED BY <1>1, <2>1, <3>1
            DEF Searched, AclSearched, NatOutSearched, RouteSearched, NoRouteYet
  <2>4. Directed' /\ Untouched' /\ InnerForm' /\ Passed'
    BY <1>1, <2>1 DEF Directed, Untouched, InnerForm, Passed
  <2> QED BY <1>3, <2>2, <2>3, <2>4
<1> QED BY <1>4, <1>5

LEMMA AclStepKeeps == IInv /\ AclStep => IInv'
<1> SUFFICES ASSUME IInv, AclStep PROVE IInv'
  OBVIOUS
<1> USE DEF IInv
<1>1. /\ pc = "acl" /\ i \in DOMAIN acl
      /\ UNCHANGED <<rules, table, nextPort, packet, original, best>>
  BY DEF AclStep, TypeOK
<1>2. CASE ~MatchAclRule(acl[i], packet)
  <2>1. UNCHANGED <<pc, verdict>> /\ i' = i + 1
    BY <1>2 DEF AclStep, NextPosition
  <2>2. TypeOK'
    BY <1>1, <2>1 DEF TypeOK, rules
  <2>3. Searched'
    BY <1>1, <1>2, <2>1
    DEF Searched, NatInSearched, AclSearched, NatOutSearched, RouteSearched, NoRouteYet, TypeOK, rules
  <2>4. Directed' /\ Untouched' /\ InnerForm' /\ Passed'
    BY <1>1, <2>1 DEF Directed, Untouched, InnerForm, Passed
  <2> QED BY <1>1, <2>1, <2>2, <2>3, <2>4, TablesKept, VerdictKept
<1>3. CASE MatchAclRule(acl[i], packet) /\ acl[i].action = "DENY"
  <2>1. Decide(Drop("ACL"))
    BY <1>3 DEF AclStep
  <2> QED BY <1>1, <2>1, DropKeeps DEF DropReasons
<1>4. CASE MatchAclRule(acl[i], packet) /\ acl[i].action # "DENY"
  <2>1. /\ pc' = IF packet.dir = "OUT" THEN "natout" ELSE "route"
        /\ i' = 1 /\ UNCHANGED verdict
    BY <1>4 DEF AclStep, Search
  <2>2. TypeOK'
    BY <1>1, <2>1 DEF TypeOK, Places, rules
  <2>3. Permits(packet)
    BY <1>1, <1>4 DEF Permits, IsAclDecision, Searched, AclSearched, TypeOK
  <2>4. Passed'
    BY <1>1, <2>3 DEF Passed, Permits, IsAclDecision, rules
  <2>5. Directed' /\ Untouched' /\ InnerForm'
    BY <1>1, <2>1 DEF Directed, Untouched, InnerForm
  <2>6. best = 0
    BY <1>1 DEF Searched, NoRouteYet
  <2>7. Searched'
    BY <1>1, <2>1, <2>2, <2>6, SearchStarts
  <2> QED BY <1>1, <2>1, <2>2, <2>4, <2>5, <2>7, TablesKept, VerdictKept
<1> QED BY <1>2, <1>3, <1>4

LEMMA NatOutSkipKeeps == IInv /\ NatOutSkip => IInv'
<1> SUFFICES ASSUME IInv, NatOutSkip PROVE IInv'
  OBVIOUS
<1> USE DEF IInv
<1>1. /\ pc = "natout" /\ packet.dir = "OUT" /\ packet = original /\ best = 0
      /\ UNCHANGED <<rules, table, nextPort, packet, original, best, verdict>>
  BY DEF NatOutSkip, Untouched, Directed, Searched, NoRouteYet
<1>2. PortsCounted' /\ TranslationsArePermitted' /\ ForwardedInboundIsReply'
  BY <1>1, TablesKept, VerdictKept
<1>3. CASE i > Len(nat)
  <2>1. pc' = "route" /\ i' = 1
    BY <1>3 DEF NatOutSkip, Search
  <2>2. TypeOK'
    BY <1>1, <2>1 DEF TypeOK, Places, rules
  <2>3. Directed' /\ Untouched' /\ InnerForm' /\ Passed'
    BY <1>1, <2>1 DEF Directed, Untouched, InnerForm, Passed
  <2> QED BY <1>1, <1>2, <2>1, <2>2, <2>3, SearchStarts
<1>4. CASE ~(i > Len(nat))
  <2>1. UNCHANGED pc /\ i' = i + 1 /\ ~SourceMatches(i, packet)
    BY <1>4 DEF NatOutSkip, NextPosition, NatRuleMatches, SourceMatches
  <2>2. TypeOK'
    BY <1>1, <2>1 DEF TypeOK, rules
  <2>3. NatOutSearched'
    <3> SUFFICES ASSUME NEW j \in DOMAIN nat, j < i + 1
                 PROVE  ~SourceMatches(j, packet)
      BY <1>1, <2>1 DEF NatOutSearched, SourceMatches, rules
    <3> QED BY <1>1, <2>1 DEF Searched, NatOutSearched, TypeOK
  <2>4. Searched'
    BY <1>1, <2>1, <2>3
    DEF Searched, NatInSearched, AclSearched, RouteSearched, NoRouteYet
  <2>5. Directed' /\ Untouched' /\ InnerForm' /\ Passed'
    BY <1>1, <2>1 DEF Directed, Untouched, InnerForm, Passed, Permits, IsAclDecision, rules
  <2> QED BY <1>2, <2>2, <2>4, <2>5
<1> QED BY <1>3, <1>4

LEMMA NatOutTranslateKeeps == IInv /\ NatOutTranslate => IInv'
<1> SUFFICES ASSUME IInv, NatOutTranslate PROVE IInv'
  OBVIOUS
<1> USE DEF IInv
<1> DEFINE s == NewState(packet, nat[i], nextPort)
<1>1. /\ pc = "natout" /\ packet.dir = "OUT" /\ packet = original /\ best = 0
      /\ i \in DOMAIN nat /\ Len(table) < MaxNatState
      /\ table' = Append(table, s) /\ packet' = Outward(packet, s)
      /\ nextPort' = nextPort + 1
      /\ pc' = "route" /\ i' = 1
      /\ UNCHANGED <<rules, original, best, verdict>>
  BY DEF NatOutTranslate, Search, Untouched, Directed, Searched, NoRouteYet, TypeOK
<1>2. packet \in Packet /\ nat[i] \in NatRule /\ nextPort \in Ports /\ table \in Seq(NatState)
  BY <1>1 DEF TypeOK
<1>3. s \in NatState /\ s.publicPort = nextPort /\ PrivateForm(s) = packet
  <2>1. s \in NatState /\ PrivateForm(s) = packet
    BY <1>1, <1>2, NewStateType, PrivateFormOfNewState
  <2>2. s.publicPort = nextPort
    BY DEF NewState
  <2> QED BY <2>1, <2>2
<1> HIDE DEF s
<1>4. /\ table' \in Seq(NatState) /\ Len(table') = Len(table) + 1
      /\ DOMAIN table' = 1..(Len(table) + 1)
      /\ table'[Len(table) + 1] = s
      /\ \A k \in DOMAIN table : table'[k] = table[k]
  BY <1>1, <1>2, <1>3
<1>5. \A k \in DOMAIN table' : k \in DOMAIN table \/ k = Len(table) + 1
  BY <1>2, <1>4
<1>6. packet' \in Packet /\ packet'.dir = "OUT"
  BY <1>1, <1>2, <1>3, RewrittenPackets DEF Outward, Packet
<1>7. TypeOK'
  BY <1>1, <1>4, <1>6, EngineAssumption DEF TypeOK, Places, rules, Ports
<1>8. PortsCounted'
  BY <1>1, <1>2, <1>3, <1>4, <1>5, EngineAssumption DEF PortsCounted
<1>9. Searched'
  BY <1>1, <1>7, SearchStarts
<1>10. Directed' /\ Untouched' /\ InnerForm' /\ Passed'
  BY <1>1, <1>6 DEF Directed, Untouched, InnerForm, Passed
<1>11. TranslationsArePermitted'
  <2>1. Permits(packet)
    BY <1>1 DEF Passed
  <2>2. \A p : Permits(p)' <=> Permits(p)
    BY <1>1, PermitsStable
  <2> SUFFICES ASSUME NEW k \in DOMAIN table' PROVE Permits(PrivateForm(table'[k]))
    BY <1>1 DEF TranslationsArePermitted, Permits, IsAclDecision, rules
  <2> QED BY <1>3, <1>4, <1>5, <2>1 DEF TranslationsArePermitted
<1>12. ForwardedInboundIsReply'
  BY <1>1, <1>4, <1>5, <1>2 DEF ForwardedInboundIsReply, Permits, IsAclDecision, rules
<1> QED BY <1>7, <1>8, <1>9, <1>10, <1>11, <1>12

LEMMA NatOutOverrunKeeps == IInv /\ NatOutOverrun => IInv'
<1> SUFFICES ASSUME IInv, NatOutOverrun PROVE IInv'
  OBVIOUS
<1> USE DEF IInv, NatOutOverrun, Search
<1>1. TypeOK'
  BY DEF TypeOK, Places, rules
<1>2. Searched' /\ Untouched' /\ InnerForm' /\ Passed' /\ Directed'
  BY DEF Searched, NatInSearched, AclSearched, NatOutSearched, RouteSearched, NoRouteYet,
         Untouched, InnerForm, Passed, Directed
<1> QED BY <1>1, <1>2, TablesKept, VerdictKept

LEMMA RouteStepKeeps == IInv /\ RouteStep => IInv'
<1> SUFFICES ASSUME IInv, RouteStep PROVE IInv'
  OBVIOUS
<1> USE DEF IInv
<1>1. /\ pc = "route" /\ i \in DOMAIN routes /\ i' = i + 1
      /\ UNCHANGED <<pc, rules, table, nextPort, packet, original, verdict>>
  BY DEF RouteStep, NextPosition, TypeOK
<1>2. routes \in Seq(RouteRule) /\ best \in 0..Len(routes) /\ best < i
      /\ \A j \in DOMAIN routes : routes[j].prefix \in Int
  <2>1. routes \in Seq(RouteRule) /\ best \in 0..Len(routes)
    BY DEF TypeOK
  <2>2. best < i
    BY <1>1 DEF Searched, RouteSearched
  <2>3. \A j \in DOMAIN routes : routes[j] \in RouteRule
    BY <2>1
  <2> QED BY <2>1, <2>2, <2>3 DEF RouteRule
<1>3. best' = IF /\ RouteMatches(i, packet)
                 /\ best = 0 \/ routes[i].prefix > routes[best].prefix
                THEN i ELSE best
  <2>1. best # 0 => routes[best].prefix >= 0
    BY <1>1 DEF Searched, RouteSearched, RouteMatches
  <2>2. best # 0 => routes[best].prefix \in Int
    BY <1>2
  <2>3. routes[i].prefix \in Int
    BY <1>1, <1>2
  <2> QED BY <2>1, <2>2, <2>3 DEF RouteStep, BestPrefix, RouteMatches
<1>4. RouteSearched'
  <2> USE <1>1, <1>2, <1>3 DEF Searched, RouteSearched
  <2>1. \A j : RouteMatches(j, packet)' <=> RouteMatches(j, packet)
    BY DEF RouteMatches, rules
  <2>2. CASE ~RouteMatches(i, packet)
    <3>1. best' = best
      BY <2>2
    <3>2. \A j \in DOMAIN routes : j < i + 1 /\ RouteMatches(j, packet) => j < i
      BY <2>2
    <3> QED BY <2>1, <3>1, <3>2 DEF rules, RouteMatches
  <2>3. CASE RouteMatches(i, packet) /\ (best = 0 \/ routes[i].prefix > routes[best].prefix)
    <3>1. best' = i
      BY <2>3
    <3>2. \A j \in DOMAIN routes : j < i + 1 /\ RouteMatches(j, packet) =>
            \/ routes[j].prefix < routes[i].prefix
            \/ routes[j].prefix = routes[i].prefix /\ i <= j
      BY <2>3
    <3> QED BY <2>1, <2>3, <3>1, <3>2 DEF rules, RouteMatches
  <2>4. CASE /\ RouteMatches(i, packet)
             /\ best # 0 /\ ~(routes[i].prefix > routes[best].prefix)
    <3>1. best' = best
      BY <2>4
    <3>2. \A j \in DOMAIN routes : j < i + 1 /\ RouteMatches(j, packet) =>
            \/ routes[j].prefix < routes[best].prefix
            \/ routes[j].prefix = routes[best].prefix /\ best <= j
      BY <2>4
    <3> QED BY <2>1, <2>4, <3>1, <3>2 DEF rules, RouteMatches
  <2> QED BY <2>2, <2>3, <2>4
<1>5. Searched'
  BY <1>1, <1>4 DEF Searched, NatInSearched, AclSearched, NatOutSearched, NoRouteYet
<1>6. Directed' /\ Untouched' /\ InnerForm' /\ Passed'
  BY <1>1 DEF Directed, Untouched, InnerForm, Passed, Permits, IsAclDecision, rules
<1>7. TypeOK'
  BY <1>1, <1>2, <1>3 DEF TypeOK, rules
<1> QED BY <1>1, <1>7, <1>5, <1>6, TablesKept, VerdictKept

LEMMA RouteDoneKeeps == IInv /\ RouteDone => IInv'
<1> SUFFICES ASSUME IInv, RouteDone PROVE IInv'
  OBVIOUS
<1> USE DEF IInv
<1>1. pc = "route" /\ UNCHANGED <<rules, table, nextPort, packet, original, best>>
  BY DEF RouteDone
<1>2. CASE best = 0
  BY <1>1, <1>2, DropKeeps DEF RouteDone, DropReasons
<1>3. CASE best # 0
  <2>1. /\ verdict' = [decision |-> "FORWARD", packet |-> packet, iface |-> routes[best].iface]
        /\ pc' = "read" /\ i' = 1
    BY <1>3 DEF RouteDone, Decide, Search, Forward
  <2>2. routes[best].iface \in Interfaces
    <3>1. routes \in Seq(RouteRule) /\ best \in 1..Len(routes)
      BY <1>3 DEF TypeOK
    <3>2. routes[best] \in RouteRule
      BY <3>1
    <3> QED BY <3>2 DEF RouteRule
  <2>3. TypeOK'
    BY <1>1, <2>1, <2>2 DEF TypeOK, Places, rules
  <2>4. Searched' /\ Untouched' /\ InnerForm' /\ Passed' /\ Directed'
    BY <1>1, <2>1
    DEF Searched, NatInSearched, AclSearched, NatOutSearched, RouteSearched, NoRouteYet,
        Untouched, InnerForm, Passed, Directed
  <2>5. ForwardedInboundIsReply'
    <3> SUFFICES ASSUME packet.dir = "IN"
                 PROVE  /\ Permits(packet)
                        /\ \E k \in DOMAIN table :
                             /\ packet.proto = table[k].proto
                             /\ packet.src = table[k].remoteIp
                             /\ packet.sport = table[k].remotePort
                             /\ packet.dst = table[k].privateIp
                             /\ packet.dport = table[k].privatePort
      BY <1>1, <2>1 DEF ForwardedInboundIsReply, Permits, IsAclDecision, rules
    <3>1. Permits(packet)
      BY <1>1 DEF Passed
    <3>2. PICK k \in DOMAIN table :
            IsReplyTo(original, table[k]) /\ packet = Inward(original, table[k])
      BY <1>1 DEF InnerForm
    <3>3. original \in Packet /\ table[k] \in NatState
      BY DEF TypeOK
    <3> QED BY <3>1, <3>2, <3>3, InwardFields
  <2> QED BY <1>1, <2>3, <2>4, <2>5, TablesKept
<1> QED BY <1>2, <1>3

-----------------------------------------------------------------------------
LEMMA NextIInv == IInv /\ [Next]_vars => IInv'
<1> SUFFICES ASSUME IInv, [Next]_vars PROVE IInv'
  OBVIOUS
<1>1. CASE NatInFails
  BY <1>1, DropKeeps DEF NatInFails, DropReasons
<1>2. CASE AclDefault
  BY <1>2, DropKeeps DEF AclDefault, DropReasons
<1>3. CASE \E p \in Packets : ReadPacket(p)
  BY <1>3, ReadPacketKeeps
<1> QED
  BY <1>1, <1>2, <1>3, EndOfInputKeeps, NatInStepKeeps, AclStepKeeps, NatOutSkipKeeps,
     NatOutTranslateKeeps, NatOutOverrunKeeps, RouteStepKeeps, RouteDoneKeeps
  DEF Next

LEMMA Invariance == Spec => []IInv
BY InitIInv, NextIInv, PTL DEF Spec

(***************************************************************************)
(* Every variable keeps its type; in particular a recorded translation is  *)
(* always inside the table and every forwarded packet is well formed.      *)
(***************************************************************************)
THEOREM TypeCorrect == Spec => []TypeOK
<1>1. IInv => TypeOK
  BY DEF IInv
<1> QED BY <1>1, Invariance, PTL

(***************************************************************************)
(* No two translations share a public address and port, whatever the rules.*)
(***************************************************************************)
THEOREM Unambiguous == Spec => []TranslationsAreUnambiguous
<1>1. IInv => TranslationsAreUnambiguous
  BY EngineAssumption DEF IInv, PortsCounted, TranslationsAreUnambiguous, TypeOK
<1> QED BY <1>1, Invariance, PTL

(***************************************************************************)
(* Only flows that the ACL permits are ever recorded in the NAT table.     *)
(***************************************************************************)
THEOREM OnlyPermittedTranslated == Spec => []TranslationsArePermitted
<1>1. IInv => TranslationsArePermitted
  BY DEF IInv
<1> QED BY <1>1, Invariance, PTL

(***************************************************************************)
(* Nothing comes in that was not asked for and permitted.                  *)
(***************************************************************************)
THEOREM OnlyRepliesComeIn == Spec => []ForwardedInboundIsReply
<1>1. IInv => ForwardedInboundIsReply
  BY DEF IInv
<1> QED BY <1>1, Invariance, PTL

-----------------------------------------------------------------------------
(***************************************************************************)
(* The engine implements the policy.  Searching is stuttering; the step    *)
(* that ends a search is the step of the policy.                           *)
(***************************************************************************)
LEMMA SameTests ==
  /\ \A r, p : Policy!MatchAclRule(r, p) <=> MatchAclRule(r, p)
  /\ \A p, s : Policy!IsReplyTo(p, s) <=> IsReplyTo(p, s)
  /\ \A ip, net, prefix : Policy!CidrMatch(ip, net, prefix) <=> CidrMatch(ip, net, prefix)
BY DEF Policy!MatchAclRule, MatchAclRule, Policy!AnyProto, AnyProto, Policy!Any, Any,
       Policy!IsReplyTo, IsReplyTo, Policy!CidrMatch, CidrMatch,
       Policy!HostBits, HostBits

LEMMA SameRewriting ==
  /\ \A p, s : Policy!Inward(p, s) = Inward(p, s)
  /\ \A p, s : Policy!Outward(p, s) = Outward(p, s)
  /\ \A p, r, n : Policy!NewState(p, r, n) = NewState(p, r, n)
BY DEF Policy!Inward, Inward, Policy!Outward, Outward, Policy!NewState, NewState

LEMMA SamePermission == \A p : Policy!Permitted(p) <=> Permits(p)
BY SameTests DEF Policy!Permitted, Permits, IsAclDecision

\* The packet in hand is the inner form of the packet read.
LEMMA HandIsInner ==
  ASSUME IInv, pc \in {"acl", "natout"}
  PROVE  packet \in Policy!InnerForms(original)
<1> USE DEF IInv, Policy!InnerForms
<1>1. CASE packet.dir = "IN"
  <2>1. pc = "acl" /\ original.dir = "IN"
    BY <1>1 DEF Directed
  <2>2. PICK k \in DOMAIN table :
          IsReplyTo(original, table[k]) /\ packet = Inward(original, table[k])
    BY <1>1, <2>1 DEF InnerForm
  <2>3. table[k] \in Sessions
    BY DEF Sessions
  <2> QED BY <2>1, <2>2, <2>3, SameTests, SameRewriting
<1>2. CASE packet.dir # "IN"
  BY <1>2 DEF Untouched, Directed
<1> QED BY <1>1, <1>2

LEMMA InitRefines == Init => Policy!Init
<1> SUFFICES ASSUME Init PROVE Policy!Init
  OBVIOUS
<1>1. table = <<>> /\ pc = "read" /\ verdict = Drop("nothing_yet")
  BY DEF Init
<1>2. Sessions = {}
  BY <1>1 DEF Sessions
<1>3. Stage = "idle" /\ Considered = Policy!NoPacket
  BY <1>1 DEF Stage, Considered, Judging, Policy!NoPacket
<1> QED BY <1>1, <1>2, <1>3 DEF Policy!Init, Policy!Drop, Drop

\* A step that changes neither rules, table, verdict nor what is considered.
LEMMA Stutters ==
  ASSUME UNCHANGED <<rules, table, verdict>>, Stage' = Stage, Considered' = Considered
  PROVE  UNCHANGED Policy!policyVars
BY DEF Policy!policyVars, rules, Sessions

LEMMA DenialRefines ==
  ASSUME IInv, pc = "acl", ~Permits(packet), Decide(Drop("ACL")),
         UNCHANGED <<rules, table>>
  PROVE  Policy!Refuse
<1>1. Stage = "judging" /\ Stage' = "idle" /\ Considered = original
      /\ Considered' = Policy!NoPacket
  BY DEF Decide, Search, Stage, Considered, Judging, Policy!NoPacket
<1>2. packet \in Policy!InnerForms(original) /\ ~Policy!Permitted(packet)
  BY HandIsInner, SamePermission
<1>3. verdict' = Policy!Drop("ACL")
  BY DEF Decide, Drop, Policy!Drop
<1>4. UNCHANGED <<acl, nat, routes, Sessions>>
  BY DEF rules, Sessions
<1> QED BY <1>1, <1>2, <1>3, <1>4 DEF Policy!Refuse

LEMMA NatInFailsRefines == IInv /\ NatInFails => Policy!Refuse
<1> SUFFICES ASSUME IInv, NatInFails PROVE Policy!Refuse
  OBVIOUS
<1>1. /\ pc = "natin" /\ i > Len(table) /\ packet = original /\ original.dir = "IN"
      /\ pc' = "read" /\ verdict' = Drop("no_NAT_state")
      /\ UNCHANGED <<rules, table>>
  BY DEF NatInFails, Decide, Search, IInv, Untouched, Directed
<1>2. \A t \in Sessions : ~IsReplyTo(original, t)
  BY <1>1 DEF Sessions, IInv, Searched, NatInSearched, TypeOK
<1>3. Policy!InnerForms(original) = {}
  BY <1>1, <1>2, SameTests DEF Policy!InnerForms
<1>4. Stage = "judging" /\ Stage' = "idle" /\ Considered = original
      /\ Considered' = Policy!NoPacket
  BY <1>1 DEF Stage, Considered, Judging, Policy!NoPacket
<1>5. verdict' = Policy!Drop("no_NAT_state")
  BY <1>1 DEF Drop, Policy!Drop
<1>6. UNCHANGED <<acl, nat, routes, Sessions>>
  BY <1>1 DEF rules, Sessions
<1> QED BY <1>3, <1>4, <1>5, <1>6 DEF Policy!Refuse

LEMMA AclStepRefines == IInv /\ AclStep => Policy!Refuse \/ Policy!Admit \/ UNCHANGED Policy!policyVars
<1> SUFFICES ASSUME IInv, AclStep
             PROVE  Policy!Refuse \/ Policy!Admit \/ UNCHANGED Policy!policyVars
  OBVIOUS
<1>1. /\ pc = "acl" /\ i \in DOMAIN acl /\ i \in Nat
      /\ UNCHANGED <<rules, table, packet, original>>
  BY DEF AclStep, IInv, TypeOK
<1>2. CASE ~MatchAclRule(acl[i], packet)
  <2>1. UNCHANGED <<pc, verdict>>
    BY <1>2 DEF AclStep, NextPosition
  <2> QED BY <1>1, <2>1, Stutters DEF Stage, Considered
<1>3. CASE MatchAclRule(acl[i], packet) /\ acl[i].action = "DENY"
  <2>1. ASSUME NEW k, IsAclDecision(k, packet) PROVE k = i
    <3>1. k \in DOMAIN acl /\ k \in Nat /\ acl \in Seq(AclRule)
      BY <2>1 DEF IsAclDecision, IInv, TypeOK
    <3>2. ~(k < i)
      BY <1>1, <2>1, <3>1 DEF IsAclDecision, IInv, Searched, AclSearched
    <3>3. ~(i < k)
      BY <1>1, <1>3, <2>1, <3>1 DEF IsAclDecision, IInv, TypeOK
    <3> QED BY <1>1, <3>1, <3>2, <3>3
  <2>2. ~Permits(packet)
    BY <1>3, <2>1 DEF Permits
  <2> QED BY <1>1, <1>3, <2>2, DenialRefines DEF AclStep
<1>4. CASE MatchAclRule(acl[i], packet) /\ acl[i].action # "DENY" /\ packet.dir = "OUT"
  <2>1. pc' = "natout" /\ UNCHANGED verdict
    BY <1>4 DEF AclStep, Search
  <2> QED BY <1>1, <2>1, Stutters DEF Stage, Considered, Judging
<1>5. CASE MatchAclRule(acl[i], packet) /\ acl[i].action # "DENY" /\ packet.dir # "OUT"
  <2>1. pc' = "route" /\ UNCHANGED verdict
    BY <1>5 DEF AclStep, Search
  <2>2. Permits(packet)
    BY <1>1, <1>5 DEF Permits, IsAclDecision, IInv, Searched, AclSearched, TypeOK
  <2>3. Stage = "judging" /\ Stage' = "sending" /\ Considered = original
        /\ Considered' = packet
    BY <1>1, <2>1 DEF Stage, Considered, Judging
  <2>4. packet \in Policy!InnerForms(original) /\ Policy!Permitted(packet)
    BY <1>1, <2>2, HandIsInner, SamePermission
  <2>5. original.dir # "OUT"
    BY <1>5 DEF IInv, Directed
  <2>6. UNCHANGED <<acl, nat, routes, Sessions, verdict>>
    BY <1>1, <2>1 DEF rules, Sessions
  <2> QED BY <2>3, <2>4, <2>5, <2>6 DEF Policy!Admit
<1> QED BY <1>2, <1>3, <1>4, <1>5

LEMMA AclDefaultRefines == IInv /\ AclDefault => Policy!Refuse
<1> SUFFICES ASSUME IInv, AclDefault PROVE Policy!Refuse
  OBVIOUS
<1>1. ~Permits(packet)
  BY DEF AclDefault, Permits, IsAclDecision, IInv, Searched, AclSearched, TypeOK
<1> QED BY <1>1, DenialRefines DEF AclDefault

LEMMA NatOutSkipRefines == IInv /\ NatOutSkip => Policy!Admit \/ UNCHANGED Policy!policyVars
<1> SUFFICES ASSUME IInv, NatOutSkip PROVE Policy!Admit \/ UNCHANGED Policy!policyVars
  OBVIOUS
<1>1. /\ pc = "natout" /\ packet = original
      /\ UNCHANGED <<rules, table, packet, original, verdict>>
  BY DEF NatOutSkip, IInv, Untouched
<1>2. CASE i > Len(nat)
  <2>1. pc' = "route"
    BY <1>2 DEF NatOutSkip, Search
  <2>2. Stage = "judging" /\ Stage' = "sending" /\ Considered = original
        /\ Considered' = packet
    BY <1>1, <2>1 DEF Stage, Considered, Judging
  <2>3. packet \in Policy!InnerForms(original) /\ Policy!Permitted(packet)
    BY <1>1, HandIsInner, SamePermission DEF IInv, Passed
  <2>4. \A k \in DOMAIN nat : ~Policy!IsNatRuleFor(k, original)
    BY <1>1, <1>2, SameTests
    DEF Policy!IsNatRuleFor, IInv, Searched, NatOutSearched, SourceMatches, TypeOK
  <2>5. UNCHANGED <<acl, nat, routes, Sessions, verdict>>
    BY <1>1 DEF rules, Sessions
  <2> QED BY <2>2, <2>3, <2>4, <2>5 DEF Policy!Admit
<1>3. CASE ~(i > Len(nat))
  <2>1. UNCHANGED pc
    BY <1>3 DEF NatOutSkip, NextPosition
  <2> QED BY <1>1, <2>1, Stutters DEF Stage, Considered
<1> QED BY <1>2, <1>3

LEMMA NatOutTranslateRefines == IInv /\ NatOutTranslate => Policy!OpenSession
<1> SUFFICES ASSUME IInv, NatOutTranslate PROVE Policy!OpenSession
  OBVIOUS
<1> DEFINE s == NewState(packet, nat[i], nextPort)
<1>1. /\ pc = "natout" /\ pc' = "route" /\ packet = original /\ packet.dir = "OUT"
      /\ i \in DOMAIN nat /\ SourceMatches(i, packet)
      /\ table' = Append(table, s) /\ packet' = Outward(packet, s)
      /\ UNCHANGED <<rules, original, verdict>>
  BY DEF NatOutTranslate, Search, NatRuleMatches, SourceMatches, IInv, Untouched, Directed, TypeOK
<1>2. /\ packet \in Packet /\ nat[i] \in NatRule /\ nextPort \in Ports
      /\ table \in Seq(NatState)
  BY <1>1 DEF IInv, TypeOK
<1>3. s \in NatState
  BY <1>2, NewStateType
<1>4. s.publicPort = nextPort /\ s = NewState(packet, nat[i], s.publicPort)
  BY DEF NewState
<1> HIDE DEF s
<1>5. Sessions' = Sessions \cup {s}
  <2>1. /\ DOMAIN table' = DOMAIN table \cup {Len(table) + 1}
        /\ table'[Len(table) + 1] = s
        /\ \A k \in DOMAIN table : table'[k] = table[k]
    BY <1>1, <1>2, <1>3
  <2> QED BY <2>1 DEF Sessions
<1>6. \A t \in Sessions : t.publicPort # s.publicPort
  BY <1>2, <1>4, EngineAssumption DEF Sessions, IInv, PortsCounted
<1>7. s \in Sessions' \ Sessions
  BY <1>5, <1>6
<1>8. Policy!IsFresh(s.publicPort)
  BY <1>2, <1>4, <1>6, EngineAssumption DEF Policy!IsFresh, IInv, PortsCounted
<1>9. Policy!IsNatRuleFor(i, original)
  BY <1>1, SameTests
  DEF Policy!IsNatRuleFor, IInv, Searched, NatOutSearched, SourceMatches, TypeOK
<1>10. Stage = "judging" /\ Stage' = "sending" /\ Considered = original
       /\ Considered' = packet'
  BY <1>1 DEF Stage, Considered, Judging
<1>11. Policy!Permitted(original)
  BY <1>1, SamePermission DEF IInv, Passed
<1>12. s = Policy!NewState(original, nat[i], s.publicPort)
       /\ packet' = Policy!Outward(original, s)
  BY <1>1, <1>4, SameRewriting
<1>13. UNCHANGED <<acl, nat, routes, verdict>>
  BY <1>1 DEF rules
<1>14. original.dir = "OUT"
  BY <1>1
<1> QED BY <1>1, <1>5, <1>7, <1>8, <1>9, <1>10, <1>11, <1>12, <1>13, <1>14 DEF Policy!OpenSession

LEMMA RouteDoneRefines == IInv /\ RouteDone => Policy!Send
<1> SUFFICES ASSUME IInv, RouteDone PROVE Policy!Send
  OBVIOUS
<1>1. /\ pc = "route" /\ pc' = "read" /\ i > Len(routes)
      /\ UNCHANGED <<rules, table, packet>>
  BY DEF RouteDone, Decide, Search
<1>2. Stage = "sending" /\ Stage' = "idle" /\ Considered = packet
      /\ Considered' = Policy!NoPacket
  BY <1>1 DEF Stage, Considered, Judging, Policy!NoPacket
<1>3. \A j \in DOMAIN routes : j < i
  BY <1>1 DEF IInv, TypeOK
<1>4. UNCHANGED <<acl, nat, routes, Sessions>>
  BY <1>1 DEF rules, Sessions
<1>5. \A j : j \in Policy!RoutesFor(packet) <=> j \in DOMAIN routes /\ RouteMatches(j, packet)
  BY SameTests DEF Policy!RoutesFor, RouteMatches
<1>6. CASE best = 0
  <2>1. Policy!RoutesFor(packet) = {}
    BY <1>1, <1>3, <1>5, <1>6 DEF IInv, Searched, RouteSearched
  <2>2. verdict' = Policy!Drop("no_route")
    BY <1>6 DEF RouteDone, Decide, Drop, Policy!Drop
  <2> QED BY <1>2, <1>4, <2>1, <2>2 DEF Policy!Send
<1>7. CASE best # 0
  <2>1. best \in DOMAIN routes
    BY <1>7 DEF IInv, TypeOK
  <2>2. /\ RouteMatches(best, packet)
        /\ \A j \in DOMAIN routes : RouteMatches(j, packet) =>
             \/ routes[j].prefix < routes[best].prefix
             \/ routes[j].prefix = routes[best].prefix /\ best <= j
    BY <1>1, <1>3, <1>7 DEF IInv, Searched, RouteSearched
  <2>3. best \in Policy!RoutesFor(packet) /\ Policy!IsBestRoute(best, packet)
    BY <1>5, <2>1, <2>2 DEF Policy!IsBestRoute
  <2>4. verdict' = Policy!Forward(packet, routes[best].iface)
    BY <1>7 DEF RouteDone, Decide, Forward, Policy!Forward
  <2> QED BY <1>2, <1>4, <2>3, <2>4 DEF Policy!Send
<1> QED BY <1>6, <1>7

LEMMA StepRefines == IInv /\ [Next]_vars => [Policy!Next]_(Policy!policyVars)
<1> SUFFICES ASSUME IInv, [Next]_vars
             PROVE  Policy!Next \/ UNCHANGED Policy!policyVars
  OBVIOUS
<1>1. ASSUME NEW p \in Packets, ReadPacket(p) PROVE Policy!Arrive(p)
  <2>1. /\ pc = "read" /\ pc' \in {"natin", "acl"} /\ original' = p
        /\ UNCHANGED <<rules, table, verdict>>
    BY <1>1 DEF ReadPacket, Search
  <2> QED BY <2>1 DEF Policy!Arrive, Stage, Considered, Judging, rules, Sessions
<1>2. CASE EndOfInput
  BY <1>2, Stutters DEF EndOfInput, Search, Stage, Considered, Judging
<1>3. CASE NatInStep
  BY <1>3, Stutters DEF NatInStep, NextPosition, Search, Stage, Considered, Judging
<1>4. CASE NatOutOverrun
  BY <1>4, Stutters DEF NatOutOverrun, Search, Stage, Considered, Judging
<1>5. CASE RouteStep
  BY <1>5, Stutters DEF RouteStep, NextPosition, Stage, Considered
<1>6. CASE UNCHANGED vars
  BY <1>6, Stutters DEF vars, rules, Stage, Considered
<1> QED
  BY <1>1, <1>2, <1>3, <1>4, <1>5, <1>6, NatInFailsRefines, AclStepRefines, AclDefaultRefines,
     NatOutSkipRefines, NatOutTranslateRefines, RouteDoneRefines
  DEF Next, Policy!Next

(***************************************************************************)
(* Every behaviour of the loops of acl_nat_engine.c is a behaviour of the  *)
(* policy: first match in the ACL and in the NAT rules, a fresh public     *)
(* port, the longest prefix and, among equals, the first route.            *)
(***************************************************************************)
THEOREM EngineImplementsPolicy == Spec => RefinesPolicy
BY InitRefines, Invariance, StepRefines, PTL DEF Spec, RefinesPolicy, Policy!Spec

-----------------------------------------------------------------------------
(***************************************************************************)
(* The loader.  While it reads, the engine is at rest; the tables hold the *)
(* rules of the lines read so far, and type is the last word among them.   *)
(***************************************************************************)
AtRest ==
  /\ table = <<>> /\ nextPort = FirstPort
  /\ packet \in Packets /\ original = packet
  /\ pc = "read" /\ i = 1 /\ best = 0
  /\ verdict = Drop("nothing_yet")

LoaderTyped ==
  /\ file \in Seq(Line)
  /\ line \in 1..(Len(file) + 1)
  /\ type \in Tables \cup {"other"}
  /\ loading \in {"reading", "done", "exit", "overrun"}
  /\ loading = "done" => line = Len(file) + 1

RulesTyped == acl \in Seq(AclRule) /\ nat \in Seq(NatRule) /\ routes \in Seq(RouteRule)

ReadSoFar ==
  /\ AreStated(file, acl, "ACL", line - 1)
  /\ AreStated(file, nat, "NAT", line - 1)
  /\ AreStated(file, routes, "ROUTE", line - 1)

NoneMalformed ==
  \A k \in 1..(line - 1) : file[k].kind \in Tables => file[k].rule # Malformed

TypeRemembered ==
  \A j \in 1..(line - 1) :
    HasWord(j) /\ (\A m \in (j + 1)..(line - 1) : ~HasWord(m)) => type = file[j].kind

LoaderInv ==
  /\ LoaderTyped /\ RulesTyped
  /\ ReadSoFar /\ NoneMalformed /\ TypeRemembered
  /\ loading # "done" => AtRest
  /\ RefusedForCause

ProgramInv == IInv /\ LoaderInv

-----------------------------------------------------------------------------
(***************************************************************************)
(* How many lines of a table there are up to one line and up to the next.  *)
(***************************************************************************)
LEMMA LinesCounted ==
  ASSUME NEW f, NEW t, NEW n \in Nat
  PROVE  IsFiniteSet(LinesFor(f, t, n)) /\ Cardinality(LinesFor(f, t, n)) \in Nat
<1>1. LinesFor(f, t, n) \in SUBSET (1..n) /\ IsFiniteSet(1..n)
  BY FS_Interval DEF LinesFor
<1> QED BY <1>1, FS_Subset, FS_CardinalityType

\* One more line is one more of its table, and of no other.
LEMMA NextLineCounted ==
  ASSUME NEW f, NEW t, NEW n \in Nat
  PROVE  /\ f[n + 1].kind = t =>
              /\ LinesFor(f, t, n + 1) = LinesFor(f, t, n) \cup {n + 1}
              /\ Cardinality(LinesFor(f, t, n + 1)) = Cardinality(LinesFor(f, t, n)) + 1
         /\ f[n + 1].kind # t => LinesFor(f, t, n + 1) = LinesFor(f, t, n)
<1>1. n + 1 \notin LinesFor(f, t, n)
  BY DEF LinesFor
<1>2. 1..(n + 1) = (1..n) \cup {n + 1}
  OBVIOUS
<1>3. f[n + 1].kind = t => LinesFor(f, t, n + 1) = LinesFor(f, t, n) \cup {n + 1}
  BY <1>2 DEF LinesFor
<1>4. f[n + 1].kind # t => LinesFor(f, t, n + 1) = LinesFor(f, t, n)
  BY <1>2 DEF LinesFor
<1>5. IsFiniteSet(LinesFor(f, t, n))
  BY LinesCounted
<1>6. Cardinality(LinesFor(f, t, n) \cup {n + 1}) = Cardinality(LinesFor(f, t, n)) + 1
  BY <1>1, <1>5, FS_AddElement
<1> QED BY <1>3, <1>4, <1>6

\* The place of a line in its table is inside what has been read.
LEMMA PlaceOfLine ==
  ASSUME NEW f, NEW t, NEW n \in Nat, NEW k \in LinesFor(f, t, n)
  PROVE  /\ k \in 1..n
         /\ Cardinality(LinesFor(f, t, k)) \in 1..Cardinality(LinesFor(f, t, n))
<1>1. k \in 1..n /\ k \in LinesFor(f, t, k)
  BY DEF LinesFor
<1>2. LinesFor(f, t, k) \in SUBSET LinesFor(f, t, n)
  BY <1>1 DEF LinesFor
<1>3. /\ IsFiniteSet(LinesFor(f, t, n)) /\ Cardinality(LinesFor(f, t, n)) \in Nat
      /\ IsFiniteSet(LinesFor(f, t, k)) /\ Cardinality(LinesFor(f, t, k)) \in Nat
  BY <1>1, LinesCounted
<1>4. Cardinality(LinesFor(f, t, k)) <= Cardinality(LinesFor(f, t, n))
  BY <1>2, <1>3, FS_Subset
<1>5. Cardinality(LinesFor(f, t, k)) # 0
  BY <1>1, <1>3, FS_EmptySet
<1> QED BY <1>1, <1>3, <1>4, <1>5

\* A rule appended for the next line keeps the table what the file states.
LEMMA StatedGrows ==
  ASSUME NEW f, NEW t, NEW n \in Nat, NEW S, NEW rs \in Seq(S), NEW r \in S,
         AreStated(f, rs, t, n), f[n + 1].kind = t, f[n + 1].rule = r
  PROVE  AreStated(f, Append(rs, r), t, n + 1)
<1> DEFINE more == Append(rs, r)
           place(m) == Cardinality(LinesFor(f, t, m))
<1>1. /\ LinesFor(f, t, n + 1) = LinesFor(f, t, n) \cup {n + 1}
      /\ place(n + 1) = place(n) + 1
  BY NextLineCounted
<1>2. Len(rs) = place(n) /\ \A k \in LinesFor(f, t, n) : rs[place(k)] = f[k].rule
  BY DEF AreStated
<1>3. /\ Len(more) = Len(rs) + 1 /\ more[Len(rs) + 1] = r
      /\ \A p \in 1..Len(rs) : more[p] = rs[p]
  OBVIOUS
<1>4. ASSUME NEW k \in LinesFor(f, t, n + 1) PROVE more[place(k)] = f[k].rule
  <2>1. CASE k \in LinesFor(f, t, n)
    <3>1. place(k) \in 1..Len(rs)
      BY <1>2, <2>1, PlaceOfLine
    <3> QED BY <1>2, <1>3, <2>1, <3>1
  <2>2. CASE k = n + 1
    BY <1>1, <1>2, <1>3, <2>2
  <2> QED BY <1>1, <2>1, <2>2
<1> HIDE DEF more
<1>5. AreStated(f, more, t, n + 1)
  BY <1>1, <1>2, <1>3, <1>4 DEF AreStated
<1> QED BY <1>5 DEF more

\* A line of another kind states nothing for the table.
LEMMA StatedStays ==
  ASSUME NEW f, NEW t, NEW n \in Nat, NEW rs,
         AreStated(f, rs, t, n), f[n + 1].kind # t
  PROVE  AreStated(f, rs, t, n + 1)
BY NextLineCounted DEF AreStated

\* Before the first line no table states anything.
LEMMA NothingStated == \A f, t : AreStated(f, <<>>, t, 0)
<1> SUFFICES ASSUME NEW f, NEW t PROVE AreStated(f, <<>>, t, 0)
  OBVIOUS
<1>1. LinesFor(f, t, 0) = {}
  BY DEF LinesFor
<1> QED BY <1>1, FS_EmptySet DEF AreStated

-----------------------------------------------------------------------------
(***************************************************************************)
(* An engine at rest keeps its invariant, whatever rules it has.           *)
(***************************************************************************)
LEMMA RestIsSound == AtRest /\ RulesTyped => IInv
<1> SUFFICES ASSUME AtRest, RulesTyped PROVE IInv
  OBVIOUS
<1> USE DEF AtRest, RulesTyped, Drop
<1>1. table \in Seq(NatState) /\ Len(table) = 0 /\ DOMAIN table = {}
  OBVIOUS
<1>2. verdict = [decision |-> "DROP", why |-> "nothing_yet"]
  OBVIOUS
<1>3. TypeOK
  BY <1>1, <1>2, EngineAssumption DEF TypeOK, Places, DropReasons, Ports
<1>4. PortsCounted
  BY <1>1, EngineAssumption DEF PortsCounted
<1>5. TranslationsArePermitted /\ ForwardedInboundIsReply
  BY <1>1, <1>2 DEF TranslationsArePermitted, ForwardedInboundIsReply
<1> QED BY <1>3, <1>4, <1>5
  DEF IInv, Searched, NatInSearched, AclSearched, NatOutSearched, RouteSearched, NoRouteYet, Directed,
      Untouched, InnerForm, Passed

LEMMA ProgramInitInv == ProgramInit => ProgramInv
<1> SUFFICES ASSUME ProgramInit PROVE ProgramInv
  OBVIOUS
<1>1. AtRest /\ RulesTyped
  BY EngineAssumption DEF ProgramInit, Init, AtRest, RulesTyped
<1>2. IInv
  BY <1>1, RestIsSound
<1>3. file \in Seq(Line) /\ line = 1 /\ loading = "reading" /\ line - 1 = 0
  BY ProgramAssumption DEF ProgramInit
<1>4. LoaderTyped
  BY <1>3 DEF LoaderTyped, ProgramInit
<1>5. ReadSoFar
  BY <1>3, NothingStated DEF ReadSoFar, ProgramInit
<1>6. NoneMalformed /\ TypeRemembered /\ RefusedForCause
  BY <1>3 DEF NoneMalformed, TypeRemembered, RefusedForCause
<1> QED BY <1>1, <1>2, <1>4, <1>5, <1>6 DEF ProgramInv, LoaderInv

-----------------------------------------------------------------------------
\* A line of the file, and what its kind says of it.
LEMMA LineTyped ==
  ASSUME LoaderTyped, line <= Len(file)
  PROVE  /\ file[line] \in Line
         /\ file[line].kind \in Tables \cup {"comment", "empty", "blank", "other"}
         /\ file[line].kind = "ACL" => file[line].rule \in AclRule \cup {Malformed}
         /\ file[line].kind = "NAT" => file[line].rule \in NatRule \cup {Malformed}
         /\ file[line].kind = "ROUTE" => file[line].rule \in RouteRule \cup {Malformed}
<1>1. file[line] \in Line
  BY DEF LoaderTyped
<1> QED BY <1>1 DEF Line, Tables

\* A line that is read without a rule of its own being added.
LEMMA PassedOver ==
  ASSUME LoaderInv, loading = "reading", line <= Len(file), file[line].kind \notin Tables,
         NextLine, UNCHANGED <<file, rules, table, nextPort, packet, original, pc, i, best, verdict>>,
         type' \in Tables \cup {"other"},
         HasWord(line) => type' = file[line].kind,
         ~HasWord(line) => type' = type \/ (type' = "other" /\ type = "other")
  PROVE  LoaderInv'
<1> USE DEF LoaderInv
<1>1. /\ line \in Nat /\ line >= 1 /\ line' = line + 1 /\ line' - 1 = (line - 1) + 1
      /\ file' = file /\ loading' = "reading"
  BY DEF LoaderTyped, NextLine
<1>2. LoaderTyped' /\ RulesTyped' /\ AtRest'
  BY <1>1 DEF LoaderTyped, RulesTyped, AtRest, rules
<1>3. line - 1 \in Nat /\ (line - 1) + 1 = line /\ \A t \in Tables : file[line].kind # t
  BY <1>1
<1>4. ReadSoFar'
  BY <1>1, <1>3, StatedStays DEF ReadSoFar, Tables, rules
<1>5. NoneMalformed'
  BY <1>1 DEF NoneMalformed
<1>6. TypeRemembered'
  <2> SUFFICES ASSUME NEW j \in 1..line, HasWord(j), \A m \in (j + 1)..line : ~HasWord(m)
               PROVE  type' = file[j].kind
    BY <1>1 DEF TypeRemembered, HasWord
  <2>1. CASE j = line
    BY <2>1
  <2>2. CASE j # line
    <3>1. j \in 1..(line - 1) /\ ~HasWord(line) /\ \A m \in (j + 1)..(line - 1) : ~HasWord(m)
      BY <1>1, <2>2
    <3> QED BY <3>1 DEF TypeRemembered
  <2> QED BY <2>1, <2>2
<1> QED BY <1>1, <1>2, <1>4, <1>5, <1>6 DEF RefusedForCause

LEMMA SkipLineKeeps ==
  ASSUME LoaderInv, loading = "reading", line <= Len(file), SkipLine(file[line]),
         UNCHANGED <<file, table, nextPort, packet, original, pc, i, best, verdict>>
  PROVE  LoaderInv'
<1>1. file[line].kind \notin Tables /\ ~HasWord(line)
  BY DEF SkipLine, Skips, HasWord, Tables
<1>2. NextLine /\ UNCHANGED rules /\ type' = type
  BY DEF SkipLine
<1>3. type \in Tables \cup {"other"}
  BY DEF LoaderInv, LoaderTyped
<1> QED BY <1>1, <1>2, <1>3, PassedOver

LEMMA IgnoreLineKeeps ==
  ASSUME LoaderInv, loading = "reading", line <= Len(file), IgnoreLine(file[line]),
         UNCHANGED <<file, table, nextPort, packet, original, pc, i, best, verdict>>
  PROVE  LoaderInv'
<1>1. TypeAfter(file[line]) = "other" /\ type' = "other"
  BY DEF IgnoreLine
<1>2. file[line].kind \notin Tables
  BY <1>1 DEF TypeAfter, Tables
<1>3. HasWord(line) => file[line].kind = "other"
  BY <1>2 DEF HasWord
<1>4. ~HasWord(line) => type = "other"
  BY <1>1 DEF TypeAfter, HasWord
<1> QED BY <1>1, <1>2, <1>3, <1>4, PassedOver DEF IgnoreLine

LEMMA AddRuleKeeps ==
  ASSUME LoaderInv, loading = "reading", line <= Len(file), AddRule(file[line]),
         UNCHANGED <<file, table, nextPort, packet, original, pc, i, best, verdict>>
  PROVE  LoaderInv'
<1> USE DEF LoaderInv
<1> DEFINE l == file[line]
<1>1. /\ line \in Nat /\ line >= 1 /\ line' = line + 1 /\ line' - 1 = (line - 1) + 1
      /\ file' = file /\ loading' = "reading" /\ type' = l.kind
      /\ l.kind \in Tables /\ l.rule # Malformed
  BY DEF LoaderTyped, AddRule, NextLine, Parses
<1>2. /\ acl' = IF l.kind = "ACL" THEN Append(acl, l.rule) ELSE acl
      /\ nat' = IF l.kind = "NAT" THEN Append(nat, l.rule) ELSE nat
      /\ routes' = IF l.kind = "ROUTE" THEN Append(routes, l.rule) ELSE routes
  BY DEF AddRule
<1>3. /\ l.kind = "ACL" => l.rule \in AclRule
      /\ l.kind = "NAT" => l.rule \in NatRule
      /\ l.kind = "ROUTE" => l.rule \in RouteRule
  BY <1>1, LineTyped
<1>4. acl \in Seq(AclRule) /\ nat \in Seq(NatRule) /\ routes \in Seq(RouteRule)
  BY DEF RulesTyped
<1>5. line - 1 \in Nat /\ (line - 1) + 1 = line
  BY <1>1
<1> HIDE DEF l
<1>6. RulesTyped'
  BY <1>2, <1>3, <1>4 DEF RulesTyped
<1>7. LoaderTyped' /\ AtRest'
  BY <1>1 DEF LoaderTyped, AtRest
<1>8. ReadSoFar'
  <2>1. AreStated(file, acl', "ACL", line)
    <3>1. CASE l.kind = "ACL"
      BY <1>2, <1>3, <1>4, <1>5, <3>1, StatedGrows DEF ReadSoFar, l
    <3>2. CASE l.kind # "ACL"
      BY <1>2, <1>5, <3>2, StatedStays DEF ReadSoFar, l
    <3> QED BY <3>1, <3>2
  <2>2. AreStated(file, nat', "NAT", line)
    <3>1. CASE l.kind = "NAT"
      BY <1>2, <1>3, <1>4, <1>5, <3>1, StatedGrows DEF ReadSoFar, l
    <3>2. CASE l.kind # "NAT"
      BY <1>2, <1>5, <3>2, StatedStays DEF ReadSoFar, l
    <3> QED BY <3>1, <3>2
  <2>3. AreStated(file, routes', "ROUTE", line)
    <3>1. CASE l.kind = "ROUTE"
      BY <1>2, <1>3, <1>4, <1>5, <3>1, StatedGrows DEF ReadSoFar, l
    <3>2. CASE l.kind # "ROUTE"
      BY <1>2, <1>5, <3>2, StatedStays DEF ReadSoFar, l
    <3> QED BY <3>1, <3>2
  <2> QED BY <1>1, <1>5, <2>1, <2>2, <2>3 DEF ReadSoFar
<1>9. NoneMalformed'
  BY <1>1 DEF NoneMalformed, l
<1>10. TypeRemembered'
  <2> SUFFICES ASSUME NEW j \in 1..line, HasWord(j), \A m \in (j + 1)..line : ~HasWord(m)
               PROVE  type' = file[j].kind
    BY <1>1 DEF TypeRemembered, HasWord
  <2>1. HasWord(line)
    BY <1>1 DEF HasWord, l
  <2>2. j = line
    BY <1>1, <2>1
  <2> QED BY <1>1, <2>2 DEF l
<1> QED BY <1>1, <1>6, <1>7, <1>8, <1>9, <1>10 DEF RefusedForCause

\* The refused line is malformed, or a blank one after a table's word.
LEMMA RejectLineKeeps ==
  ASSUME LoaderInv, loading = "reading", line <= Len(file), RejectLine(file[line]),
         UNCHANGED <<file, table, nextPort, packet, original, pc, i, best, verdict>>
  PROVE  LoaderInv'
<1> USE DEF LoaderInv
<1>1. /\ UNCHANGED <<file, line, type, acl, nat, routes>> /\ loading' = "exit"
      /\ line \in 1..Len(file) /\ line \in DOMAIN file
  BY DEF RejectLine, rules, LoaderTyped
<1>2. CASE file[line].kind \in Tables
  <2>1. file[line].rule = Malformed
    BY <1>2 DEF RejectLine, Parses
  <2> QED BY <1>1, <1>2, <2>1
          DEF LoaderTyped, RulesTyped, ReadSoFar, NoneMalformed, TypeRemembered, HasWord, AtRest,
              RefusedForCause
<1>3. CASE file[line].kind \notin Tables
  <2>1. file[line].kind = "blank" /\ type \in Tables
    BY <1>1, <1>3, LineTyped DEF RejectLine, Skips, TypeAfter, Tables
  <2>2. TakenForRule(line)
    BY <1>1, <2>1 DEF TakenForRule, TypeRemembered
  <2>3. TakenForRule(line)'
    BY <1>1, <2>2 DEF TakenForRule, HasWord
  <2>4. RefusedForCause'
    BY <1>1, <2>3 DEF RefusedForCause, TakenForRule
  <2> QED BY <1>1, <2>4
          DEF LoaderTyped, RulesTyped, ReadSoFar, NoneMalformed, TypeRemembered, HasWord, AtRest
<1> QED BY <1>2, <1>3

\* Loading ends: at the end of the file, or with a write past a table.
LEMMA LoadingEndsKeeps ==
  ASSUME LoaderInv, loading = "reading", loading' \in {"done", "overrun"},
         loading' = "done" => line = Len(file) + 1,
         UNCHANGED <<file, line, type, rules>>,
         UNCHANGED <<table, nextPort, packet, original, pc, i, best, verdict>>
  PROVE  LoaderInv'
BY DEF LoaderInv, LoaderTyped, RulesTyped, ReadSoFar, NoneMalformed, TypeRemembered, HasWord, AtRest,
       RefusedForCause, rules

LEMMA LoadRulesKeeps == ProgramInv /\ LoadRules => ProgramInv'
<1> SUFFICES ASSUME ProgramInv, LoadRules PROVE ProgramInv'
  OBVIOUS
<1> USE DEF ProgramInv
<1>1. /\ loading = "reading"
      /\ UNCHANGED <<file, table, nextPort, packet, original, pc, i, best, verdict>>
  BY DEF LoadRules
<1>2. LoaderInv'
  <2>1. CASE line <= Len(file) /\ SkipLine(file[line])
    BY <1>1, <2>1, SkipLineKeeps
  <2>2. CASE line <= Len(file) /\ IgnoreLine(file[line])
    BY <1>1, <2>2, IgnoreLineKeeps
  <2>3. CASE line <= Len(file) /\ AddRule(file[line])
    BY <1>1, <2>3, AddRuleKeeps
  <2>4. CASE line <= Len(file) /\ RejectLine(file[line])
    BY <1>1, <2>4, RejectLineKeeps
  <2>5. CASE WritePastTable(file[line])
    BY <1>1, <2>5, LoadingEndsKeeps DEF WritePastTable
  <2>6. CASE EndOfRules
    <3>1. line = Len(file) + 1
      BY <2>6 DEF EndOfRules, LoaderInv, LoaderTyped
    <3> QED BY <1>1, <2>6, <3>1, LoadingEndsKeeps DEF EndOfRules
  <2> QED BY <2>1, <2>2, <2>3, <2>4, <2>5, <2>6 DEF LoadRules
<1>3. AtRest'
  BY <1>1 DEF LoaderInv, AtRest
<1>4. RulesTyped'
  BY <1>2 DEF LoaderInv
<1>5. (AtRest /\ RulesTyped => IInv)'
  BY RestIsSound, PTL
<1> QED BY <1>2, <1>3, <1>4, <1>5

\* Packets never change the rules.
LEMMA RulesStay == [Next]_vars => UNCHANGED rules
BY DEF Next, ReadPacket, EndOfInput, NatInStep, NatInFails, AclStep, AclDefault, NatOutSkip,
       NatOutTranslate, NatOutOverrun, RouteStep, RouteDone, vars

LEMMA ProcessPacketsKeeps ==
  ProgramInv /\ (ProcessPackets \/ UNCHANGED programVars) => ProgramInv'
<1> SUFFICES ASSUME ProgramInv, ProcessPackets \/ UNCHANGED programVars PROVE ProgramInv'
  OBVIOUS
<1> USE DEF ProgramInv
<1>1. [Next]_vars /\ UNCHANGED <<file, line, type, loading>>
  BY DEF ProcessPackets, programVars, loaderVars
<1>2. IInv' /\ UNCHANGED rules
  BY <1>1, NextIInv, RulesStay
<1>3. loading # "done" => UNCHANGED vars
  BY DEF ProcessPackets, programVars
<1>4. (loading # "done" => AtRest)'
  BY <1>1, <1>3 DEF LoaderInv, AtRest, vars
<1>5. (LoaderTyped /\ RulesTyped /\ ReadSoFar /\ NoneMalformed)'
  BY <1>1, <1>2 DEF LoaderInv, LoaderTyped, RulesTyped, ReadSoFar, NoneMalformed, rules
<1>6. (TypeRemembered /\ RefusedForCause)'
  BY <1>1 DEF LoaderInv, TypeRemembered, RefusedForCause, TakenForRule, HasWord
<1> QED BY <1>2, <1>4, <1>5, <1>6 DEF LoaderInv

LEMMA ProgramInvariance == ProgramSpec => []ProgramInv
<1>1. ProgramInv /\ [ProgramNext]_programVars => ProgramInv'
  BY LoadRulesKeeps, ProcessPacketsKeeps DEF ProgramNext
<1> QED BY <1>1, ProgramInitInv, PTL DEF ProgramSpec

-----------------------------------------------------------------------------
(***************************************************************************)
(* Whatever the file holds and however small the tables are, packets are   *)
(* only judged by exactly the rules it states, in its order.               *)
(***************************************************************************)
THEOREM LoadedAsWritten == ProgramSpec => []RulesAsWritten
<1>1. ProgramInv => RulesAsWritten
  <2> SUFFICES ASSUME ProgramInv, loading = "done" PROVE RulesAsWritten
    BY DEF RulesAsWritten
  <2>1. line - 1 = Len(file) /\ DOMAIN file = 1..(line - 1)
    BY DEF ProgramInv, LoaderInv, LoaderTyped
  <2> QED BY <2>1 DEF ProgramInv, LoaderInv, ReadSoFar, NoneMalformed, RulesAsWritten
<1> QED BY <1>1, ProgramInvariance, PTL

(***************************************************************************)
(* A file is refused only for a malformed rule or for a line of blanks     *)
(* that is taken for one.                                                  *)
(***************************************************************************)
THEOREM RefusedOnlyForCause == ProgramSpec => []RefusedForCause
<1>1. ProgramInv => RefusedForCause
  BY DEF ProgramInv, LoaderInv
<1> QED BY <1>1, ProgramInvariance, PTL

(***************************************************************************)
(* The invariants of the engine hold of the whole program: loading leaves  *)
(* nothing behind that they depend on.                                     *)
(***************************************************************************)
THEOREM ProgramIsSound ==
  ProgramSpec => [](/\ TypeOK
                    /\ TranslationsAreUnambiguous
                    /\ TranslationsArePermitted
                    /\ ForwardedInboundIsReply)
<1>1. IInv => TypeOK /\ TranslationsArePermitted /\ ForwardedInboundIsReply
  BY DEF IInv
<1>2. IInv => TranslationsAreUnambiguous
  BY EngineAssumption DEF IInv, PortsCounted, TranslationsAreUnambiguous, TypeOK
<1> QED BY <1>1, <1>2, ProgramInvariance, PTL DEF ProgramInv

LEMMA ProgramStepRefines ==
  ProgramInv /\ [ProgramNext]_programVars => [Policy!Next]_(Policy!policyVars)
<1> SUFFICES ASSUME ProgramInv, [ProgramNext]_programVars
             PROVE  Policy!Next \/ UNCHANGED Policy!policyVars
  OBVIOUS
<1>1. CASE LoadRules
  <2>1. AtRest /\ UNCHANGED <<table, packet, original, pc, verdict>>
    BY <1>1 DEF LoadRules, ProgramInv, LoaderInv
  <2>2. Stage = "idle" /\ UNCHANGED <<Sessions, Stage, Considered, verdict>>
    BY <2>1 DEF AtRest, Sessions, Stage, Considered, Judging
  <2>3. verdict = Policy!Drop("nothing_yet")
    BY <2>1 DEF AtRest, Drop, Policy!Drop
  <2> QED BY <2>2, <2>3 DEF Policy!Next, Policy!Configure
<1>2. CASE ProcessPackets \/ UNCHANGED programVars
  <2>1. [Next]_vars
    BY <1>2 DEF ProcessPackets, programVars
  <2> QED BY <2>1, StepRefines DEF ProgramInv
<1> QED BY <1>1, <1>2 DEF ProgramNext

(***************************************************************************)
(* The program, with its loader, is a behaviour of the policy: the rules   *)
(* are set up before the first packet and never touched again.             *)
(***************************************************************************)
THEOREM ProgramImplementsPolicy == ProgramSpec => RefinesPolicy
<1>1. ProgramInit => Policy!Init
  BY InitRefines DEF ProgramInit
<1> QED BY <1>1, ProgramInvariance, ProgramStepRefines, PTL
        DEF ProgramSpec, RefinesPolicy, Policy!Spec

-----------------------------------------------------------------------------
(***************************************************************************)
(* The packet analyzer.                                                    *)
(***************************************************************************)

\* Every step of the analysis is about these fields.
LEMMA FrameFields ==
  ASSUME NEW f \in Frames
  PROVE  /\ f.caplen \in Nat /\ f.ihl \in 0..15
         /\ f.ethertype \in EtherTypes /\ f.proto \in Protocols
BY AnalyzerAssumption DEF Frame

\* First of a set of numbers that is not empty is one of them.
LEMMA FirstIsIn ==
  ASSUME NEW S \in SUBSET (1..6), S # {}
  PROVE  First(S) \in S
<1>1. \E k \in S : \A j \in S : k <= j
  <2>1. CASE 1 \in S
    BY <2>1
  <2>2. CASE 1 \notin S /\ 2 \in S
    BY <2>2
  <2>3. CASE 1 \notin S /\ 2 \notin S /\ 3 \in S
    BY <2>3
  <2>4. CASE 1 \notin S /\ 2 \notin S /\ 3 \notin S /\ 4 \in S
    BY <2>4
  <2>5. CASE 1 \notin S /\ 2 \notin S /\ 3 \notin S /\ 4 \notin S /\ 5 \in S
    BY <2>5
  <2>6. CASE S = {6}
    BY <2>6
  <2>7. \A j \in S : j \in {1, 2, 3, 4, 5, 6}
    OBVIOUS
  <2> QED
    BY <2>1, <2>2, <2>3, <2>4, <2>5, <2>6, <2>7
<1> QED
  BY <1>1 DEF First

\* get_application_protocol() names a service of one of the ports, if it can.
LEMMA ApplicationIsNamed ==
  ASSUME NEW ports
  PROVE  LET named == {s \in DOMAIN Services : Services[s][1] \in {ports[1], ports[2]}}
         IN  IF named = {} THEN Application(ports) = "UNKNOWN"
                           ELSE \E s \in named : Application(ports) = Services[s][2]
<1> DEFINE named == {s \in DOMAIN Services : Services[s][1] \in {ports[1], ports[2]}}
<1>1. DOMAIN Services = 1..6
  BY DEF Services
<1>2. named \in SUBSET (1..6)
  BY <1>1
<1>3. Application(ports) = IF named = {} THEN "UNKNOWN" ELSE Services[First(named)][2]
  BY DEF Application
<1> HIDE DEF named
<1>4. named # {} => First(named) \in named
  BY <1>2, FirstIsIn
<1>5. IF named = {} THEN Application(ports) = "UNKNOWN"
                    ELSE \E s \in named : Application(ports) = Services[s][2]
  BY <1>3, <1>4
<1> QED
  BY <1>5 DEF named

\* What is printed of a frame that gets as far as its transport header.
LEMMA TransportReport ==
  ASSUME NEW f \in Frames, f.proto \in {"TCP", "UDP"}
  PROVE  LET size == IF f.proto = "TCP" THEN 20 ELSE 8
         IN  IF f.caplen >= 14 + 4 * f.ihl + size
               THEN ReportTransport(f) = Flow(f, size)
               ELSE ReportTransport(f) = Short("short_transport", 34)
<1>1. /\ DOMAIN TransportSize = {"TCP", "UDP"}
      /\ TransportSize["TCP"] = 20 /\ TransportSize["UDP"] = 8
  BY DEF TransportSize
<1>2. TransportSize[f.proto] = IF f.proto = "TCP" THEN 20 ELSE 8
  BY <1>1
<1> QED
  BY <1>1, <1>2 DEF ReportTransport, TransportOffset, EthernetSize, IpSize

\* What the flow of a frame holds; its ports where it has them.
LEMMA FlowReport ==
  ASSUME NEW f \in Frames, NEW size \in Nat
  PROVE  LET r == Flow(f, size)
         IN  /\ r.what = f.proto
             /\ r.reach = 14 + 4 * f.ihl + size
             /\ f.ihl >= 5 /\ ~f.fragment =>
                  r.ports = f.ports /\ r.application = Application(f.ports)
BY FrameFields DEF Flow, PortsAt, TransportOffset, EthernetSize

\* The two fields of a short report.
LEMMA ShortReport ==
  ASSUME NEW what, NEW bytes
  PROVE  Short(what, bytes).what = what /\ Short(what, bytes).reach = bytes
BY DEF Short

\* Which report each outcome of the tests (50-97) leads to.
LEMMA ReportCases ==
  ASSUME NEW f \in Frames
  PROVE  /\ f.caplen < 14 => Report(f) = Short("short_ethernet", 0)
         /\ f.caplen >= 14 /\ f.ethertype # "IPV4" => Report(f) = Short("not_ipv4", 14)
         /\ f.caplen >= 14 /\ f.ethertype = "IPV4" /\ f.caplen < 34 =>
              Report(f) = Short("short_ipv4", 14)
         /\ f.caplen >= 34 /\ f.ethertype = "IPV4" /\ f.caplen < 14 + 4 * f.ihl =>
              Report(f) = Short("bad_ip_length", 34)
         /\ f.caplen >= 34 /\ f.ethertype = "IPV4" /\ f.caplen >= 14 + 4 * f.ihl =>
              Report(f) = ReportTransport(f)
BY FrameFields DEF Report, EthernetSize, IpSize, TransportOffset

\* ICMP and unknown protocols have no length test of their own.
LEMMA OtherReport ==
  ASSUME NEW f \in Frames, f.proto \notin {"TCP", "UDP"}
  PROVE  ReportTransport(f) = Short(f.proto, 34)
BY DEF ReportTransport, TransportSize, EthernetSize, IpSize

\* Every report is true of its frame.
LEMMA ReportIsGenuine ==
  ASSUME NEW f \in Frames
  PROVE  Genuine(f, Report(f))
<1> DEFINE size == IF f.proto = "TCP" THEN 20 ELSE 8
<1>1. /\ f.caplen \in Nat /\ f.ihl \in 0..15
      /\ f.ethertype \in EtherTypes /\ f.proto \in Protocols
  BY FrameFields
<1>2. CASE f.caplen < 14
  <2>1. Report(f) = Short("short_ethernet", 0)
    BY <1>2, ReportCases
  <2>2. Report(f).reach = 0 /\ Report(f).what \notin {"TCP", "UDP"}
    BY <2>1, ShortReport
  <2> QED
    BY <2>2, <1>1, <1>2 DEF Genuine, HasTransport, EthernetSize
<1>3. CASE f.caplen >= 14 /\ f.ethertype # "IPV4"
  <2>1. Report(f) = Short("not_ipv4", 14)
    BY <1>3, ReportCases
  <2>2. Report(f).reach = 14
    BY <2>1, ShortReport
  <2> QED
    BY <2>2, <1>1, <1>3 DEF Genuine, HasTransport, EthernetSize
<1>4. CASE f.caplen >= 14 /\ f.ethertype = "IPV4" /\ f.caplen < 34
  <2>1. Report(f) = Short("short_ipv4", 14)
    BY <1>4, ReportCases
  <2>2. Report(f).reach = 14 /\ Report(f).what \notin {"TCP", "UDP"}
    BY <2>1, ShortReport
  <2> QED
    BY <2>2, <1>1, <1>4 DEF Genuine, HasTransport, EthernetSize
<1>5. CASE f.caplen >= 34 /\ f.ethertype = "IPV4" /\ f.caplen < 14 + 4 * f.ihl
  <2>1. Report(f) = Short("bad_ip_length", 34)
    BY <1>5, ReportCases
  <2>2. Report(f).reach = 34 /\ Report(f).what \notin {"TCP", "UDP"}
    BY <2>1, ShortReport
  <2> QED
    BY <2>2, <1>1, <1>5 DEF Genuine, HasTransport, EthernetSize
<1>6. CASE f.caplen >= 34 /\ f.ethertype = "IPV4" /\ f.caplen >= 14 + 4 * f.ihl
  <2>1. Report(f) = ReportTransport(f)
    BY <1>6, ReportCases
  <2>2. CASE f.proto \notin {"TCP", "UDP"}
    <3>1. Report(f) = Short(f.proto, 34)
      BY <2>1, <2>2, OtherReport
    <3>2. Report(f).reach = 34
      BY <3>1, ShortReport
    <3> QED
      BY <3>2, <2>2, <1>1, <1>6 DEF Genuine, HasTransport
  <2>3. CASE f.proto \in {"TCP", "UDP"} /\ f.caplen < 14 + 4 * f.ihl + size
    <3>1. Report(f) = Short("short_transport", 34)
      BY <2>1, <2>3, <1>1, TransportReport
    <3>2. Report(f).reach = 34 /\ Report(f).what \notin {"TCP", "UDP"}
      BY <3>1, ShortReport
    <3> QED
      BY <3>2, <2>3, <1>1, <1>6 DEF Genuine, HasTransport, EthernetSize
  <2>4. CASE f.proto \in {"TCP", "UDP"} /\ f.caplen >= 14 + 4 * f.ihl + size
    <3>1. Report(f) = Flow(f, size)
      BY <2>1, <2>4, <1>1, TransportReport
    <3>2. /\ Report(f).what = f.proto /\ Report(f).reach = 14 + 4 * f.ihl + size
          /\ f.ihl >= 5 /\ ~f.fragment =>
               Report(f).ports = f.ports /\ Report(f).application = Application(f.ports)
      BY <3>1, FlowReport
    <3> DEFINE named == {s \in DOMAIN Services : Services[s][1] \in {f.ports[1], f.ports[2]}}
    <3>3. IF named = {} THEN Application(f.ports) = "UNKNOWN"
                        ELSE \E s \in named : Application(f.ports) = Services[s][2]
      BY ApplicationIsNamed
    <3> QED
      BY <3>2, <3>3, <2>4, <1>1, <1>6 DEF Genuine, HasTransport, EthernetSize
  <2> QED
    BY <2>2, <2>3, <2>4, <1>1
<1> QED
  BY <1>1, <1>2, <1>3, <1>4, <1>5, <1>6

\* analyze_packet() takes for IPv4 with a whole header what main() does.
LEMMA BelowIpIsCounted ==
  ASSUME NEW f \in Frames
  PROVE  BelowIp([frame |-> f, report |-> Report(f)]) <=> IsCounted(f)
<1> DEFINE below == {"TCP", "UDP", "ICMP", "OTHER", "short_transport", "bad_ip_length"}
<1>1. /\ f.caplen \in Nat /\ f.ihl \in 0..15
      /\ f.ethertype \in EtherTypes /\ f.proto \in Protocols
  BY FrameFields
<1>2. SUFFICES Report(f).what \in below <=> f.caplen >= 34 /\ f.ethertype = "IPV4"
  BY <1>1 DEF BelowIp, Protocols, IsCounted, EthernetSize, IpSize
<1>4. CASE f.caplen < 14
  BY <1>1, <1>4, ReportCases, ShortReport
<1>5. CASE f.caplen >= 14 /\ f.ethertype # "IPV4"
  BY <1>1, <1>5, ReportCases, ShortReport
<1>6. CASE f.caplen >= 14 /\ f.ethertype = "IPV4" /\ f.caplen < 34
  BY <1>1, <1>6, ReportCases, ShortReport
<1>7. CASE f.caplen >= 34 /\ f.ethertype = "IPV4" /\ f.caplen < 14 + 4 * f.ihl
  BY <1>1, <1>7, ReportCases, ShortReport
<1>8. CASE f.caplen >= 34 /\ f.ethertype = "IPV4" /\ f.caplen >= 14 + 4 * f.ihl
  <2> DEFINE size == IF f.proto = "TCP" THEN 20 ELSE 8
  <2>1. Report(f) = ReportTransport(f)
    BY <1>8, ReportCases
  <2>2. CASE f.proto \notin {"TCP", "UDP"}
    BY <1>1, <1>8, <2>1, <2>2, OtherReport, ShortReport DEF Protocols
  <2>3. CASE f.proto \in {"TCP", "UDP"} /\ f.caplen < 14 + 4 * f.ihl + size
    <3>1. Report(f) = Short("short_transport", 34)
      BY <2>1, <2>3, <1>1, TransportReport
    <3> QED
      BY <3>1, <1>8, ShortReport
  <2>4. CASE f.proto \in {"TCP", "UDP"} /\ f.caplen >= 14 + 4 * f.ihl + size
    <3>1. Report(f).what = f.proto
      BY <2>1, <2>4, <1>1, TransportReport, FlowReport
    <3> QED
      BY <3>1, <2>4, <1>8
  <2> QED
    BY <2>2, <2>3, <2>4, <1>1
<1> QED
  BY <1>1, <1>4, <1>5, <1>6, <1>7, <1>8

-----------------------------------------------------------------------------
\* The counters a frame belongs to.
LEMMA CountersOfFrame ==
  ASSUME NEW f \in Frames
  PROVE  /\ "packets" \in CountedUnder(f)
         /\ "ipv4" \in CountedUnder(f) <=> IsCounted(f)
         /\ \A p \in {"TCP", "UDP", "ICMP"} :
              p \in CountedUnder(f) <=> IsCounted(f) /\ f.proto = p
         /\ "OTHER" \in CountedUnder(f) <=> ~IsCounted(f) \/ f.proto = "OTHER"
BY FrameFields DEF CountedUnder, Protocols

\* A set of positions, and the same set with the next position added.
LEMMA OneMore ==
  ASSUME NEW n \in Nat, NEW A \in SUBSET (1..n)
  PROVE  Cardinality(A) \in Nat /\ Cardinality(A \cup {n + 1}) = Cardinality(A) + 1
<1>1. IsFiniteSet(A)
  <2>1. IsFiniteSet(1..n)
    BY FS_Interval
  <2> QED
    BY <2>1, FS_Subset
<1>2. n + 1 \notin A
  OBVIOUS
<1> QED
  BY <1>1, <1>2, FS_CardinalityType, FS_AddElement

\* The numbers of reports are numbers.
LEMMA ReportNumbers ==
  ASSUME AnalyzerTypeOK
  PROVE  /\ Len(printed) \in Nat /\ IpReports \in Nat
         /\ \A p : ReportsUnder(p) \in Nat
<1> DEFINE n == Len(printed)
<1>1. n \in Nat /\ DOMAIN printed = 1..n
  BY DEF AnalyzerTypeOK
<1> HIDE DEF n
<1>2. {k \in 1..n : BelowIp(printed[k])} \in SUBSET (1..n)
  OBVIOUS
<1>3. \A p : {k \in 1..n : BelowIp(printed[k]) /\ printed[k].frame.proto = p} \in SUBSET (1..n)
  OBVIOUS
<1>4. \A A \in SUBSET (1..n) : Cardinality(A) \in Nat
  BY <1>1, OneMore
<1> QED
  BY <1>1, <1>2, <1>3, <1>4 DEF IpReports, ReportsUnder, n

\* What one more printed frame adds to the numbers of reports.
LEMMA ReportsAdded ==
  ASSUME AnalyzerTypeOK, Analyze
  PROVE  /\ IpReports \in Nat
         /\ IpReports' = IpReports + (IF IsCounted(frame) THEN 1 ELSE 0)
         /\ \A p \in Protocols :
              /\ ReportsUnder(p) \in Nat
              /\ ReportsUnder(p)' =
                   ReportsUnder(p) + (IF IsCounted(frame) /\ frame.proto = p THEN 1 ELSE 0)
         /\ Len(printed') = Len(printed) + 1 /\ Len(printed) \in Nat
<1> DEFINE n == Len(printed)
           r == [frame |-> frame, report |-> Report(frame)]
<1>1. n \in Nat /\ DOMAIN printed = 1..n
  BY DEF AnalyzerTypeOK
<1>2. /\ Len(printed') = n + 1 /\ DOMAIN printed' = 1..(n + 1)
      /\ printed'[n + 1] = r
      /\ \A k \in 1..n : printed'[k] = printed[k]
  BY <1>1 DEF Analyze, AnalyzerTypeOK
<1>3. BelowIp(r) <=> IsCounted(frame)
  BY BelowIpIsCounted DEF AnalyzerTypeOK
<1>4. r.frame = frame
  OBVIOUS
<1> HIDE DEF n, r
<1>5. IpReports \in Nat /\ IpReports' = IpReports + (IF IsCounted(frame) THEN 1 ELSE 0)
  <2> DEFINE A == {k \in 1..n : BelowIp(printed[k])}
             B == {k \in 1..(n + 1) : BelowIp(printed'[k])}
  <2>1. IpReports = Cardinality(A)
    BY <1>1 DEF IpReports
  <2>2. IpReports' = Cardinality(B)
    BY <1>2 DEF IpReports, BelowIp
  <2>3. A \in SUBSET (1..n)
    OBVIOUS
  <2>4. B = IF BelowIp(r) THEN A \cup {n + 1} ELSE A
    BY <1>1, <1>2
  <2> HIDE DEF A, B
  <2>5. Cardinality(A) \in Nat /\ Cardinality(A \cup {n + 1}) = Cardinality(A) + 1
    BY <2>3, <1>1, OneMore
  <2> QED
    BY <2>1, <2>2, <2>4, <2>5, <1>3
<1>6. ASSUME NEW p \in Protocols
      PROVE  /\ ReportsUnder(p) \in Nat
             /\ ReportsUnder(p)' =
                  ReportsUnder(p) + (IF IsCounted(frame) /\ frame.proto = p THEN 1 ELSE 0)
  <2> DEFINE A == {k \in 1..n : BelowIp(printed[k]) /\ printed[k].frame.proto = p}
             B == {k \in 1..(n + 1) : BelowIp(printed'[k]) /\ printed'[k].frame.proto = p}
  <2>1. ReportsUnder(p) = Cardinality(A)
    BY <1>1 DEF ReportsUnder
  <2>2. ReportsUnder(p)' = Cardinality(B)
    BY <1>2 DEF ReportsUnder, BelowIp
  <2>3. A \in SUBSET (1..n)
    OBVIOUS
  <2>4. B = IF BelowIp(r) /\ frame.proto = p THEN A \cup {n + 1} ELSE A
    BY <1>1, <1>2, <1>4
  <2> HIDE DEF A, B
  <2>5. Cardinality(A) \in Nat /\ Cardinality(A \cup {n + 1}) = Cardinality(A) + 1
    BY <2>3, <1>1, OneMore
  <2> QED
    BY <2>1, <2>2, <2>4, <2>5, <1>3
<1> QED
  BY <1>1, <1>2, <1>5, <1>6 DEF n

-----------------------------------------------------------------------------
\* Between NextFrame and Analyze, counter k may be one ahead of what is printed.
Ahead(k) == IF step = "analyze" /\ k \in CountedUnder(frame) THEN 1 ELSE 0

(***************************************************************************)
(* The inductive invariant: what was printed of each frame is what         *)
(* analyze_packet() makes of it (in AnalyzerTypeOK), and the counters      *)
(* agree with it but for the frame that is counted and not yet printed.    *)
(***************************************************************************)
CountsFit ==
  /\ count["packets"] = Len(printed) + Ahead("packets")
  /\ count["ipv4"] = IpReports + Ahead("ipv4")
  /\ \A p \in {"TCP", "UDP", "ICMP"} : count[p] = ReportsUnder(p) + Ahead(p)
  /\ count["OTHER"] =
       Len(printed) - ReportsUnder("TCP") - ReportsUnder("UDP") - ReportsUnder("ICMP")
       + Ahead("OTHER")

AnalyzerInv == AnalyzerTypeOK /\ CountsFit

\* The six counters of main().
LEMMA CounterNames == Counters = {"packets", "ipv4", "TCP", "UDP", "ICMP", "OTHER"}
BY DEF Counters, Protocols

\* Before the first frame there are no reports.
LEMMA NothingPrinted ==
  ASSUME printed = <<>>
  PROVE  IpReports = 0 /\ Len(printed) = 0 /\ \A p : ReportsUnder(p) = 0
BY FS_EmptySet DEF IpReports, ReportsUnder

\* The invariant holds before the first frame.
LEMMA AnalyzerInitInv == AnalyzerInit => AnalyzerInv
<1> SUFFICES ASSUME AnalyzerInit
             PROVE  AnalyzerInv
  OBVIOUS
<1>1. AnalyzerTypeOK
  BY DEF AnalyzerInit, AnalyzerTypeOK
<1>2. CountsFit
  BY NothingPrinted, CounterNames DEF AnalyzerInit, CountsFit, Ahead
<1> QED
  BY <1>1, <1>2 DEF AnalyzerInv

\* No step leaves the types.
LEMMA AnalyzerTypeStep == AnalyzerTypeOK /\ [AnalyzerNext]_analyzerVars => AnalyzerTypeOK'
<1> SUFFICES ASSUME AnalyzerTypeOK, [AnalyzerNext]_analyzerVars
             PROVE  AnalyzerTypeOK'
  OBVIOUS
<1> USE DEF AnalyzerTypeOK
<1>1. ASSUME NEW f \in Frames, NextFrame(f)
      PROVE  AnalyzerTypeOK'
  BY <1>1 DEF NextFrame
<1>2. CASE NoMoreFrames
  BY <1>2 DEF NoMoreFrames
<1>3. CASE Analyze
  <2>1. [frame |-> frame, report |-> Report(frame)]
          \in {[frame |-> f, report |-> Report(f)] : f \in Frames}
    OBVIOUS
  <2> QED
    BY <2>1, <1>3 DEF Analyze
<1>4. CASE UNCHANGED analyzerVars
  BY <1>4 DEF analyzerVars
<1> QED
  BY <1>1, <1>2, <1>3, <1>4 DEF AnalyzerNext

\* NextFrame puts the counters of its frame ahead by one.
LEMMA CountStep ==
  ASSUME AnalyzerInv, NEW f \in Frames, NextFrame(f)
  PROVE  CountsFit'
<1>1. /\ IpReports' = IpReports /\ Len(printed') = Len(printed)
      /\ \A p : ReportsUnder(p)' = ReportsUnder(p)
  BY DEF NextFrame, IpReports, ReportsUnder, BelowIp
<1>2. \A k \in Counters : Ahead(k) = 0
  BY DEF NextFrame, Ahead
<1>3. \A k \in Counters : count'[k] = count[k] + Ahead(k)'
  BY DEF NextFrame, Ahead, AnalyzerInv, AnalyzerTypeOK
<1>4. /\ Len(printed) \in Nat /\ IpReports \in Nat
      /\ \A p : ReportsUnder(p) \in Nat
  BY ReportNumbers DEF AnalyzerInv
<1> QED
  BY <1>1, <1>2, <1>3, <1>4, CounterNames DEF AnalyzerInv, CountsFit

\* Analyze prints the frame that was ahead.
LEMMA PrintStep ==
  ASSUME AnalyzerInv, Analyze
  PROVE  CountsFit'
<1>1. /\ step = "analyze" /\ step' = "next" /\ count' = count /\ frame \in Frames
      /\ count \in [Counters -> Nat]
  BY DEF Analyze, AnalyzerInv, AnalyzerTypeOK
<1>2. \A k \in Counters : Ahead(k)' = 0
  BY <1>1 DEF Ahead
<1>3. /\ Ahead("packets") = 1
      /\ Ahead("ipv4") = IF IsCounted(frame) THEN 1 ELSE 0
      /\ \A p \in {"TCP", "UDP", "ICMP"} :
           Ahead(p) = IF IsCounted(frame) /\ frame.proto = p THEN 1 ELSE 0
      /\ Ahead("OTHER") = IF ~IsCounted(frame) \/ frame.proto = "OTHER" THEN 1 ELSE 0
  BY <1>1, CountersOfFrame DEF Ahead
<1>4. frame.proto \in {"TCP", "UDP", "ICMP", "OTHER"}
  BY <1>1, FrameFields DEF Protocols
<1>5. /\ IpReports \in Nat
      /\ IpReports' = IpReports + (IF IsCounted(frame) THEN 1 ELSE 0)
      /\ \A p \in {"TCP", "UDP", "ICMP"} :
           /\ ReportsUnder(p) \in Nat
           /\ ReportsUnder(p)' =
                ReportsUnder(p) + (IF IsCounted(frame) /\ frame.proto = p THEN 1 ELSE 0)
      /\ Len(printed') = Len(printed) + 1 /\ Len(printed) \in Nat
  BY ReportsAdded DEF AnalyzerInv, Protocols
<1>6. /\ count'["packets"] = Len(printed')
      /\ count'["ipv4"] = IpReports'
      /\ \A p \in {"TCP", "UDP", "ICMP"} : count'[p] = ReportsUnder(p)'
  BY <1>1, <1>3, <1>5 DEF AnalyzerInv, CountsFit
<1>7. count'["OTHER"] =
        Len(printed') - ReportsUnder("TCP")' - ReportsUnder("UDP")' - ReportsUnder("ICMP")'
  BY <1>1, <1>3, <1>4, <1>5 DEF AnalyzerInv, CountsFit
<1> QED
  BY <1>2, <1>5, <1>6, <1>7, CounterNames DEF CountsFit

\* Every step keeps the invariant.
LEMMA AnalyzerStepInv == AnalyzerInv /\ [AnalyzerNext]_analyzerVars => AnalyzerInv'
<1> SUFFICES ASSUME AnalyzerInv, [AnalyzerNext]_analyzerVars
             PROVE  CountsFit'
  BY AnalyzerTypeStep DEF AnalyzerInv
<1>1. ASSUME NEW f \in Frames, NextFrame(f)
      PROVE  CountsFit'
  BY <1>1, CountStep
<1>2. ASSUME UNCHANGED <<frame, count, printed>>, step' # "analyze", step # "analyze"
      PROVE  CountsFit'
  BY <1>2 DEF AnalyzerInv, CountsFit, Ahead, IpReports, ReportsUnder, BelowIp
<1>3. CASE NoMoreFrames
  BY <1>2, <1>3 DEF NoMoreFrames
<1>4. CASE Analyze
  BY <1>4, PrintStep
<1>5. CASE UNCHANGED analyzerVars
  BY <1>5 DEF analyzerVars, AnalyzerInv, CountsFit, Ahead, IpReports, ReportsUnder, BelowIp
<1> QED
  BY <1>1, <1>3, <1>4, <1>5 DEF AnalyzerNext

\* What analyze_packet() printed is true of its frame.
LEMMA GenuineByType == AnalyzerTypeOK => FlowsAreGenuine
<1> SUFFICES ASSUME AnalyzerTypeOK, NEW k \in DOMAIN printed
             PROVE  Genuine(printed[k].frame, printed[k].report)
  BY DEF FlowsAreGenuine
<1>1. PICK f \in Frames : printed[k] = [frame |-> f, report |-> Report(f)]
  BY DEF AnalyzerTypeOK
<1>2. printed[k].frame = f /\ printed[k].report = Report(f)
  BY <1>1
<1> QED
  BY <1>2, ReportIsGenuine

\* Between two frames no counter is ahead.
LEMMA SummaryByInv == AnalyzerInv => SummaryMatchesReports
<1> SUFFICES ASSUME AnalyzerInv, step # "analyze"
             PROVE  /\ count["packets"] = Len(printed)
                    /\ count["ipv4"] = IpReports
                    /\ \A p \in {"TCP", "UDP", "ICMP"} : count[p] = ReportsUnder(p)
                    /\ count["OTHER"] =
                         Len(printed) - ReportsUnder("TCP") - ReportsUnder("UDP")
                         - ReportsUnder("ICMP")
  BY DEF SummaryMatchesReports
<1>1. \A k \in Counters : Ahead(k) = 0
  BY DEF Ahead
<1>2. /\ Len(printed) \in Nat /\ IpReports \in Nat
      /\ \A p : ReportsUnder(p) \in Nat
  BY ReportNumbers DEF AnalyzerInv
<1> QED
  BY <1>1, <1>2, CounterNames DEF AnalyzerInv, CountsFit

(***************************************************************************)
(* Counters are numbers, and what was printed of each frame is what        *)
(* analyze_packet() makes of that frame.                                   *)
(***************************************************************************)
THEOREM AnalyzerTypeCorrect == AnalyzerSpec => []AnalyzerTypeOK
<1>1. AnalyzerTypeOK /\ [AnalyzerNext]_analyzerVars => AnalyzerTypeOK'
  BY AnalyzerTypeStep
<1>2. AnalyzerInit => AnalyzerTypeOK
  BY AnalyzerInitInv DEF AnalyzerInv
<1> QED
  BY <1>1, <1>2, PTL DEF AnalyzerSpec

(***************************************************************************)
(* For captures of any frames: nothing is read past the captured bytes,    *)
(* and a flow is printed of whole transport headers only, with their       *)
(* ports.                                                                  *)
(***************************************************************************)
THEOREM FlowsGenuine == AnalyzerSpec => []FlowsAreGenuine
BY AnalyzerTypeCorrect, GenuineByType, PTL

(***************************************************************************)
(* For captures of any frames and of any length, the summary agrees with   *)
(* the reports printed above it.                                           *)
(***************************************************************************)
THEOREM SummaryAgrees == AnalyzerSpec => []SummaryMatchesReports
BY AnalyzerInitInv, AnalyzerStepInv, SummaryByInv, PTL DEF AnalyzerSpec

=============================================================================
