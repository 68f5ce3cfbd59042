---------------------------- MODULE AclNatProgram ----------------------------
(***************************************************************************)
(* m5_acl_nat_engine/acl_nat_engine.c as a whole: load_rules() reads the   *)
(* rules file line by line into the tables, then process_packets(), which  *)
(* is AclNatEngine, works with what has been loaded.                       *)
(*                                                                         *)
(* A line stands for what fgets() returns at once, up to LINE_SIZE - 1     *)
(* characters.  Its kind is                                                *)
(*   "comment"    its first character is '#'                               *)
(*   "empty"      it is '\n'                                               *)
(*   "blank"      it holds blanks but no word                              *)
(*   "ACL", "NAT", "ROUTE"                                                 *)
(*                its first word, in either case; rule is what its other   *)
(*                words say, or Malformed where one is missing, an address *)
(*                is not one, or a CIDR lacks its prefix                   *)
(*   "other"      any other first word                                     *)
(***************************************************************************)
EXTENDS AclNatEngine, FiniteSets

CONSTANTS
  Files,                       \* the rules files, as sequences of lines
  MaxAcl, MaxNat, MaxRoute,    \* MAX_ACL, MAX_NAT, MAX_ROUTE
  Malformed

Line ==
  [kind : {"comment", "empty", "blank", "other"}]
  \cup [kind : {"ACL"}, rule : AclRule \cup {Malformed}]
  \cup [kind : {"NAT"}, rule : NatRule \cup {Malformed}]
  \cup [kind : {"ROUTE"}, rule : RouteRule \cup {Malformed}]

ASSUME ProgramAssumption ==
  /\ MaxAcl \in Nat /\ MaxNat \in Nat /\ MaxRoute \in Nat
  /\ <<>> \in Acls \cap Nats \cap Routings   \* the tables at the start
  /\ Files \subseteq Seq(Line)

VARIABLES
  file,       \* config/rules.conf (never changes)
  line,       \* the line fgets() reads next
  type,       \* type, the first word of the last line that had one
  loading     \* "reading", "done", "exit" (status 1) or "overrun"

loaderVars == <<file, line, type, loading>>
programVars == <<vars, loaderVars>>

Tables == {"ACL", "NAT", "ROUTE"}

\* Before the first word is read, type holds whatever the stack held.
ProgramInit ==
  /\ Init
  /\ acl = <<>> /\ nat = <<>> /\ routes = <<>>
  /\ file \in Files
  /\ line = 1
  /\ type \in Tables \cup {"other"}
  /\ loading = "reading"

-----------------------------------------------------------------------------
\* Mutant: an empty line is not skipped.
SkipsComments(l) == l.kind = "comment"

Skips(l) == l.kind \in {"comment", "empty"}

\* type after sscanf() on l, which leaves it alone where l has no word.
TypeAfter(l) == IF l.kind \in Tables \cup {"other"} THEN l.kind ELSE type

\* All fields of l are there.  A blank line has none, whatever type says.
Parses(l) == l.kind \in Tables /\ l.rule # Malformed

Entries(t) == CASE t = "ACL" -> Len(acl) [] t = "NAT" -> Len(nat) [] t = "ROUTE" -> Len(routes)
Size(t) == CASE t = "ACL" -> MaxAcl [] t = "NAT" -> MaxNat [] t = "ROUTE" -> MaxRoute

NextLine == line' = line + 1 /\ UNCHANGED loading

SkipLine(l) ==
  /\ Skips(l)
  /\ NextLine
  /\ UNCHANGED <<type, rules>>

IgnoreLine(l) ==
  /\ ~Skips(l) /\ TypeAfter(l) = "other"
  /\ type' = "other"
  /\ NextLine
  /\ UNCHANGED rules

AddRule(l) ==
  /\ ~Skips(l) /\ Parses(l)
  /\ Entries(l.kind) < Size(l.kind)
  /\ acl' = IF l.kind = "ACL" THEN Append(acl, l.rule) ELSE acl
  /\ nat' = IF l.kind = "NAT" THEN Append(nat, l.rule) ELSE nat
  /\ routes' = IF l.kind = "ROUTE" THEN Append(routes, l.rule) ELSE routes
  /\ type' = l.kind
  /\ NextLine

\* The table of the line is full; the entry after its last is written all the
\* same, which C leaves undefined.
WritePastTable(l) ==
  /\ ~Skips(l) /\ Parses(l)
  /\ Entries(l.kind) >= Size(l.kind)
  /\ loading' = "overrun"
  /\ UNCHANGED <<line, type, rules>>

\* Mutant: the rule is left out and loading goes on.
SkipInvalid(l) ==
  /\ ~Skips(l) /\ TypeAfter(l) \in Tables /\ ~Parses(l)
  /\ type' = TypeAfter(l)
  /\ NextLine
  /\ UNCHANGED rules

\* "Invalid ... rule", "Invalid CIDR", "Invalid IP address", then exit(1).
RejectLine(l) ==
  /\ ~Skips(l) /\ TypeAfter(l) \in Tables /\ ~Parses(l)
  /\ loading' = "exit"
  /\ UNCHANGED <<line, type, rules>>

EndOfRules ==
  /\ line > Len(file)
  /\ loading' = "done"
  /\ UNCHANGED <<line, type, rules>>

LoadRules ==
  /\ loading = "reading"
  /\ \/ /\ line <= Len(file)
        /\ LET l == file[line]
           IN  SkipLine(l) \/ IgnoreLine(l) \/ AddRule(l) \/ WritePastTable(l) \/ RejectLine(l)
     \/ EndOfRules
  /\ UNCHANGED <<file, table, nextPort, packet, original, pc, i, best, verdict>>

ProcessPackets == loading = "done" /\ Next /\ UNCHANGED loaderVars

ProgramNext == LoadRules \/ ProcessPackets

ProgramSpec == ProgramInit /\ [][ProgramNext]_programVars

-----------------------------------------------------------------------------
\* The lines of table t among the first n lines of file f.
LinesFor(f, t, n) == {k \in 1..n : f[k].kind = t}

\* The rules rs are those lines: as many, and each in the place it has there.
AreStated(f, rs, t, n) ==
  /\ Len(rs) = Cardinality(LinesFor(f, t, n))
  /\ \A k \in LinesFor(f, t, n) : rs[Cardinality(LinesFor(f, t, k))] = f[k].rule

(***************************************************************************)
(* Packets are only ever judged by exactly the rules the file states, all  *)
(* of them, in its order and each in its table: a file with a line that    *)
(* cannot be read as a rule (167-170, 189-192, 205-208, 83-86, 114-117)    *)
(* never leaves the engine with a part of the policy.                      *)
(***************************************************************************)
RulesAsWritten ==
  loading = "done" =>
    /\ AreStated(file, acl, "ACL", Len(file))
    /\ AreStated(file, nat, "NAT", Len(file))
    /\ AreStated(file, routes, "ROUTE", Len(file))
    /\ \A k \in DOMAIN file : file[k].kind \in Tables => file[k].rule # Malformed

(***************************************************************************)
(* A file is refused for a malformed rule, or for a line of blanks that is *)
(* taken for one more rule of the kind before it (157-158), or of any kind *)
(* where no word has been read yet.  Comments, empty lines, unknown words  *)
(* and lines of blanks after an unknown word never stop the program.       *)
(***************************************************************************)
HasWord(k) == file[k].kind \in Tables \cup {"other"}

TakenForRule(k) ==
  /\ file[k].kind = "blank"
  /\ \A j \in 1..(k - 1) :
       HasWord(j) /\ (\A m \in (j + 1)..(k - 1) : ~HasWord(m)) => file[j].kind \in Tables

RefusedForCause ==
  loading = "exit" =>
    \E k \in DOMAIN file :
      \/ file[k].kind \in Tables /\ file[k].rule = Malformed
      \/ TakenForRule(k)

=============================================================================
