---------------------------- MODULE LoadTestProofs -----------------------------
(***************************************************************************)
(* src/server.c with the client programs, for every number of clients,     *)
(* children of the load test and typed lines: types, that the children of  *)
(* the load test are answered unless the server has ended, that only       *)
(* partial_client.c can end it, and that the server is an EventService.    *)
(***************************************************************************)
EXTENDS LoadTest, FiniteSetTheorems, SequenceTheorems, TLAPS

Calls == {"connect", "send", "recv", "close", "abort", "type"}
Programs == Scripts \cup {LoadScript}

\* A program writes only right after it has connected or been answered.
SpeaksInTurn(s) ==
  \A k \in 1..Len(s) : s[k] \in {"send", "type"} => k > 1 /\ s[k - 1] \in {"connect", "recv"}

\* Its last call, and no other, ends its connection.
EndsOnce(s) == \A k \in 1..Len(s) : s[k] \in {"close", "abort"} <=> k = Len(s)

-----------------------------------------------------------------------------
\* Each client runs its program from the first call to the last.
ProgramsRun ==
  /\ script \in [Conns -> Programs]
  /\ \A c \in Conns : /\ c \in Children <=> script[c] = LoadScript
                      /\ at[c] <= Len(script[c]) + 1

\* Replies follow receives, and receives what was sent.
Counted ==
  \A c \in Conns :
    /\ taken[c] <= replies[c] /\ replies[c] <= recvd[c] /\ recvd[c] <= sent[c]
    /\ phase[c] = "new" => sent[c] = 0

\* The server has the one open connection, and owes it a reply when it writes.
OneServed ==
  /\ \A c \in Conns : phase[c] = "open" <=> Client = c
  /\ pc = "accept" => Client = Nobody
  /\ pc \in {"read", "write"} => Client \in Conns
  /\ pc = "write" => replies[Client] < recvd[Client]
  /\ pc = "dead" => \A c \in Conns : phase[c] \in {"new", "closed"}

(***************************************************************************)
(* Nothing ends a connection but the last call of its client, or the end   *)
(* of the server.                                                          *)
(***************************************************************************)
EndsAreLast ==
  \A c \in Conns :
    /\ fin[c] \/ rst[c] => at[c] > Len(script[c])
    /\ phase[c] = "closed" => pc = "dead" \/ at[c] > Len(script[c])

(***************************************************************************)
(* All programs but partial_client.c have one message under way at most.   *)
(* So if such a client is reset after it has closed, everything it sent    *)
(* has been answered.                                                      *)
(***************************************************************************)
InTurn ==
  \A c \in Conns :
    script[c] # PartialScript =>
      /\ sent[c] <= taken[c] + 1
      /\ at[c] > 1 /\ script[c][at[c] - 1] \in {"connect", "recv"} => sent[c] <= taken[c]
      /\ rst[c] /\ fin[c] => replies[c] = sent[c]

\* A failed write() to one of them was the answer to its last message.
SpentIsLast ==
  spent =>
    /\ pc \in {"read", "write"} /\ rst[Client]
    /\ script[Client] # PartialScript => pc = "read" /\ recvd[Client] = sent[Client]

IInv ==
  /\ TypeOK /\ ProgramsRun /\ Counted /\ OneServed
  /\ EndsAreLast /\ InTurn /\ SpentIsLast
  /\ AnsweredUnlessServerEnds /\ EndedOnlyByPartialClient

-----------------------------------------------------------------------------
\* The assumptions on the constants, as the provers need them.
LEMMA NumbersOK ==
  /\ MaxMsgs \in Nat /\ SndCap \in Nat /\ MaxLines \in Nat /\ Nobody \notin Conns
  /\ Children \subseteq Conns /\ Fds = {1}
BY PeersAssumption, HostAssumption, IterativeAssumption, LoadAssumption DEF Fds

\* The calls of client.c when its user types n lines and then "exit".
LEMMA TypedCalls ==
  ASSUME NEW n \in Nat
  PROVE  LET s == TypedScript(n) IN
         /\ Len(s) = 2 * n + 3
         /\ DOMAIN s = 1..Len(s)
         /\ s[1] = "connect" /\ s[2 * n + 2] = "type" /\ s[2 * n + 3] = "close"
         /\ \A k \in 2..(2 * n + 1) : s[k] = IF k % 2 = 0 THEN "type" ELSE "recv"
<1> DEFINE mid == [k \in 1..(2 * n) |-> IF k % 2 = 1 THEN "type" ELSE "recv"]
           head == <<"connect">> \o mid
           tail == <<"type", "close">>
<1>1. mid \in Seq(Calls) /\ Len(mid) = 2 * n
  BY DEF Calls
<1>2. <<"connect">> \in Seq(Calls) /\ tail \in Seq(Calls) /\ Len(tail) = 2
  BY DEF Calls
<1>3. /\ head \in Seq(Calls) /\ Len(head) = 2 * n + 1 /\ head[1] = "connect"
      /\ \A k \in 2..(2 * n + 1) : head[k] = mid[k - 1]
  <2> HIDE DEF mid
  <2>1. /\ head \in Seq(Calls) /\ Len(head) = 1 + 2 * n
        /\ \A k \in 1..(1 + 2 * n) : head[k] = IF k <= 1 THEN <<"connect">>[k] ELSE mid[k - 1]
    BY <1>1, <1>2, ConcatProperties
  <2> QED BY <2>1
<1>4. \A k \in 2..(2 * n + 1) : head[k] = IF k % 2 = 0 THEN "type" ELSE "recv"
  <2> SUFFICES ASSUME NEW k \in 2..(2 * n + 1)
               PROVE  head[k] = IF k % 2 = 0 THEN "type" ELSE "recv"
    OBVIOUS
  <2>1. head[k] = mid[k - 1]
    BY <1>3
  <2>2. (k - 1) % 2 = 1 <=> k % 2 = 0
    OBVIOUS
  <2> QED BY <2>1, <2>2
<1>5. /\ TypedScript(n) \in Seq(Calls) /\ Len(TypedScript(n)) = 2 * n + 3
      /\ \A k \in 1..(2 * n + 3) : TypedScript(n)[k] =
           IF k <= 2 * n + 1 THEN head[k] ELSE tail[k - (2 * n + 1)]
  <2>1. TypedScript(n) = head \o tail
    BY DEF TypedScript
  <2>2. head \in Seq(Calls) /\ Len(head) = 2 * n + 1
    BY <1>3
  <2> HIDE DEF head, tail
  <2>3. /\ head \o tail \in Seq(Calls)
        /\ Len(head \o tail) = Len(head) + Len(tail)
        /\ \A k \in 1..(Len(head) + Len(tail)) :
             (head \o tail)[k] = IF k <= Len(head) THEN head[k] ELSE tail[k - Len(head)]
    BY <1>2, <2>2, ConcatProperties, Zenon
  <2>4. Len(head) + Len(tail) = 2 * n + 3
    BY <1>2, <2>2
  <2> QED BY <2>1, <2>2, <2>3, <2>4
<1>6. tail[1] = "type" /\ tail[2] = "close"
  OBVIOUS
<1>7. DOMAIN TypedScript(n) = 1..Len(TypedScript(n))
  BY <1>5, LenProperties
<1> HIDE DEF head, tail
<1>8. TypedScript(n)[2 * n + 2] = "type" /\ TypedScript(n)[2 * n + 3] = "close"
  BY <1>5, <1>6
<1>9. TypedScript(n)[1] = "connect"
  BY <1>3, <1>5
<1>10. \A k \in 2..(2 * n + 1) : TypedScript(n)[k] = head[k]
  BY <1>5
<1> QED BY <1>4, <1>5, <1>7, <1>8, <1>9, <1>10

\* What the proofs need to know of the programs.
LEMMA ProgramFacts ==
  ASSUME NEW s \in Programs
  PROVE  /\ Len(s) \in Nat /\ Len(s) >= 2 /\ Len(s) <= 2 * MaxLines + 6
         /\ DOMAIN s = 1..Len(s)
         /\ \A k \in 1..Len(s) : s[k] \in Calls
         /\ EndsOnce(s)
         /\ s # PartialScript => SpeaksInTurn(s)
<1> USE NumbersOK DEF Calls, EndsOnce, SpeaksInTurn
<1>1. CASE s = LoadScript
  BY <1>1 DEF LoadScript
<1>2. CASE s = PartialScript
  BY <1>2 DEF PartialScript
<1>3. CASE s = ResetScript
  BY <1>3 DEF ResetScript
<1>4. CASE s = SlowScript
  BY <1>4 DEF SlowScript
<1>5. ASSUME NEW n \in 0..MaxLines, s = TypedScript(n)
      PROVE  /\ Len(s) \in Nat /\ Len(s) >= 2 /\ Len(s) <= 2 * MaxLines + 6
             /\ DOMAIN s = 1..Len(s)
             /\ \A k \in 1..Len(s) : s[k] \in Calls
             /\ EndsOnce(s)
             /\ SpeaksInTurn(s)
  <2>1. /\ Len(s) = 2 * n + 3 /\ DOMAIN s = 1..Len(s) /\ n \in Nat
        /\ s[1] = "connect" /\ s[2 * n + 2] = "type" /\ s[2 * n + 3] = "close"
        /\ \A k \in 2..(2 * n + 1) : s[k] = IF k % 2 = 0 THEN "type" ELSE "recv"
    <3>1. n \in Nat
      OBVIOUS
    <3>2. /\ Len(TypedScript(n)) = 2 * n + 3
          /\ DOMAIN TypedScript(n) = 1..Len(TypedScript(n))
          /\ TypedScript(n)[1] = "connect" /\ TypedScript(n)[2 * n + 2] = "type"
          /\ TypedScript(n)[2 * n + 3] = "close"
          /\ \A k \in 2..(2 * n + 1) :
               TypedScript(n)[k] = IF k % 2 = 0 THEN "type" ELSE "recv"
      BY <3>1, TypedCalls, Zenon
    <3> QED BY <1>5, <3>1, <3>2, Zenon
  <2>2. \A k \in 1..Len(s) : k = 1 \/ k \in 2..(2 * n + 1) \/ k = 2 * n + 2 \/ k = 2 * n + 3
    BY <2>1
  <2>3. (\A k \in 1..Len(s) : s[k] \in Calls) /\ EndsOnce(s)
    BY <2>1, <2>2
  <2>4. ASSUME NEW k \in 1..Len(s), s[k] \in {"send", "type"}
        PROVE  k > 1 /\ s[k - 1] \in {"connect", "recv"}
    <3>1. CASE k \in 2..(2 * n + 1)
      <4>1. k % 2 = 0
        BY <2>1, <2>4, <3>1
      <4>2. CASE k = 2
        BY <2>1, <4>2
      <4>3. CASE k # 2
        <5>1. k - 1 \in 2..(2 * n + 1) /\ (k - 1) % 2 # 0
          BY <2>1, <3>1, <4>1, <4>3
        <5>2. s[k - 1] = "recv"
          BY <2>1, <5>1
        <5> QED BY <3>1, <5>2
      <4> QED BY <4>2, <4>3
    <3>2. CASE k = 2 * n + 2
      <4>1. CASE n = 0
        BY <2>1, <3>2, <4>1
      <4>2. CASE n # 0
        <5>1. k - 1 \in 2..(2 * n + 1) /\ (k - 1) % 2 # 0
          BY <2>1, <3>2, <4>2
        <5>2. s[k - 1] = "recv"
          BY <2>1, <5>1
        <5> QED BY <2>1, <3>2, <5>2
      <4> QED BY <4>1, <4>2
    <3> QED BY <2>1, <2>2, <2>4, <3>1, <3>2
  <2> QED BY <2>1, <2>3, <2>4
<1>6. s \in {PartialScript, ResetScript, SlowScript, LoadScript}
      \/ \E n \in 0..MaxLines : s = TypedScript(n)
  BY DEF Programs, Scripts
<1> QED BY <1>1, <1>2, <1>3, <1>4, <1>5, <1>6

LEMMA PartialIsNotLoad == PartialScript # LoadScript
BY DEF PartialScript, LoadScript

-----------------------------------------------------------------------------
\* What is known of a client that has a call to make.
LEMMA CallFacts ==
  ASSUME TypeOK, ProgramsRun, NEW c \in Conns, Call(c) # "none"
  PROVE  /\ Len(script[c]) \in Nat /\ at[c] \in 1..Len(script[c])
         /\ Len(script[c]) <= 2 * MaxLines + 6
         /\ Call(c) = script[c][at[c]]
         /\ script[c][Len(script[c])] \in {"close", "abort"}
         /\ Call(c) \in {"close", "abort"} <=> at[c] = Len(script[c])
         /\ script[c] # PartialScript /\ Call(c) \in {"send", "type"} =>
              at[c] > 1 /\ script[c][at[c] - 1] \in {"connect", "recv"}
<1>1. script[c] \in Programs
  BY DEF ProgramsRun
<1> DEFINE s == script[c]
<1>2. /\ Len(s) \in Nat /\ Len(s) >= 2 /\ Len(s) <= 2 * MaxLines + 6
      /\ DOMAIN s = 1..Len(s)
      /\ EndsOnce(s)
      /\ s # PartialScript => SpeaksInTurn(s)
  <2> HIDE DEF s
  <2>1. s \in Programs
    BY <1>1 DEF s
  <2> QED BY <2>1, ProgramFacts
<1>3. at[c] \in DOMAIN s /\ Call(c) = s[at[c]]
  BY DEF Call
<1> HIDE DEF s
<1>4. at[c] \in 1..Len(s)
  BY <1>2, <1>3
<1>5. s[Len(s)] \in {"close", "abort"}
  <2>1. Len(s) \in 1..Len(s)
    BY <1>2
  <2> QED BY <1>2, <2>1 DEF EndsOnce
<1>6. s[at[c]] \in {"close", "abort"} <=> at[c] = Len(s)
  BY <1>2, <1>4 DEF EndsOnce
<1>7. s # PartialScript /\ s[at[c]] \in {"send", "type"} =>
        at[c] > 1 /\ s[at[c] - 1] \in {"connect", "recv"}
  BY <1>2, <1>4 DEF SpeaksInTurn
<1> QED BY <1>2, <1>3, <1>4, <1>5, <1>6, <1>7 DEF s

(***************************************************************************)
(* A client that gets further in its program, by one call or to its end,   *)
(* keeps what the invariant says of programs, results and the served one.  *)
(***************************************************************************)
LEMMA MovesOn ==
  ASSUME IInv, NEW c \in Conns, Call(c) # "none", UNCHANGED <<serverVars, script, parent>>,
         NEW n \in Nat, at[c] <= n, n <= Len(script[c]) + 1,
         at' = [at EXCEPT ![c] = n],
         NEW r \in {"none", "ok", "refused", "failed"},
         r = "failed" => result[c] = "failed" \/ pc = "dead",
         result' = [result EXCEPT ![c] = r]
  PROVE  /\ at' \in [Conns -> 0..(2 * MaxLines + 7)]
         /\ result' \in [Conns -> {"none", "ok", "refused", "failed"}]
         /\ ProgramsRun' /\ AnsweredUnlessServerEnds' /\ EndedOnlyByPartialClient'
<1> USE DEF IInv, Client, serverVars
<1>0. Len(script[c]) \in Nat /\ Len(script[c]) <= 2 * MaxLines + 6
  BY CallFacts
<1>1. at' \in [Conns -> 0..(2 * MaxLines + 7)]
  BY <1>0, NumbersOK DEF TypeOK
<1>2. result' \in [Conns -> {"none", "ok", "refused", "failed"}]
  BY DEF TypeOK
<1>3. ProgramsRun'
  BY DEF ProgramsRun, TypeOK
<1>4. AnsweredUnlessServerEnds'
  <2> SUFFICES ASSUME NEW d \in Children, result'[d] = "failed" PROVE pc = "dead"
    BY DEF AnsweredUnlessServerEnds
  <2>1. CASE d = c
    BY <2>1 DEF AnsweredUnlessServerEnds
  <2>2. CASE d # c
    <3>1. result'[d] = result[d]
      BY <2>2, NumbersOK DEF TypeOK
    <3> QED BY <3>1 DEF AnsweredUnlessServerEnds
  <2> QED BY <2>1, <2>2
<1>5. EndedOnlyByPartialClient'
  <2> SUFFICES ASSUME pc = "dead" PROVE EndedOnlyByPartialClient'
    BY DEF EndedOnlyByPartialClient
  <2>1. PICK d \in Strangers : script[d] = PartialScript /\ at[d] > Len(script[d])
    BY DEF EndedOnlyByPartialClient
  <2>2. d # c
    BY <2>1, CallFacts
  <2>3. at'[d] = at[d]
    BY <2>1, <2>2 DEF TypeOK, Strangers
  <2> QED BY <2>1, <2>3 DEF EndedOnlyByPartialClient
<1> QED BY <1>1, <1>2, <1>3, <1>4, <1>5

LEMMA CallSucceedsKeeps ==
  ASSUME IInv, NEW c \in Conns, CallSucceeds(c), UNCHANGED <<serverVars, script, parent>>
  PROVE  IInv'
<1> USE DEF IInv, Client, serverVars
<1>1. Call(c) # "none" /\ Advance(c)
  BY DEF CallSucceeds
<1>2. /\ Len(script[c]) \in Nat /\ at[c] \in 1..Len(script[c])
      /\ Call(c) = script[c][at[c]]
      /\ Call(c) \in {"close", "abort"} <=> at[c] = Len(script[c])
      /\ script[c] # PartialScript /\ Call(c) \in {"send", "type"} =>
           at[c] > 1 /\ script[c][at[c] - 1] \in {"connect", "recv"}
  BY <1>1, CallFacts
<1>3. /\ at' = [at EXCEPT ![c] = at[c] + 1]
      /\ \A d \in Conns : at'[d] = IF d = c THEN at[c] + 1 ELSE at[d]
      /\ \E r \in {result[c], "ok"} : result' = [result EXCEPT ![c] = r]
  BY <1>1 DEF Advance, TypeOK
<1>4. result[c] \in {"none", "ok", "refused", "failed"}
  BY DEF TypeOK
<1>5. /\ at' \in [Conns -> 0..(2 * MaxLines + 7)]
      /\ result' \in [Conns -> {"none", "ok", "refused", "failed"}]
      /\ ProgramsRun' /\ AnsweredUnlessServerEnds' /\ EndedOnlyByPartialClient'
  <2>1. at[c] + 1 \in Nat /\ at[c] <= at[c] + 1 /\ at[c] + 1 <= Len(script[c]) + 1
    BY <1>2
  <2>2. PICK r \in {result[c], "ok"} : result' = [result EXCEPT ![c] = r]
    BY <1>3
  <2>3. /\ r \in {"none", "ok", "refused", "failed"}
        /\ r = "failed" => result[c] = "failed" \/ pc = "dead"
    BY <1>4
  <2> QED BY <1>1, <1>3, <2>1, <2>2, <2>3, MovesOn
<1>6. ~fin[c] /\ ~rst[c]
  BY <1>2 DEF EndsAreLast
<1>7. CASE Call(c) = "connect" /\ pc # "dead" /\ ~QueueFull /\ Connect(c)
  <2> USE <1>7 DEF Connect
  <2>0. \A d \in Conns : phase'[d] = IF d = c THEN "queued" ELSE phase[d]
    BY DEF TypeOK, ServerTypeOK, HostTypeOK, PeersTypeOK
  <2>1. TypeOK'
    BY <1>5 DEF TypeOK, ServerTypeOK, HostTypeOK, PeersTypeOK, Phases
  <2>2. Counted' /\ OneServed'
    BY <2>0 DEF Counted, OneServed
  <2>3. EndsAreLast'
    BY <1>2, <1>3, <1>6, <2>0 DEF EndsAreLast, TypeOK
  <2>4. InTurn'
    BY <1>2, <1>3, <1>6 DEF InTurn, Counted, TypeOK, ServerTypeOK, HostTypeOK, PeersTypeOK
  <2>5. SpentIsLast'
    BY DEF SpentIsLast
  <2> QED BY <1>5, <2>1, <2>2, <2>3, <2>4, <2>5
<1>8. CASE Call(c) \in {"send", "type"} /\ PeerSend(c)
  <2> USE <1>8 DEF PeerSend, Alive
  <2>0. \A d \in Conns : sent'[d] = IF d = c THEN sent[c] + 1 ELSE sent[d]
    BY DEF TypeOK, ServerTypeOK, HostTypeOK, PeersTypeOK
  <2>1. TypeOK'
    <3>1. sent' \in [Conns -> 0..MaxMsgs]
      BY NumbersOK DEF TypeOK, ServerTypeOK, HostTypeOK, PeersTypeOK
    <3> QED BY <1>5, <3>1 DEF TypeOK, ServerTypeOK, HostTypeOK, PeersTypeOK
  <2>2. Counted' /\ OneServed'
    BY <2>0 DEF Counted, OneServed, TypeOK, ServerTypeOK, HostTypeOK, PeersTypeOK
  <2>3. EndsAreLast'
    <3>1. \A d \in Conns \ {c} : at'[d] = at[d]
      BY <1>3
    <3>2. phase[c] # "closed"
      OBVIOUS
    <3> QED BY <1>6, <3>1, <3>2 DEF EndsAreLast
  <2>4. InTurn'
    <3>1. at'[c] - 1 = at[c] /\ sent[c] \in Nat /\ taken[c] \in Nat
      BY <1>2, <1>3, NumbersOK DEF TypeOK, ServerTypeOK, HostTypeOK, PeersTypeOK
    <3>3. script[c] # PartialScript =>
            sent[c] <= taken[c] /\ script[c][at'[c] - 1] \in {"send", "type"}
      BY <1>2, <3>1 DEF InTurn
    <3>2. \A d \in Conns \ {c} : sent'[d] = sent[d] /\ at'[d] = at[d]
      BY <1>3, <2>0
    <3> QED BY <1>6, <2>0, <3>1, <3>2, <3>3 DEF InTurn
  <2>5. SpentIsLast'
    BY <1>6, <2>0 DEF SpentIsLast, OneServed
  <2> QED BY <1>5, <2>1, <2>2, <2>3, <2>4, <2>5
<1>9. CASE Call(c) = "recv" /\ PeerRead(c)
  <2> USE <1>9 DEF PeerRead, Alive, Unanswered
  <2>0. \A d \in Conns : taken'[d] = IF d = c THEN replies[c] ELSE taken[d]
    BY DEF TypeOK, ServerTypeOK, HostTypeOK, PeersTypeOK
  <2>1. TypeOK'
    BY <1>5 DEF TypeOK, ServerTypeOK, HostTypeOK, PeersTypeOK
  <2>2. Counted' /\ OneServed'
    BY <2>0 DEF Counted, OneServed, TypeOK, ServerTypeOK, HostTypeOK, PeersTypeOK
  <2>3. EndsAreLast'
    <3>1. \A d \in Conns \ {c} : at'[d] = at[d]
      BY <1>3
    <3>2. phase[c] # "closed"
      OBVIOUS
    <3> QED BY <1>6, <3>1, <3>2 DEF EndsAreLast
  <2>4. InTurn'
    <3>1. script[c] # PartialScript => sent[c] <= taken'[c]
      BY <2>0 DEF InTurn, Counted, TypeOK, ServerTypeOK, HostTypeOK, PeersTypeOK
    <3>2. \A d \in Conns \ {c} : taken'[d] = taken[d] /\ at'[d] = at[d]
      BY <1>3, <2>0
    <3>3. sent[c] \in Nat /\ taken'[c] \in Nat
      BY <2>0, NumbersOK DEF TypeOK, ServerTypeOK, HostTypeOK, PeersTypeOK
    <3> QED BY <1>6, <3>1, <3>2, <3>3 DEF InTurn
  <2>5. SpentIsLast'
    BY DEF SpentIsLast
  <2> QED BY <1>5, <2>1, <2>2, <2>3, <2>4, <2>5
<1>10. CASE \/ Call(c) = "close" /\ PeerClose(c)
            \/ Call(c) = "abort" /\ PeerAbort(c)
  <2>0. /\ UNCHANGED <<phase, sent, recvd, replies, taken>>
        /\ fin' \in [Conns -> BOOLEAN] /\ rst' \in [Conns -> BOOLEAN]
        /\ \A d \in Conns \ {c} : fin'[d] = fin[d] /\ rst'[d] = rst[d]
        /\ ~(fin'[c] /\ rst'[c])
        /\ at[c] = Len(script[c])
    BY <1>2, <1>6, <1>10
    DEF PeerClose, PeerAbort, TypeOK, ServerTypeOK, HostTypeOK, PeersTypeOK
  <2>1. TypeOK'
    BY <1>5, <2>0 DEF TypeOK, ServerTypeOK, HostTypeOK, PeersTypeOK
  <2>2. Counted' /\ OneServed'
    BY <2>0 DEF Counted, OneServed
  <2>3. EndsAreLast'
    <3>1. at'[c] > Len(script[c])
      BY <1>2, <1>3, <2>0
    <3>2. \A d \in Conns \ {c} : at'[d] = at[d]
      BY <1>3
    <3> QED BY <2>0, <3>1, <3>2 DEF EndsAreLast
  <2>4. InTurn'
    <3>1. script[c][at'[c] - 1] \in {"close", "abort"}
      BY <1>2, <1>3, <1>10
    <3>2. \A d \in Conns \ {c} : at'[d] = at[d]
      BY <1>3
    <3> QED BY <2>0, <3>1, <3>2 DEF InTurn
  <2>5. SpentIsLast'
    BY <1>6, <2>0 DEF SpentIsLast, OneServed
  <2> QED BY <1>5, <2>1, <2>2, <2>3, <2>4, <2>5
<1> QED BY <1>7, <1>8, <1>9, <1>10 DEF CallSucceeds

LEMMA ClientGivesUpKeeps ==
  ASSUME IInv, NEW c \in Conns, ConnectFails(c) \/ ConnectionLost(c),
         UNCHANGED <<serverVars, script, parent>>
  PROVE  IInv'
<1> USE DEF IInv, Client, serverVars, peerVars
<1>1. Call(c) # "none" /\ UNCHANGED peerVars
  BY DEF ConnectFails, ConnectionLost
<1>2. /\ Len(script[c]) \in Nat /\ at[c] \in 1..Len(script[c])
      /\ Call(c) = script[c][at[c]]
      /\ script[c][Len(script[c])] \in {"close", "abort"}
      /\ Call(c) \in {"close", "abort"} <=> at[c] = Len(script[c])
  BY <1>1, CallFacts
<1>3. /\ at' = [at EXCEPT ![c] = Len(script[c]) + 1]
      /\ \A d \in Conns : at'[d] = IF d = c THEN Len(script[c]) + 1 ELSE at[d]
      /\ \E r \in {"ok", "refused", "failed"} :
           result' = [result EXCEPT ![c] = r] /\ (r = "failed" => phase[c] = "closed")
  BY DEF ConnectFails, ConnectionLost, Exit, TypeOK
<1>4. phase[c] = "closed" => pc = "dead"
  BY <1>2 DEF EndsAreLast
<1>5. /\ at' \in [Conns -> 0..(2 * MaxLines + 7)]
      /\ result' \in [Conns -> {"none", "ok", "refused", "failed"}]
      /\ ProgramsRun' /\ AnsweredUnlessServerEnds' /\ EndedOnlyByPartialClient'
  <2> DEFINE n == Len(script[c]) + 1
  <2>1. n \in Nat /\ at[c] <= n /\ n <= Len(script[c]) + 1
    BY <1>2
  <2>2. PICK r \in {"ok", "refused", "failed"} :
          result' = [result EXCEPT ![c] = r] /\ (r = "failed" => phase[c] = "closed")
    BY <1>3
  <2>3. at' = [at EXCEPT ![c] = n]
    BY <1>3
  <2> HIDE DEF n
  <2> QED BY <1>1, <1>4, <2>1, <2>2, <2>3, MovesOn
<1>6. TypeOK'
  BY <1>1, <1>5 DEF TypeOK, ServerTypeOK, HostTypeOK, PeersTypeOK
<1>7. Counted' /\ OneServed' /\ SpentIsLast'
  BY <1>1 DEF Counted, OneServed, SpentIsLast
<1>8. EndsAreLast'
  BY <1>1, <1>2, <1>3 DEF EndsAreLast
<1>9. InTurn'
  BY <1>1, <1>2, <1>3 DEF InTurn
<1> QED BY <1>5, <1>6, <1>7, <1>8, <1>9

LEMMA KernelKeeps == IInv /\ Kernel => IInv'
<1> SUFFICES ASSUME IInv, Kernel PROVE IInv'
  OBVIOUS
<1> USE DEF IInv, Client, serverVars, clientVars
<1>1. PICK c \in Conns : Bounce(c)
  BY DEF Kernel
<1>2. /\ UNCHANGED <<serverVars, clientVars, parent, phase, sent, recvd, replies, taken, fin>>
      /\ phase[c] = "open" /\ fin[c] /\ ~rst[c] /\ replies[c] > taken[c]
      /\ rst' = [rst EXCEPT ![c] = TRUE]
  <2>1. UNCHANGED <<serverVars, clientVars, parent>>
    BY DEF Kernel
  <2>2. /\ UNCHANGED <<phase, sent, recvd, replies, taken, fin>>
        /\ phase[c] = "open" /\ fin[c] /\ ~rst[c] /\ replies[c] - taken[c] > 0
        /\ rst' = [rst EXCEPT ![c] = TRUE]
    BY <1>1 DEF Bounce, Unanswered
  <2>3. replies[c] > taken[c]
    BY <2>2, NumbersOK DEF TypeOK, ServerTypeOK, HostTypeOK, PeersTypeOK
  <2> QED BY <2>1, <2>2, <2>3
<1>3. TypeOK' /\ ProgramsRun' /\ Counted' /\ OneServed'
  BY <1>2
  DEF TypeOK, ServerTypeOK, HostTypeOK, PeersTypeOK, ProgramsRun, Counted, OneServed
<1>4. EndsAreLast'
  BY <1>2 DEF EndsAreLast, TypeOK, ServerTypeOK, HostTypeOK, PeersTypeOK
<1>5. InTurn'
  <2>1. \A d \in Conns : rst'[d] = IF d = c THEN TRUE ELSE rst[d]
    BY <1>2 DEF TypeOK, ServerTypeOK, HostTypeOK, PeersTypeOK
  <2>2. script[c] # PartialScript => replies[c] = sent[c]
    BY <1>2 DEF InTurn, Counted, TypeOK, ServerTypeOK, HostTypeOK, PeersTypeOK
  <2> QED BY <1>2, <2>1, <2>2 DEF InTurn
<1>6. SpentIsLast'
  BY <1>2 DEF SpentIsLast, OneServed, TypeOK, ServerTypeOK, HostTypeOK, PeersTypeOK
<1>7. AnsweredUnlessServerEnds' /\ EndedOnlyByPartialClient'
  BY <1>2 DEF AnsweredUnlessServerEnds, EndedOnlyByPartialClient
<1> QED BY <1>3, <1>4, <1>5, <1>6, <1>7

LEMMA LoadKeeps == IInv /\ Load => IInv'
<1> SUFFICES ASSUME IInv, Load PROVE IInv'
  OBVIOUS
<1> USE DEF IInv, Client, hostVars
<1>1. /\ UNCHANGED <<hostVars, pc, spent, script, result>>
      /\ parent' \in {"fork", "wait", "completed", "failed"}
      /\ at' = at \/ \E c \in Children : at[c] = 0 /\ at' = [at EXCEPT ![c] = 1]
  BY DEF Load, Fork, ForkFails, AllForked, WaitAll, TypeOK
<1>2. /\ at' \in [Conns -> 0..(2 * MaxLines + 7)]
      /\ \A c \in Conns : at'[c] = at[c] \/ (at[c] = 0 /\ at'[c] = 1)
  BY <1>1, NumbersOK DEF TypeOK
<1>3. TypeOK'
  BY <1>1, <1>2 DEF TypeOK, ServerTypeOK, HostTypeOK, PeersTypeOK
<1>4. \A c \in Conns : Len(script[c]) \in Nat
  BY ProgramFacts DEF ProgramsRun
<1>5. ProgramsRun'
  BY <1>1, <1>2, <1>4 DEF ProgramsRun
<1>6. Counted' /\ OneServed' /\ SpentIsLast'
  BY <1>1 DEF Counted, OneServed, SpentIsLast
<1>7. EndsAreLast' /\ InTurn'
  BY <1>1, <1>2, <1>4 DEF EndsAreLast, InTurn
<1>8. AnsweredUnlessServerEnds' /\ EndedOnlyByPartialClient'
  BY <1>1, <1>2, <1>4 DEF AnsweredUnlessServerEnds, EndedOnlyByPartialClient, Strangers
<1> QED BY <1>3, <1>5, <1>6, <1>7, <1>8

-----------------------------------------------------------------------------
\* What Forget does to each connection.
LEMMA ForgetFacts ==
  ASSUME PeersTypeOK, NEW C, Forget(C)
  PROVE  /\ PeersTypeOK'
         /\ \A c \in Conns :
              IF c \in C
                THEN /\ phase'[c] = "closed" /\ sent'[c] = 0 /\ recvd'[c] = 0
                     /\ replies'[c] = 0 /\ taken'[c] = 0 /\ ~fin'[c] /\ ~rst'[c]
                ELSE /\ phase'[c] = phase[c] /\ sent'[c] = sent[c] /\ recvd'[c] = recvd[c]
                     /\ replies'[c] = replies[c] /\ taken'[c] = taken[c]
                     /\ fin'[c] = fin[c] /\ rst'[c] = rst[c]
<1> USE DEF Forget, PeersTypeOK
<1>1. 0 \in 0..MaxMsgs
  BY NumbersOK
<1>2. PeersTypeOK'
  BY <1>1 DEF Phases
<1> QED BY <1>2

\* Connections whose programs have ended may be forgotten.
LEMMA ForgetKeeps ==
  ASSUME IInv, NEW C \in SUBSET Conns, Forget(C), UNCHANGED <<clientVars, parent>>,
         \A c \in C : pc' = "dead" \/ at[c] > Len(script[c]),
         pc' = "dead" \/ pc # "dead",
         pc' = "dead" =>
           \E c \in Strangers : script[c] = PartialScript /\ at[c] > Len(script[c])
  PROVE  /\ PeersTypeOK' /\ ProgramsRun' /\ Counted' /\ EndsAreLast' /\ InTurn'
         /\ AnsweredUnlessServerEnds' /\ EndedOnlyByPartialClient'
<1> USE DEF IInv, clientVars
<1>1. PeersTypeOK
  BY DEF TypeOK, ServerTypeOK, HostTypeOK
<1>2. /\ PeersTypeOK'
      /\ \A c \in Conns :
           IF c \in C
             THEN /\ phase'[c] = "closed" /\ sent'[c] = 0 /\ recvd'[c] = 0
                  /\ replies'[c] = 0 /\ taken'[c] = 0 /\ ~fin'[c] /\ ~rst'[c]
             ELSE /\ phase'[c] = phase[c] /\ sent'[c] = sent[c] /\ recvd'[c] = recvd[c]
                  /\ replies'[c] = replies[c] /\ taken'[c] = taken[c]
                  /\ fin'[c] = fin[c] /\ rst'[c] = rst[c]
  BY <1>1, ForgetFacts
<1>3. ProgramsRun'
  BY DEF ProgramsRun
<1>4. Counted' /\ EndsAreLast'
  BY <1>2 DEF Counted, EndsAreLast
<1>5. InTurn'
  BY <1>2 DEF InTurn
<1>6. AnsweredUnlessServerEnds' /\ EndedOnlyByPartialClient'
  BY DEF AnsweredUnlessServerEnds, EndedOnlyByPartialClient
<1> QED BY <1>2, <1>3, <1>4, <1>5, <1>6

LEMMA AcceptKeeps == IInv /\ Accept /\ UNCHANGED <<clientVars, parent>> => IInv'
<1> SUFFICES ASSUME IInv, Accept, UNCHANGED <<clientVars, parent>> PROVE IInv'
  OBVIOUS
<1> USE DEF IInv, Client, clientVars
<1>1. PICK c \in Conns : phase[c] = "queued" /\ AcceptOn(c, 1)
  BY DEF Accept, Pending
<1>2. /\ UNCHANGED <<sent, recvd, replies, taken, fin, rst, fdLimit, spent>>
      /\ pc = "accept" /\ pc' = "read"
      /\ \A d \in Conns : phase'[d] = IF d = c THEN "open" ELSE phase[d]
      /\ owner'[1] = c
  BY <1>1, NumbersOK DEF Accept, AcceptOn, TypeOK, ServerTypeOK, HostTypeOK, PeersTypeOK
<1>3. phase' \in [Conns -> Phases] /\ owner' \in [Fds -> Conns \cup {Nobody}]
  BY <1>1 DEF AcceptOn, TypeOK, ServerTypeOK, HostTypeOK, PeersTypeOK, Phases
<1>4. TypeOK'
  BY <1>2, <1>3 DEF TypeOK, ServerTypeOK, HostTypeOK, PeersTypeOK, Places
<1>5. ProgramsRun' /\ Counted' /\ EndsAreLast' /\ InTurn'
  BY <1>1, <1>2 DEF ProgramsRun, Counted, EndsAreLast, InTurn
<1>6. OneServed'
  BY <1>2, NumbersOK DEF OneServed
<1>7. SpentIsLast'
  BY <1>2 DEF SpentIsLast
<1>8. AnsweredUnlessServerEnds' /\ EndedOnlyByPartialClient'
  BY <1>2 DEF AnsweredUnlessServerEnds, EndedOnlyByPartialClient
<1> QED BY <1>4, <1>5, <1>6, <1>7, <1>8

LEMMA ReadKeeps == IInv /\ Read /\ UNCHANGED <<clientVars, parent>> => IInv'
<1> SUFFICES ASSUME IInv, Read, UNCHANGED <<clientVars, parent>> PROVE IInv'
  OBVIOUS
<1> USE DEF IInv, Client, clientVars
<1>1. PICK k \in 1..MaxMsgs : RecvBytes(Client, k)
  BY DEF Read
<1>2. PICK c \in Conns : c = Client
  BY DEF Read, OneServed
<1>3. /\ UNCHANGED <<phase, sent, replies, taken, fin, rst, owner, fdLimit, spent>>
      /\ pc = "read" /\ pc' = "write"
      /\ recvd' = [recvd EXCEPT ![c] = @ + k]
      /\ k \in 1..(sent[c] - recvd[c])
  BY <1>1, <1>2 DEF Read, RecvBytes, Unread
<1>4. /\ sent[c] \in 0..MaxMsgs /\ recvd[c] \in 0..MaxMsgs
      /\ replies[c] \in 0..MaxMsgs /\ k \in Nat
  BY NumbersOK DEF TypeOK, ServerTypeOK, HostTypeOK, PeersTypeOK
<1>5. \A d \in Conns : recvd'[d] = IF d = c THEN recvd[c] + k ELSE recvd[d]
  BY <1>3 DEF TypeOK, ServerTypeOK, HostTypeOK, PeersTypeOK
<1>6. TypeOK'
  <2>1. recvd' \in [Conns -> 0..MaxMsgs]
    BY <1>3, <1>4, NumbersOK DEF TypeOK, ServerTypeOK, HostTypeOK, PeersTypeOK
  <2> QED BY <1>3, <2>1 DEF TypeOK, ServerTypeOK, HostTypeOK, PeersTypeOK, Places
<1>7. recvd[c] < recvd'[c] /\ recvd'[c] <= sent[c] /\ replies[c] < recvd'[c]
  BY <1>3, <1>4, <1>5, NumbersOK DEF Counted
<1>8. Counted'
  BY <1>3, <1>4, <1>5, <1>7
  DEF Counted, TypeOK, ServerTypeOK, HostTypeOK, PeersTypeOK
<1>9. OneServed'
  BY <1>2, <1>3, <1>7 DEF OneServed
<1>10. SpentIsLast'
  BY <1>2, <1>3, <1>4 DEF SpentIsLast
<1>11. ProgramsRun' /\ EndsAreLast' /\ InTurn'
  BY <1>3 DEF ProgramsRun, EndsAreLast, InTurn
<1>12. AnsweredUnlessServerEnds' /\ EndedOnlyByPartialClient'
  BY <1>3 DEF AnsweredUnlessServerEnds, EndedOnlyByPartialClient
<1> QED BY <1>6, <1>8, <1>9, <1>10, <1>11, <1>12

\* The connection that read() ends is the one that is closed.
LEMMA LeaveForgets ==
  ASSUME IInv, Client \in Conns, Leave
  PROVE  /\ Forget({Client})
         /\ owner' = [f \in Fds |-> Nobody] /\ fdLimit' = fdLimit
         /\ pc' = "accept" /\ spent' = FALSE
<1> USE NumbersOK DEF Leave, CloseFds
<1>1. {c \in Conns : \E f \in {1} \cap Fds : owner[f] = c} = {Client}
  BY DEF Client
<1>2. owner' = [f \in Fds |-> Nobody]
  OBVIOUS
<1> QED BY <1>1, <1>2

LEMMA ReadEndsKeeps == IInv /\ ReadEnds /\ UNCHANGED <<clientVars, parent>> => IInv'
<1> SUFFICES ASSUME IInv, ReadEnds, UNCHANGED <<clientVars, parent>> PROVE IInv'
  OBVIOUS
<1> USE DEF IInv
<1>1. PICK c \in Conns : c = Client
  BY DEF ReadEnds, OneServed
<1>2. /\ pc = "read" /\ pc' = "accept" /\ spent' = FALSE
      /\ Forget({c}) /\ owner' = [f \in Fds |-> Nobody] /\ fdLimit' = fdLimit
      /\ fin[c] \/ rst[c]
  BY <1>1, LeaveForgets DEF ReadEnds, RecvEnds
<1>3. at[c] > Len(script[c])
  BY <1>2 DEF EndsAreLast
<1>4. /\ PeersTypeOK' /\ ProgramsRun' /\ Counted' /\ EndsAreLast' /\ InTurn'
      /\ AnsweredUnlessServerEnds' /\ EndedOnlyByPartialClient'
  <2>1. {c} \in SUBSET Conns /\ \A d \in {c} : at[d] > Len(script[d])
    BY <1>3
  <2> QED BY <1>2, <2>1, ForgetKeeps
<1>5. TypeOK'
  BY <1>2, <1>4 DEF TypeOK, ServerTypeOK, HostTypeOK, Places, clientVars
<1>6. OneServed'
  <2>1. PeersTypeOK
    BY DEF TypeOK, ServerTypeOK, HostTypeOK
  <2>2. \A d \in Conns : phase'[d] = IF d = c THEN "closed" ELSE phase[d]
    BY <1>2, <2>1, ForgetFacts
  <2>3. Client' = Nobody
    BY <1>2, NumbersOK DEF Client
  <2> QED BY <1>1, <1>2, <2>2, <2>3, NumbersOK DEF OneServed
<1>7. SpentIsLast'
  BY <1>2 DEF SpentIsLast
<1> QED BY <1>4, <1>5, <1>6, <1>7

LEMMA WriteKeeps == IInv /\ Write /\ UNCHANGED <<clientVars, parent>> => IInv'
<1> SUFFICES ASSUME IInv, Write, UNCHANGED <<clientVars, parent>> PROVE IInv'
  OBVIOUS
<1> USE DEF IInv, Client, clientVars
<1>1. PICK c \in Conns : c = Client
  BY DEF Write, OneServed
<1>2. /\ UNCHANGED <<phase, sent, recvd, taken, fin, rst, owner, fdLimit, spent>>
      /\ pc = "write" /\ pc' = "read" /\ ~rst[c] /\ ~spent
      /\ replies' = [replies EXCEPT ![c] = @ + 1]
  BY <1>1 DEF Write, SendReply, SpentIsLast
<1>3. /\ replies[c] \in 0..MaxMsgs /\ recvd[c] \in 0..MaxMsgs /\ replies[c] < recvd[c]
      /\ taken[c] \in 0..MaxMsgs
  BY <1>1, <1>2, NumbersOK
  DEF TypeOK, ServerTypeOK, HostTypeOK, PeersTypeOK, OneServed
<1>4. \A d \in Conns : replies'[d] = IF d = c THEN replies[c] + 1 ELSE replies[d]
  BY <1>2 DEF TypeOK, ServerTypeOK, HostTypeOK, PeersTypeOK
<1>5. TypeOK'
  <2>1. replies' \in [Conns -> 0..MaxMsgs]
    BY <1>2, <1>3, NumbersOK DEF TypeOK, ServerTypeOK, HostTypeOK, PeersTypeOK
  <2> QED BY <1>2, <2>1 DEF TypeOK, ServerTypeOK, HostTypeOK, PeersTypeOK, Places
<1>6. Counted'
  BY <1>2, <1>3, <1>4 DEF Counted
<1>7. OneServed' /\ SpentIsLast'
  BY <1>2 DEF OneServed, SpentIsLast
<1>8. ProgramsRun' /\ EndsAreLast'
  BY <1>2 DEF ProgramsRun, EndsAreLast
<1>9. InTurn'
  BY <1>2, <1>4 DEF InTurn
<1>10. AnsweredUnlessServerEnds' /\ EndedOnlyByPartialClient'
  BY <1>2 DEF AnsweredUnlessServerEnds, EndedOnlyByPartialClient
<1> QED BY <1>5, <1>6, <1>7, <1>8, <1>9, <1>10

LEMMA WriteFailsKeeps == IInv /\ WriteFails /\ UNCHANGED <<clientVars, parent>> => IInv'
<1> SUFFICES ASSUME IInv, WriteFails, UNCHANGED <<clientVars, parent>> PROVE IInv'
  OBVIOUS
<1> USE DEF IInv, Client, clientVars, hostVars
<1>1. PICK c \in Conns : c = Client
  BY DEF WriteFails, OneServed
<1>2. /\ UNCHANGED hostVars /\ rst[c] /\ replies[c] < recvd[c]
      /\ pc = "write" /\ pc' = "read" /\ spent' = TRUE
  BY <1>1 DEF WriteFails, SendFails, OneServed
<1>3. TypeOK'
  BY <1>2 DEF TypeOK, ServerTypeOK, HostTypeOK, PeersTypeOK, Places
<1>4. ProgramsRun' /\ Counted' /\ OneServed' /\ EndsAreLast' /\ InTurn'
  BY <1>2 DEF ProgramsRun, Counted, OneServed, EndsAreLast, InTurn
<1>5. script[c] # PartialScript => recvd[c] = sent[c]
  <2>1. /\ sent[c] \in Nat /\ recvd[c] \in Nat /\ replies[c] \in Nat /\ taken[c] \in Nat
    BY NumbersOK DEF TypeOK, ServerTypeOK, HostTypeOK, PeersTypeOK
  <2> QED BY <1>2, <2>1 DEF InTurn, Counted
<1>6. SpentIsLast'
  BY <1>1, <1>2, <1>5 DEF SpentIsLast
<1>7. AnsweredUnlessServerEnds' /\ EndedOnlyByPartialClient'
  BY <1>2 DEF AnsweredUnlessServerEnds, EndedOnlyByPartialClient
<1> QED BY <1>3, <1>4, <1>6, <1>7

\* The client whose answer ends the server is a partial_client.c that has ended.
LEMMA KillerIsPartial ==
  ASSUME IInv, WriteKills
  PROVE  /\ Client \in Strangers
         /\ script[Client] = PartialScript /\ at[Client] > Len(script[Client])
<1> USE DEF IInv
<1>1. PICK c \in Conns : c = Client
  BY DEF WriteKills, OneServed
<1>2. /\ pc = "write" /\ rst[c] /\ (fin[c] \/ spent)
      /\ replies[c] < recvd[c] /\ recvd[c] <= sent[c]
  BY <1>1 DEF WriteKills, SendRaisesSigpipe, OneServed, Counted
<1>3. at[c] > Len(script[c])
  BY <1>2 DEF EndsAreLast
<1>4. script[c] = PartialScript
  <2> SUFFICES ASSUME script[c] # PartialScript PROVE FALSE
    OBVIOUS
  <2>1. CASE fin[c]
    <3>1. replies[c] = sent[c]
      BY <1>2, <2>1 DEF InTurn
    <3>2. sent[c] \in Nat /\ recvd[c] \in Nat /\ replies[c] \in Nat
      BY NumbersOK DEF TypeOK, ServerTypeOK, HostTypeOK, PeersTypeOK
    <3> QED BY <1>2, <3>1, <3>2
  <2>2. CASE spent
    BY <1>1, <1>2, <2>2 DEF SpentIsLast
  <2> QED BY <1>2, <2>1, <2>2
<1>5. c \notin Children
  BY <1>4, PartialIsNotLoad DEF ProgramsRun
<1> QED BY <1>1, <1>3, <1>4, <1>5 DEF Strangers

LEMMA WriteKillsKeeps == IInv /\ WriteKills /\ UNCHANGED <<clientVars, parent>> => IInv'
<1> SUFFICES ASSUME IInv, WriteKills, UNCHANGED <<clientVars, parent>> PROVE IInv'
  OBVIOUS
<1> USE DEF IInv
<1> DEFINE All == {c \in Conns : phase[c] # "new"}
<1>1. /\ Forget(All) /\ owner' = [f \in Fds |-> Nobody] /\ fdLimit' = fdLimit
      /\ pc' = "dead" /\ spent' = FALSE
  BY DEF WriteKills, ProcessExit
<1>2. /\ All \in SUBSET Conns
      /\ \A c \in Conns : c \notin All => phase[c] = "new"
  OBVIOUS
<1>3. \E c \in Strangers : script[c] = PartialScript /\ at[c] > Len(script[c])
  BY KillerIsPartial
<1>4. PeersTypeOK
  BY DEF TypeOK, ServerTypeOK, HostTypeOK
<1> HIDE DEF All
<1>5. /\ PeersTypeOK' /\ ProgramsRun' /\ Counted' /\ EndsAreLast' /\ InTurn'
      /\ AnsweredUnlessServerEnds' /\ EndedOnlyByPartialClient'
  BY <1>1, <1>2, <1>3, ForgetKeeps
<1>6. TypeOK'
  BY <1>1, <1>5 DEF TypeOK, ServerTypeOK, HostTypeOK, Places, clientVars
<1>7. OneServed'
  <2>1. \A c \in Conns : phase'[c] = IF c \in All THEN "closed" ELSE phase[c]
    BY <1>1, <1>4, ForgetFacts
  <2>2. \A c \in Conns : phase'[c] \in {"new", "closed"}
    BY <1>2, <2>1
  <2>3. Client' = Nobody
    BY <1>1, NumbersOK DEF Client
  <2> QED BY <1>1, <2>2, <2>3, NumbersOK DEF OneServed
<1>8. SpentIsLast'
  BY <1>1 DEF SpentIsLast
<1> QED BY <1>5, <1>6, <1>7, <1>8

-----------------------------------------------------------------------------
LEMMA InitIInv == Init => IInv
<1> SUFFICES ASSUME Init PROVE IInv
  OBVIOUS
<1> USE DEF Init, ServerInit, HostInit, PeersInit
<1>1. 0 \in 0..MaxMsgs /\ 0 \in 0..(2 * MaxLines + 7) /\ 1 \in 0..(2 * MaxLines + 7)
  BY NumbersOK
<1>2. PeersTypeOK
  BY <1>1 DEF PeersTypeOK, Phases
<1>3. HostTypeOK
  BY <1>2 DEF HostTypeOK
<1>4. at \in [Conns -> 0..(2 * MaxLines + 7)]
  BY <1>1
<1>5. TypeOK
  BY <1>3, <1>4 DEF TypeOK, ServerTypeOK, Places
<1>6. script \in [Conns -> Programs] /\ \A c \in Conns : c \in Children <=> script[c] = LoadScript
  BY DEF Programs
<1>7. \A c \in Conns : Len(script[c]) \in Nat /\ Len(script[c]) >= 2
  BY <1>6, ProgramFacts
<1>8. \A c \in Conns : at[c] = 0 \/ at[c] = 1
  OBVIOUS
<1>9. ProgramsRun
  BY <1>6, <1>7, <1>8 DEF ProgramsRun
<1>10. Counted /\ EndsAreLast /\ SpentIsLast
  BY DEF Counted, EndsAreLast, SpentIsLast
<1>11. InTurn
  BY <1>8 DEF InTurn
<1>12. OneServed
  BY NumbersOK DEF OneServed, Client
<1>13. AnsweredUnlessServerEnds /\ EndedOnlyByPartialClient
  BY NumbersOK DEF AnsweredUnlessServerEnds, EndedOnlyByPartialClient
<1> QED BY <1>5, <1>9, <1>10, <1>11, <1>12, <1>13 DEF IInv

LEMMA NextIInv == IInv /\ [Next]_vars => IInv'
<1> SUFFICES ASSUME IInv, [Next]_vars PROVE IInv'
  OBVIOUS
<1>1. CASE Server /\ UNCHANGED <<clientVars, parent>>
  BY <1>1, AcceptKeeps, ReadKeeps, ReadEndsKeeps, WriteKeeps, WriteFailsKeeps, WriteKillsKeeps
  DEF Server
<1>2. CASE \E c \in Conns : ClientStep(c)
  BY <1>2, CallSucceedsKeeps, ClientGivesUpKeeps DEF ClientStep
<1>3. CASE UNCHANGED vars
  <2> USE <1>3 DEF vars, hostVars, clientVars, IInv
  <2>1. TypeOK' /\ ProgramsRun' /\ Counted'
    BY DEF TypeOK, ServerTypeOK, HostTypeOK, PeersTypeOK, ProgramsRun, Counted
  <2>2. OneServed' /\ EndsAreLast' /\ InTurn' /\ SpentIsLast'
    BY DEF OneServed, EndsAreLast, InTurn, SpentIsLast, Client
  <2>3. AnsweredUnlessServerEnds' /\ EndedOnlyByPartialClient'
    BY DEF AnsweredUnlessServerEnds, EndedOnlyByPartialClient
  <2> QED BY <2>1, <2>2, <2>3
<1> QED BY <1>1, <1>2, <1>3, KernelKeeps, LoadKeeps DEF Next

LEMMA Invariance == Spec => []IInv
BY InitIInv, NextIInv, PTL DEF Spec

(***************************************************************************)
(* Every variable keeps its type: no client passes the end of its program  *)
(* and no counter its bound.                                               *)
(***************************************************************************)
THEOREM TypeCorrect == Spec => []TypeOK
<1>1. IInv => TypeOK
  BY DEF IInv
<1> QED BY <1>1, Invariance, PTL

(***************************************************************************)
(* However many other clients use server.c and however they end, a child   *)
(* of the load test that fails after connect() fails because the server    *)
(* has ended.                                                              *)
(***************************************************************************)
THEOREM ChildrenAreAnswered == Spec => []AnsweredUnlessServerEnds
<1>1. IInv => AnsweredUnlessServerEnds
  BY DEF IInv
<1> QED BY <1>1, Invariance, PTL

(***************************************************************************)
(* If server.c has ended, a partial_client.c has closed its connection     *)
(* before: no other program of the repository raises its SIGPIPE, however  *)
(* many of them there are and however many lines are typed.                *)
(***************************************************************************)
THEOREM OnlyPartialClientKills == Spec => []EndedOnlyByPartialClient
<1>1. IInv => EndedOnlyByPartialClient
  BY DEF IInv
<1> QED BY <1>1, Invariance, PTL

-----------------------------------------------------------------------------
(***************************************************************************)
(* The refinement: under the mapping of IterativeServer's Service, each   *)
(* step of the server is one of EventService or changes nothing there.     *)
(***************************************************************************)
\* The abstract specification counts as this module does.
LEMMA SameCardinality == \A S : Service!Cardinality(S) = Cardinality(S)
BY DEF Cardinality, Service!Cardinality

\* The connections in service are the one that has the descriptor.
LEMMA ServingOne ==
  ASSUME OneServed
  PROVE  Service!Serving = IF Client \in Conns THEN {Client} ELSE {}
BY DEF OneServed, Service!Serving

LEMMA InitRefines == Init => Service!Init
<1> SUFFICES ASSUME Init PROVE Service!Init
  OBVIOUS
<1> USE DEF Init, ServerInit, HostInit
<1>1. Service!PeersInit
  BY DEF PeersInit, Service!PeersInit
<1> QED BY <1>1 DEF Service!Init

LEMMA ServerRefines == IInv /\ Server => Service!Next
<1> SUFFICES ASSUME IInv, Server PROVE Service!Next
  OBVIOUS
<1> USE DEF IInv
<1>0. pc # "dead"
  BY DEF Server, Accept, Read, ReadEnds, Write, WriteFails, WriteKills
<1>1. CASE Accept
  <2>1. PICK c \in Conns : phase[c] = "queued" /\ AcceptOn(c, 1)
    BY <1>1 DEF Accept, Pending
  <2>2. Client = Nobody /\ pc = "accept" /\ pc' = "read"
    BY <1>1 DEF Accept, OneServed
  <2>3. Service!Cardinality(Service!Serving) < 1
    <3>1. Service!Serving = {}
      BY <2>2, ServingOne, NumbersOK
    <3> QED BY <3>1, FS_EmptySet, SameCardinality
  <2>4. Service!Admit(c)
    BY <2>1, <2>2, <2>3 DEF AcceptOn, Service!Admit
  <2> QED BY <1>0, <2>4 DEF Service!Next
<1>2. CASE Read
  <2>1. PICK c \in Conns : c = Client
    BY <1>2 DEF Read, OneServed
  <2>2. PICK k \in 1..MaxMsgs : RecvBytes(c, k)
    BY <1>2, <2>1 DEF Read
  <2>3. pc = "read" /\ pc' = "write" /\ phase[c] = "open" /\ Client' = c
    BY <1>2, <2>1, <2>2 DEF Read, RecvBytes, OneServed, Client
  <2>4. Service!Take(c)
    BY <2>1, <2>2, <2>3 DEF RecvBytes, Unread, Service!Take, Service!Unread
  <2> QED BY <1>0, <2>4 DEF Service!Next
<1>3. CASE ReadEnds
  <2>1. PICK c \in Conns : c = Client
    BY <1>3 DEF ReadEnds, OneServed
  <2>2. /\ pc = "read" /\ pc' = "accept" /\ Forget({c})
        /\ Unread(c) = 0 /\ (fin[c] \/ rst[c]) /\ phase[c] = "open"
    BY <1>3, <2>1, LeaveForgets DEF ReadEnds, RecvEnds, OneServed
  <2>3. Service!Forget({c})
    BY <2>2 DEF Forget, Service!Forget
  <2>4. Service!Leave({c})
    BY <2>2, <2>3 DEF Service!Leave
  <2>5. Service!DropEnded(c)
    BY <2>2, <2>4 DEF Service!DropEnded, Unread, Service!Unread
  <2> QED BY <1>0, <2>5 DEF Service!Next
<1>4. CASE Write
  <2>1. PICK c \in Conns : c = Client
    BY <1>4 DEF Write, OneServed
  <2>2. pc = "write" /\ pc' = "read" /\ SendReply(c)
    BY <1>4, <2>1 DEF Write
  <2>3. Service!Answer(c)
    BY <2>1, <2>2 DEF SendReply, Service!Answer
  <2> QED BY <1>0, <2>3 DEF Service!Next
<1>5. CASE WriteFails
  <2>1. PICK c \in Conns : c = Client
    BY <1>5 DEF WriteFails, OneServed
  <2>2. pc = "write" /\ pc' = "read" /\ rst[c] /\ UNCHANGED hostVars
    BY <1>5, <2>1 DEF WriteFails, SendFails
  <2>3. Service!GiveUp(c)
    BY <2>1, <2>2 DEF hostVars, Service!GiveUp, Service!peerVars
  <2> QED BY <1>0, <2>3 DEF Service!Next
<1>6. CASE WriteKills
  <2>1. PICK c \in Conns : c = Client
    BY <1>6 DEF WriteKills, OneServed
  <2>2. pc = "write" /\ pc' = "dead" /\ rst[c] /\ phase[c] = "open" /\ ProcessExit
    BY <1>6, <2>1 DEF WriteKills, SendRaisesSigpipe, OneServed
  <2>3. Service!Forget({d \in Conns : phase[d] # "new"})
    BY <2>2 DEF ProcessExit, Forget, Service!Forget
  <2>4. Service!Crash
    BY <2>1, <2>2, <2>3 DEF Service!Crash, Service!Serving
  <2> QED BY <1>0, <2>4 DEF Service!Next
<1> QED BY <1>1, <1>2, <1>3, <1>4, <1>5, <1>6 DEF Server

\* A step of a far end is the same step of EventService.
LEMMA PeerRefines ==
  ASSUME IInv, NEW c \in Conns, Peer(c), UNCHANGED <<owner, pc>>, pc # "dead"
  PROVE  Service!Next
<1>1. Service!Peer(c)
  <2> USE DEF Service!Peer, Service!Alive, Service!Unanswered, Alive, Unanswered
  <2>1. CASE Connect(c)
    BY <2>1 DEF Connect, Service!Connect
  <2>2. CASE PeerSend(c)
    BY <2>2 DEF PeerSend, Service!PeerSend
  <2>3. CASE PeerRead(c)
    BY <2>3 DEF PeerRead, Service!PeerRead
  <2>4. CASE PeerClose(c)
    BY <2>4 DEF PeerClose, Service!PeerClose
  <2>5. CASE PeerAbort(c)
    BY <2>5 DEF PeerAbort, Service!PeerAbort
  <2>6. CASE Bounce(c)
    BY <2>6 DEF Bounce, Service!Bounce
  <2> QED BY <2>1, <2>2, <2>3, <2>4, <2>5, <2>6 DEF Peer
<1>2. Client' = Client
  BY DEF Client
<1> QED BY <1>1, <1>2 DEF Service!Next

\* After the end of the server no far end has anything left to do.
LEMMA QuietAfterEnd ==
  ASSUME IInv, pc = "dead", NEW c \in Conns
  PROVE  ~PeerSend(c) /\ ~PeerRead(c) /\ ~PeerClose(c) /\ ~PeerAbort(c) /\ ~Bounce(c)
<1>1. phase[c] \in {"new", "closed"}
  BY DEF IInv, OneServed
<1> QED BY <1>1 DEF PeerSend, PeerRead, PeerClose, PeerAbort, Bounce, Alive

LEMMA NextRefines == IInv /\ [Next]_vars => [Service!Next]_Service!serviceVars
<1> SUFFICES ASSUME IInv, [Next]_vars PROVE [Service!Next]_Service!serviceVars
  OBVIOUS
<1> DEFINE Still == UNCHANGED <<peerVars, owner, pc>>
<1>1. Still => UNCHANGED Service!serviceVars
  BY DEF peerVars, Service!serviceVars, Client
<1> HIDE DEF Still
<1>2. CASE Server /\ UNCHANGED <<clientVars, parent>>
  BY <1>2, ServerRefines
<1>3. CASE \E c \in Conns : ClientStep(c)
  <2>1. PICK c \in Conns : ClientStep(c)
    BY <1>3
  <2>2. UNCHANGED <<owner, pc>>
    BY <2>1 DEF ClientStep, serverVars
  <2>3. CASE CallSucceeds(c)
    <3>1. Peer(c) /\ pc # "dead"
      BY <2>3, QuietAfterEnd DEF CallSucceeds, Peer
    <3> QED BY <2>2, <3>1, PeerRefines
  <2>4. CASE ConnectFails(c) \/ ConnectionLost(c)
    BY <1>1, <2>2, <2>4 DEF ConnectFails, ConnectionLost, Still
  <2> QED BY <2>1, <2>3, <2>4 DEF ClientStep
<1>4. CASE Kernel
  <2>1. PICK c \in Conns : Bounce(c)
    BY <1>4 DEF Kernel
  <2>2. Peer(c) /\ UNCHANGED <<owner, pc>>
    BY <1>4, <2>1 DEF Kernel, Peer, serverVars
  <2> QED BY <2>1, <2>2, PeerRefines, QuietAfterEnd
<1>5. CASE Load \/ UNCHANGED vars
  <2>1. Still
    BY <1>5 DEF Load, Still, vars, hostVars, peerVars
  <2> QED BY <1>1, <2>1
<1> QED BY <1>2, <1>3, <1>4, <1>5 DEF Next

(***************************************************************************)
(* server.c keeps the promise of EventService with room for one client,    *)
(* whatever the programs of the repository do to it.                       *)
(***************************************************************************)
THEOREM ServesOneAtATime == Spec => RefinesService
<1>1. Init => Service!Init
  BY InitRefines
<1>2. IInv /\ [Next]_vars => [Service!Next]_Service!serviceVars
  BY NextRefines
<1> QED BY <1>1, <1>2, Invariance, PTL DEF Spec, RefinesService, Service!Spec

=============================================================================
