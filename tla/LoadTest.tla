------------------------------ MODULE LoadTest ------------------------------
(***************************************************************************)
(* The TCP clients of the repository against src/server.c.  Each client    *)
(* program is a script of socket calls; load_client.c forks its children   *)
(* and waits for them, while clients started by others use the same port.  *)
(* The scripts take the place of the arbitrary clients of TcpPeers: each   *)
(* of their calls is one of its steps.                                     *)
(***************************************************************************)
EXTENDS IterativeServer, Sequences, FiniteSets

CONSTANTS
  Children,     \* children of one load_client, CLIENTS of them
  QueueLength,  \* connections that the kernel lets wait for accept()
  MaxLines      \* bound: lines typed into one client.c before "exit"

ASSUME LoadAssumption ==
  /\ Children \subseteq Conns
  /\ QueueLength \in Nat \ {0} /\ MaxLines \in Nat

Strangers == Conns \ Children

VARIABLES
  script,     \* the program a client runs (never changes)
  at,         \* position in it; 0 before fork(), past its end after exit()
  result,     \* "none", "ok", "refused" (at connect) or "failed" (later)
  parent      \* load_client: "fork", "wait", "completed", "failed"

clientVars == <<script, at, result>>
vars == <<hostVars, pc, spent, clientVars, parent>>

-----------------------------------------------------------------------------
LoadScript == <<"connect", "send", "recv", "close">>
PartialScript == <<"connect", "send", "send", "send", "recv", "close">>
\* Mutant: two messages before the reset.
ResetAfterTwo == <<"connect", "send", "send", "abort">>

ResetScript == <<"connect", "send", "abort">>
SlowScript == <<"connect", "close">>

\* Lines lines and then "exit"; "type" waits for the keyboard before it sends.
TypedScript(lines) ==
  <<"connect">>
  \o [k \in 1..(2 * lines) |-> IF k % 2 = 1 THEN "type" ELSE "recv"]
  \o <<"type", "close">>

Scripts ==
  {PartialScript, ResetScript, SlowScript} \cup {TypedScript(n) : n \in 0..MaxLines}

Init ==
  /\ ServerInit
  /\ script \in {f \in [Conns -> Scripts \cup {LoadScript}] :
                   \A c \in Conns : c \in Children <=> f[c] = LoadScript}
  /\ at = [c \in Conns |-> IF c \in Children THEN 0 ELSE 1]
  /\ result = [c \in Conns |-> "none"]
  /\ parent = "fork"

TypeOK ==
  /\ ServerTypeOK
  /\ at \in [Conns -> 0..(2 * MaxLines + 7)]
  /\ result \in [Conns -> {"none", "ok", "refused", "failed"}]
  /\ parent \in {"fork", "wait", "completed", "failed"}

-----------------------------------------------------------------------------
\* The call that client c makes next.
Call(c) == IF at[c] \in DOMAIN script[c] THEN script[c][at[c]] ELSE "none"

\* The call succeeds; after the last one the program exits.
Advance(c) ==
  /\ at' = [at EXCEPT ![c] = @ + 1]
  /\ result' = [result EXCEPT ![c] = IF at[c] = Len(script[c]) THEN "ok" ELSE @]

Exit(c, why) ==
  /\ at' = [at EXCEPT ![c] = Len(script[c]) + 1]
  /\ result' = [result EXCEPT ![c] = why]

QueueFull == Cardinality(Pending) >= QueueLength

\* A call that returns as the program expects.
CallSucceeds(c) ==
  /\ \/ Call(c) = "connect" /\ pc # "dead" /\ ~QueueFull /\ Connect(c)
     \/ Call(c) \in {"send", "type"} /\ PeerSend(c)
     \/ Call(c) = "recv" /\ PeerRead(c)
     \/ Call(c) = "close" /\ PeerClose(c)
     \/ Call(c) = "abort" /\ PeerAbort(c)
  /\ Advance(c)

\* connect(): nobody listens, or there was no room until it timed out.
ConnectFails(c) ==
  /\ Call(c) = "connect"
  /\ pc = "dead" \/ QueueFull
  /\ Exit(c, "refused")
  /\ UNCHANGED peerVars

\* The other end is gone: send() or recv() fails, or recv() returns 0.
ConnectionLost(c) ==
  /\ phase[c] = "closed" /\ Call(c) # "none"
  /\ Exit(c, IF Call(c) \in {"close", "abort"} THEN "ok" ELSE "failed")
  /\ UNCHANGED peerVars

ClientStep(c) ==
  /\ CallSucceeds(c) \/ ConnectFails(c) \/ ConnectionLost(c)
  /\ UNCHANGED <<serverVars, script, parent>>

Kernel ==
  /\ \E c \in Conns : Bounce(c)
  /\ UNCHANGED <<serverVars, clientVars, parent>>

-----------------------------------------------------------------------------
Fork ==
  /\ parent = "fork"
  /\ \E c \in Children : at[c] = 0 /\ at' = [at EXCEPT ![c] = 1]
  /\ UNCHANGED <<result, parent>>

\* fork() fails: the parent exits and leaves its children behind.
ForkFails ==
  /\ parent = "fork"
  /\ \E c \in Children : at[c] = 0
  /\ parent' = "failed"
  /\ UNCHANGED <<at, result>>

AllForked ==
  /\ parent = "fork"
  /\ \A c \in Children : at[c] # 0
  /\ parent' = "wait"
  /\ UNCHANGED <<at, result>>

\* while (wait(NULL) > 0), then "Load test completed".
WaitAll ==
  /\ parent = "wait"
  /\ \A c \in Children : result[c] # "none"
  /\ parent' = "completed"
  /\ UNCHANGED <<at, result>>

Load ==
  /\ Fork \/ ForkFails \/ AllForked \/ WaitAll
  /\ UNCHANGED <<hostVars, pc, spent, script>>

Next ==
  \/ Server /\ UNCHANGED <<clientVars, parent>>
  \/ \E c \in Conns : ClientStep(c)
  \/ Kernel
  \/ Load

Spec == Init /\ [][Next]_vars

(***************************************************************************)
(* Fairness.  The server, the parent and each client go on when they can,  *)
(* and sleep() ends; only who sits at a keyboard may stop typing.          *)
(***************************************************************************)
FairSpec ==
  /\ Spec
  /\ WF_vars(Server /\ UNCHANGED <<clientVars, parent>>)
  /\ WF_vars(Load)
  /\ \A c \in Conns : WF_vars(Call(c) # "type" /\ ClientStep(c))

-----------------------------------------------------------------------------
(***************************************************************************)
(* A child of the load test that was let in is answered, whoever else uses *)
(* the server before or after it and however they leave, unless the server *)
(* process itself has ended: server.c leaves no client that still waits    *)
(* (48-69), and a child reports a failure (load_client.c 57-68) for no     *)
(* other reason.                                                           *)
(***************************************************************************)
AnsweredUnlessServerEnds ==
  \A c \in Children : result[c] = "failed" => pc = "dead"

(***************************************************************************)
(* Of the repository's clients only partial_client.c, which sends without  *)
(* waiting for answers and closes after the first, can raise SIGPIPE in    *)
(* server.c (66).  The load test, a reset, a silent client and lines typed *)
(* in turn with their answers never end it.                                *)
(***************************************************************************)
EndedOnlyByPartialClient ==
  pc = "dead" => \E c \in Strangers : script[c] = PartialScript /\ at[c] > Len(script[c])

(***************************************************************************)
(* Without any receive timeout in its children (load_client.c 56) the load *)
(* test ends all the same: the silent and the resetting clients before it  *)
(* in the queue end, and the end of the server ends the wait. Only a       *)
(* client.c whose user does not type can hold the server, and with it the  *)
(* test, for ever (server.c 51).                                           *)
(***************************************************************************)
HeldByKeyboard == pc = "read" /\ Call(Client) = "type"

LoadTestEnds ==
  <>(parent \in {"completed", "failed"}) \/ <>[]HeldByKeyboard

=============================================================================
