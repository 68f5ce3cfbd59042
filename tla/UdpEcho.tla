------------------------------ MODULE UdpEcho -------------------------------
(***************************************************************************)
(* The UDP programs of src/: udp_server.c answers every datagram with the  *)
(* same text; udp_client.c sends what is typed and waits at most five      *)
(* seconds for an answer; udp_load_client.c forks children that do this    *)
(* once and waits for them.  The network between them (external) may lose, *)
(* delay and reorder datagrams and, on some networks, deliver them again.  *)
(***************************************************************************)
EXTENDS Integers

CONSTANTS
  Typists,      \* running udp_client processes
  CLIENTS,      \* children of one udp_load_client
  MaxMsgs       \* bound: lines typed into one udp_client

ASSUME EchoAssumption ==
  /\ CLIENTS \in Nat /\ MaxMsgs \in Nat \ {0}
  /\ Typists \cap (1..CLIENTS) = {}

Children == 1..CLIENTS
Clients == Typists \cup Children
Turns == 1..MaxMsgs

VARIABLES
  cpc,     \* client: "unborn", "prompt" (about to send), "recv", "done"
  turn,    \* messages the client has composed
  shown,   \* message whose answer each turn printed, 0 for none (history)
  net,     \* datagrams under way or in a socket buffer
  mayDuplicate, \* the network of this run delivers datagrams again
  handling,\* the request recvfrom() gave to the server, or Idle
  lpc,     \* udp_load_client: "fork", "wait", "completed", "failed"
  forked   \* children forked so far

clientVars == <<cpc, turn, shown>>
loadVars == <<lpc, forked>>
vars == <<clientVars, net, mayDuplicate, handling, loadVars>>

(***************************************************************************)
(* All answers carry the same text and no number; n is the message that    *)
(* caused the datagram, which no program can see.                          *)
(***************************************************************************)
Datagram == [to : {"server", "client"}, client : Clients, n : Turns]
Request(c, n) == [to |-> "server", client |-> c, n |-> n]
Answer(d) == [d EXCEPT !.to = "client"]
Idle == [to |-> "nobody"]

TypeOK ==
  /\ cpc \in [Clients -> {"unborn", "prompt", "recv", "done"}]
  /\ turn \in [Clients -> 0..MaxMsgs]
  /\ shown \in [Clients -> [Turns -> 0..MaxMsgs]]
  /\ net \in SUBSET Datagram
  /\ mayDuplicate \in BOOLEAN
  /\ handling \in {d \in Datagram : d.to = "server"} \cup {Idle}
  /\ lpc \in {"fork", "wait", "completed", "failed"}
  /\ forked \in 0..CLIENTS

Init ==
  /\ cpc = [c \in Clients |-> IF c \in Typists THEN "prompt" ELSE "unborn"]
  /\ turn = [c \in Clients |-> 0]
  /\ shown = [c \in Clients |-> [t \in Turns |-> 0]]
  /\ net = {}
  /\ mayDuplicate \in BOOLEAN
  /\ handling = Idle
  /\ lpc = "fork"
  /\ forked = 0

-----------------------------------------------------------------------------
\* The network delivers d; a duplicate of it may stay behind.
Deliver(d) ==
  /\ d \in net
  /\ net' \in {net \ {d}} \cup (IF mayDuplicate THEN {net} ELSE {})

Lose ==
  /\ \E d \in net : net' = net \ {d}
  /\ UNCHANGED <<clientVars, handling, loadVars>>

-----------------------------------------------------------------------------
\* Where a client goes after one exchange: udp_client.c asks for the next
\* line, a child of udp_load_client.c exits.
Finish(c) == cpc' = [cpc EXCEPT ![c] = IF c \in Typists THEN "prompt" ELSE "done"]

\* A typed line counts as a message whether or not sendto() succeeds.
Compose(c) ==
  /\ cpc[c] = "prompt"
  /\ turn[c] < IF c \in Typists THEN MaxMsgs ELSE 1
  /\ turn' = [turn EXCEPT ![c] = @ + 1]

Send(c) ==
  /\ Compose(c)
  /\ net' = net \cup {Request(c, turn[c] + 1)}
  /\ cpc' = [cpc EXCEPT ![c] = "recv"]
  /\ UNCHANGED <<shown, handling, loadVars>>

SendFails(c) ==
  /\ Compose(c)
  /\ Finish(c)
  /\ UNCHANGED <<shown, net, handling, loadVars>>

\* recvfrom() takes any datagram that has reached the socket.
ReceiveAnswer(c) ==
  /\ cpc[c] = "recv"
  /\ \E d \in net :
       /\ d.to = "client" /\ d.client = c
       /\ Deliver(d)
       /\ shown' = [shown EXCEPT ![c][turn[c]] = d.n]
  /\ Finish(c)
  /\ UNCHANGED <<turn, handling, loadVars>>

\* Mutant: no SO_RCVTIMEO.
NeverTimeout(c) == FALSE /\ UNCHANGED vars

\* [TIMEOUT], or recvfrom() fails in another way.
Timeout(c) ==
  /\ cpc[c] = "recv"
  /\ Finish(c)
  /\ UNCHANGED <<turn, shown, net, handling, loadVars>>

\* "exit", or the end of the input.
Quit(c) ==
  /\ c \in Typists
  /\ cpc[c] = "prompt"
  /\ cpc' = [cpc EXCEPT ![c] = "done"]
  /\ UNCHANGED <<turn, shown, net, handling, loadVars>>

-----------------------------------------------------------------------------
ServerReceive ==
  /\ handling = Idle
  /\ \E d \in net :
       /\ d.to = "server"
       /\ Deliver(d)
       /\ handling' = d
  /\ UNCHANGED <<clientVars, loadVars>>

\* Mutant: the server answers again without receiving.
AnswerAgain ==
  /\ handling # Idle
  /\ net' = net \cup {Answer(handling)}
  /\ handling' \in {Idle, handling}
  /\ UNCHANGED <<clientVars, loadVars>>

\* Mutant: a failed recvfrom() is answered too.
AnswerUnasked ==
  /\ net' = net \cup {Answer(handling)}
  /\ handling' = Idle
  /\ UNCHANGED <<clientVars, loadVars>>

ServerAnswer ==
  /\ handling # Idle
  /\ net' = net \cup {Answer(handling)}
  /\ handling' = Idle
  /\ UNCHANGED <<clientVars, loadVars>>

\* sendto() fails: "continue" with the next request.
ServerAnswerFails ==
  /\ handling # Idle
  /\ handling' = Idle
  /\ UNCHANGED <<clientVars, net, loadVars>>

-----------------------------------------------------------------------------
ForkChild ==
  /\ lpc = "fork" /\ forked < CLIENTS
  /\ forked' = forked + 1
  /\ cpc' = [cpc EXCEPT ![forked + 1] = "prompt"]
  /\ UNCHANGED <<lpc, turn, shown, net, handling>>

\* fork() fails: the parent exits and leaves its children behind.
ForkFails ==
  /\ lpc = "fork" /\ forked < CLIENTS
  /\ lpc' = "failed"
  /\ UNCHANGED <<forked, clientVars, net, handling>>

AllForked ==
  /\ lpc = "fork" /\ forked = CLIENTS
  /\ lpc' = "wait"
  /\ UNCHANGED <<forked, clientVars, net, handling>>

\* while (wait(NULL) > 0), then "UDP load test completed".
WaitAll ==
  /\ lpc = "wait"
  /\ \A c \in Children : cpc[c] = "done"
  /\ lpc' = "completed"
  /\ UNCHANGED <<forked, clientVars, net, handling>>

Client(c) == Send(c) \/ SendFails(c) \/ ReceiveAnswer(c) \/ Timeout(c) \/ Quit(c)
Server == ServerReceive \/ ServerAnswer \/ ServerAnswerFails
Load == ForkChild \/ ForkFails \/ AllForked \/ WaitAll

Next ==
  /\ UNCHANGED mayDuplicate
  /\ \/ \E c \in Clients : Client(c)
     \/ Server
     \/ Load
     \/ Lose

Spec == Init /\ [][Next]_vars

(***************************************************************************)
(* Fairness.  A process that can run does run: the clients' five seconds   *)
(* pass, and the parent goes on.  Nothing is assumed of the server, of the *)
(* network or of the person typing.                                        *)
(***************************************************************************)
FairSpec ==
  /\ Spec
  /\ \A c \in Clients :
       WF_vars((ReceiveAnswer(c) \/ Timeout(c)) /\ UNCHANGED mayDuplicate)
  /\ \A c \in Children : WF_vars(Client(c) /\ UNCHANGED mayDuplicate)
  /\ WF_vars(Load /\ UNCHANGED mayDuplicate)

-----------------------------------------------------------------------------
(***************************************************************************)
(* Answers carry no number, and an answer that comes after the timeout     *)
(* stays in the socket for the next recvfrom() (udp_client.c 91-112).  As  *)
(* long as every turn so far has printed an answer, though, the answer is  *)
(* the one to the message just sent.                                       *)
(***************************************************************************)
OwnAnswerUntilTimeout ==
  ~mayDuplicate =>
    \A c \in Clients, t \in Turns :
      (\A u \in 1..(t - 1) : shown[c][u] # 0) => shown[c][t] \in {0, t}

(***************************************************************************)
(* After timeouts answers may be out of step, and a network that           *)
(* duplicates may show one twice, but none is printed before its message   *)
(* was sent, and otherwise no answer of the server is printed for two      *)
(* messages.                                                               *)
(***************************************************************************)
AnswersAreNotReused ==
  \A c \in Clients : \A t, u \in Turns :
    /\ shown[c][t] <= t
    /\ ~mayDuplicate /\ shown[c][t] # 0 /\ shown[c][t] = shown[c][u] => t = u

(***************************************************************************)
(* The load test ends, with a server or without one: no lost datagram      *)
(* holds a child in recvfrom(), and its parent in wait(), for ever.        *)
(***************************************************************************)
LoadTestEnds == <>(lpc \in {"completed", "failed"})

=============================================================================
