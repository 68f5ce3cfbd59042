----------------------------- MODULE MultiClient ----------------------------
(***************************************************************************)
(* src/multi_client.c: the parent accepts and forks, and one child process *)
(* serves each connection.  After fork() parent and child both hold the    *)
(* connection; it ends when the last of them has closed it.                *)
(***************************************************************************)
EXTENDS TcpPeers, FiniteSets

CONSTANTS
  MaxChildren,   \* processes the system lets the server have
  RecvTimeout,   \* SO_RCVTIMEO of a child
  Nobody

ASSUME MultiAssumption ==
  MaxChildren \in Nat /\ RecvTimeout \in Nat \ {0} /\ Nobody \notin Conns

VARIABLES
  pc,      \* the parent: "accept", "fork" or "close"
  held,    \* the connection the parent's client_fd is open on, or Nobody
  child,   \* the child of a connection: "none", "recv", "reply" or "gone"
  waited,  \* seconds a child has spent in the present recv()
  receives \* history: calls of recv() that gave the child data

serverVars == <<pc, held, child, waited, receives>>
vars == <<peerVars, serverVars>>

Live == {c \in Conns : child[c] \in {"recv", "reply"}}

TypeOK ==
  /\ PeersTypeOK
  /\ pc \in {"accept", "fork", "close"}
  /\ held \in Conns \cup {Nobody}
  /\ child \in [Conns -> {"none", "recv", "reply", "gone"}]
  /\ waited \in [Conns -> 0..RecvTimeout]
  /\ receives \in [Conns -> 0..MaxMsgs]

Init ==
  /\ PeersInit
  /\ pc = "accept" /\ held = Nobody
  /\ child = [c \in Conns |-> "none"]
  /\ waited = [c \in Conns |-> 0]
  /\ receives = [c \in Conns |-> 0]

\* close() of the last copy ends the connection, of another one does nothing.
CloseCopy(c, last) == Forget(IF last THEN {c} ELSE {})

-----------------------------------------------------------------------------
Accept(c) ==
  /\ pc = "accept"
  /\ phase[c] = "queued"
  /\ phase' = [phase EXCEPT ![c] = "open"]
  /\ held' = c /\ pc' = "fork"
  /\ UNCHANGED <<sent, recvd, replies, taken, fin, rst, child, waited, receives>>

Fork ==
  /\ pc = "fork"
  /\ Cardinality(Live) < MaxChildren
  /\ child' = [child EXCEPT ![held] = "recv"]
  /\ pc' = "close"
  /\ UNCHANGED <<peerVars, held, waited, receives>>

\* fork() fails: the connection is closed unserved.
ForkFails ==
  /\ pc = "fork"
  /\ Cardinality(Live) >= MaxChildren
  /\ pc' = "close"
  /\ UNCHANGED <<peerVars, held, child, waited, receives>>

\* Mutant: the parent keeps its copy.
ParentKeeps ==
  /\ pc = "close"
  /\ pc' = "accept"
  /\ UNCHANGED <<peerVars, held, child, waited, receives>>

ParentCloses ==
  /\ pc = "close"
  /\ CloseCopy(held, held \notin Live)
  /\ held' = Nobody /\ pc' = "accept"
  /\ UNCHANGED <<child, waited, receives>>

-----------------------------------------------------------------------------
\* The child leaves handle_client(), closes its copy and exits.
ChildEnds(c) ==
  /\ child' = [child EXCEPT ![c] = "gone"]
  /\ waited' = [waited EXCEPT ![c] = 0]
  /\ receives' = [receives EXCEPT ![c] = 0]
  /\ CloseCopy(c, held # c)
  /\ UNCHANGED <<pc, held>>

\* recv() > 0.
Receive(c) ==
  /\ child[c] = "recv"
  /\ \E k \in 1..Unread(c) : recvd' = [recvd EXCEPT ![c] = @ + k]
  /\ child' = [child EXCEPT ![c] = "reply"]
  /\ waited' = [waited EXCEPT ![c] = 0]
  /\ receives' = [receives EXCEPT ![c] = @ + 1]
  /\ UNCHANGED <<phase, sent, replies, taken, fin, rst, pc, held>>

\* recv() = 0, or < 0 for a connection that was reset.
ReceiveEnds(c) ==
  /\ child[c] = "recv"
  /\ Unread(c) = 0 /\ (fin[c] \/ rst[c])
  /\ ChildEnds(c)

\* Mutant: no SO_RCVTIMEO.
NeverTimeout(c) == FALSE /\ UNCHANGED vars

\* recv() < 0 with EAGAIN: nothing came for ten seconds.
ReceiveTimeout(c) ==
  /\ child[c] = "recv"
  /\ ~Readable(c) /\ waited[c] = RecvTimeout
  /\ ChildEnds(c)

\* Mutant: recv() is not called before another reply.
ReplyAgain(c) ==
  /\ child[c] = "reply"
  /\ ~rst[c] /\ Writable(c)
  /\ replies' = [replies EXCEPT ![c] = @ + 1]
  /\ child' \in {child, [child EXCEPT ![c] = "recv"]}
  /\ UNCHANGED <<phase, sent, recvd, taken, fin, rst, pc, held, waited, receives>>

\* Mutant: only the first message of a client is answered.
ReplyToFirstOnly(c) ==
  /\ child[c] = "reply"
  /\ ~rst[c] /\ Writable(c)
  /\ replies' = [replies EXCEPT ![c] = 1]
  /\ child' = [child EXCEPT ![c] = "recv"]
  /\ UNCHANGED <<phase, sent, recvd, taken, fin, rst, pc, held, waited, receives>>

\* send() > 0.
Reply(c) ==
  /\ child[c] = "reply"
  /\ ~rst[c] /\ Writable(c)
  /\ replies' = [replies EXCEPT ![c] = @ + 1]
  /\ child' = [child EXCEPT ![c] = "recv"]
  /\ UNCHANGED <<phase, sent, recvd, taken, fin, rst, pc, held, waited, receives>>

\* send() < 0: reset, or a broken pipe with SIGPIPE ignored.
ReplyFails(c) ==
  /\ child[c] = "reply"
  /\ rst[c]
  /\ ChildEnds(c)

Parent == (\E c \in Conns : Accept(c)) \/ Fork \/ ForkFails \/ ParentCloses

Child(c) ==
  Receive(c) \/ ReceiveEnds(c) \/ ReceiveTimeout(c) \/ Reply(c) \/ ReplyFails(c)

\* A second passes for the child of c, in a recv() that has nothing to read.
Tick(c) ==
  /\ child[c] = "recv"
  /\ ~Readable(c) /\ waited[c] < RecvTimeout
  /\ waited' = [waited EXCEPT ![c] = @ + 1]
  /\ UNCHANGED <<peerVars, pc, held, child, receives>>

Next ==
  \/ Parent
  \/ \E c \in Conns : Child(c) \/ Tick(c) \/ (Peer(c) /\ UNCHANGED serverVars)

Spec == Init /\ [][Next]_vars

(***************************************************************************)
(* Fairness.  Parent and children are processes of their own: each takes   *)
(* its next step when it can, and the seconds of recv() pass.  A client    *)
(* that is sent replies reads them; none need send or close.               *)
(***************************************************************************)
FairSpec ==
  /\ Spec
  /\ WF_vars(Parent)
  /\ \A c \in Conns :
       /\ WF_vars(Child(c))
       /\ WF_vars(Tick(c))
       /\ WF_vars(PeerRead(c) /\ UNCHANGED serverVars)

-----------------------------------------------------------------------------
(***************************************************************************)
(* A connection is open as long as a process holds it, whichever of parent *)
(* and child closes its copy first: none is closed under a living child,   *)
(* and none stays open for the client when its child has gone.             *)
(***************************************************************************)
OpenWhileHeld ==
  \A c \in Conns : phase[c] = "open" <=> (held = c \/ c \in Live)

(***************************************************************************)
(* Children serve their connections at the same time, but on each one      *)
(* every recv() that gives data is followed by one send() before the next  *)
(* (multi_client.c:36-69): a child that waits has sent exactly as many     *)
(* replies as it has made receives, and one that has just received is one  *)
(* reply behind.                                                           *)
(***************************************************************************)
RepliesMatchReceives ==
  \A c \in Conns :
    /\ child[c] = "recv" => replies[c] = receives[c]
    /\ child[c] = "reply" => replies[c] + 1 = receives[c]

(***************************************************************************)
(* However slow the clients served so far are, the parent comes back to    *)
(* accept(); and no client keeps a process: a child ends when its client   *)
(* closes, resets, or is silent for RecvTimeout, and with it the           *)
(* connection.  So all connections that were made are closed in the end.   *)
(***************************************************************************)
QueuedIsReleased == <>[](\A c \in Conns : phase[c] \in {"new", "closed"})

=============================================================================
