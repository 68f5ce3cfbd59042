------------------------------ MODULE TcpPeers ------------------------------
(***************************************************************************)
(* The far ends of the TCP connections, and the part of the kernel that    *)
(* sits between them and a server on port 5000.  None of this is code of   *)
(* the repository: it is what the servers of m3_event_driven/ and src/     *)
(* rely on when they call accept, recv, send and close.                    *)
(*                                                                         *)
(* Payloads are abstracted to counts.  A "message" is one burst of bytes   *)
(* written by a client; recv may return several bursts at once, because    *)
(* TCP does not keep their boundaries.                                     *)
(***************************************************************************)
EXTENDS Integers

CONSTANTS
  Conns,      \* the connections that may be attempted, one per client run
  MaxMsgs,    \* bound: bursts one client writes
  Silent,     \* clients that never write
  SndCap      \* unread replies that fit between the server and one client

ASSUME PeersAssumption == MaxMsgs \in Nat /\ SndCap \in Nat \ {0}

VARIABLES
  phase,      \* "new", "queued" (in the listen queue), "open", "closed"
  sent,       \* bursts the client has written
  recvd,      \* bursts the server has received
  replies,    \* replies the server has written
  taken,      \* replies the client has read
  fin,        \* the client has closed in an orderly way
  rst         \* the connection has been reset

peerVars == <<phase, sent, recvd, replies, taken, fin, rst>>

Phases == {"new", "queued", "open", "closed"}

PeersTypeOK ==
  /\ phase \in [Conns -> Phases]
  /\ sent \in [Conns -> 0..MaxMsgs]
  /\ recvd \in [Conns -> 0..MaxMsgs]
  /\ replies \in [Conns -> 0..MaxMsgs]
  /\ taken \in [Conns -> 0..MaxMsgs]
  /\ fin \in [Conns -> BOOLEAN]
  /\ rst \in [Conns -> BOOLEAN]

PeersInit ==
  /\ phase = [c \in Conns |-> "new"]
  /\ sent = [c \in Conns |-> 0]
  /\ recvd = [c \in Conns |-> 0]
  /\ replies = [c \in Conns |-> 0]
  /\ taken = [c \in Conns |-> 0]
  /\ fin = [c \in Conns |-> FALSE]
  /\ rst = [c \in Conns |-> FALSE]

\* The connections of C are over: the server has closed them, and what they had
\* counted is of no further interest.
Forget(C) ==
  /\ phase' = [c \in Conns |-> IF c \in C THEN "closed" ELSE phase[c]]
  /\ sent' = [c \in Conns |-> IF c \in C THEN 0 ELSE sent[c]]
  /\ recvd' = [c \in Conns |-> IF c \in C THEN 0 ELSE recvd[c]]
  /\ replies' = [c \in Conns |-> IF c \in C THEN 0 ELSE replies[c]]
  /\ taken' = [c \in Conns |-> IF c \in C THEN 0 ELSE taken[c]]
  /\ fin' = [c \in Conns |-> IF c \in C THEN FALSE ELSE fin[c]]
  /\ rst' = [c \in Conns |-> IF c \in C THEN FALSE ELSE rst[c]]

Unread(c) == sent[c] - recvd[c]          \* bursts waiting for recv
Unanswered(c) == replies[c] - taken[c]   \* replies the client has not read

(***************************************************************************)
(* recv returns without waiting: with data, with 0, or with an error.      *)
(***************************************************************************)
Readable(c) == Unread(c) > 0 \/ fin[c] \/ rst[c]

(***************************************************************************)
(* send returns without waiting.  A client that has closed no longer holds *)
(* the data back; a reset makes send fail at once.                         *)
(***************************************************************************)
Writable(c) == Unanswered(c) < SndCap \/ fin[c] \/ rst[c]

Alive(c) == phase[c] \in {"queued", "open"} /\ ~fin[c] /\ ~rst[c]

-----------------------------------------------------------------------------
\* The clients' steps (client.c, load_client.c, partial_client.c,
\* reset_client.c, slow_client.c and any other program on the port).

Connect(c) ==
  /\ phase[c] = "new"
  /\ phase' = [phase EXCEPT ![c] = "queued"]
  /\ UNCHANGED <<sent, recvd, replies, taken, fin, rst>>

PeerSend(c) ==
  /\ Alive(c)
  /\ c \notin Silent /\ sent[c] < MaxMsgs
  /\ sent' = [sent EXCEPT ![c] = @ + 1]
  /\ UNCHANGED <<phase, recvd, replies, taken, fin, rst>>

PeerRead(c) ==
  /\ Alive(c)
  /\ Unanswered(c) > 0
  /\ taken' = [taken EXCEPT ![c] = replies[c]]
  /\ UNCHANGED <<phase, sent, recvd, replies, fin, rst>>

\* close(): orderly, unless replies are left unread; then the kernel resets.
PeerClose(c) ==
  /\ Alive(c)
  /\ IF Unanswered(c) = 0
       THEN fin' = [fin EXCEPT ![c] = TRUE] /\ UNCHANGED rst
       ELSE rst' = [rst EXCEPT ![c] = TRUE] /\ UNCHANGED fin
  /\ UNCHANGED <<phase, sent, recvd, replies, taken>>

\* close() under SO_LINGER with a zero timeout (reset_client.c), or a crash.
PeerAbort(c) ==
  /\ Alive(c)
  /\ rst' = [rst EXCEPT ![c] = TRUE]
  /\ UNCHANGED <<phase, sent, recvd, replies, taken, fin>>

\* A reply that reaches a client which has already closed is answered by RST.
Bounce(c) ==
  /\ phase[c] = "open"
  /\ fin[c] /\ ~rst[c]
  /\ Unanswered(c) > 0
  /\ rst' = [rst EXCEPT ![c] = TRUE]
  /\ UNCHANGED <<phase, sent, recvd, replies, taken, fin>>

Peer(c) ==
  \/ Connect(c)
  \/ PeerSend(c)
  \/ PeerRead(c)
  \/ PeerClose(c)
  \/ PeerAbort(c)
  \/ Bounce(c)

=============================================================================
