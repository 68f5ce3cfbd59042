--------------------------- MODULE IterativeServer ---------------------------
(***************************************************************************)
(* src/server.c: accept one client, answer whatever it sends until it      *)
(* ends, close, accept the next.  Blocking sockets, no time limit, SIGPIPE *)
(* at its default, and the result of write() is not looked at.             *)
(*                                                                         *)
(* The one connection has the one descriptor above the listening socket,   *)
(* so MaxFd is 1 and accept() never lacks a descriptor.                    *)
(***************************************************************************)
EXTENDS TcpHost

ASSUME IterativeAssumption == MaxFd = 1 /\ FdLimits = {1}

VARIABLES
  pc,         \* the call the process is in
  spent       \* a write() has already returned the error of the present reset

serverVars == <<owner, fdLimit, pc, spent>>

Places == {"accept", "read", "write", "dead"}
Client == owner[1]      \* client_socket

ServerTypeOK ==
  /\ HostTypeOK
  /\ pc \in Places
  /\ spent \in BOOLEAN

ServerInit == HostInit /\ pc = "accept" /\ spent = FALSE

-----------------------------------------------------------------------------
Accept ==
  /\ pc = "accept"
  /\ \E c \in Pending : AcceptOn(c, 1)
  /\ pc' = "read"
  /\ UNCHANGED spent

\* read() > 0.
Read ==
  /\ pc = "read"
  /\ \E k \in 1..MaxMsgs : RecvBytes(Client, k)
  /\ pc' = "write"
  /\ UNCHANGED spent

\* The inner loop ends, and close().
Leave ==
  /\ CloseFds({1})
  /\ pc' = "accept"
  /\ spent' = FALSE

\* Mutant: a read() that has nothing to return yet is taken for the end.
ReadEndsAtPause == pc = "read" /\ Unread(Client) = 0 /\ Leave

\* Mutant: an error of read() is not the end.
ReadEndsOnZeroOnly == pc = "read" /\ Unread(Client) = 0 /\ fin[Client] /\ Leave

\* Mutant: the end is taken before the data that came with it.
ReadEndsUnread == pc = "read" /\ (fin[Client] \/ rst[Client]) /\ Leave

\* read() <= 0.
ReadEnds == pc = "read" /\ RecvEnds(Client) /\ Leave

\* Mutant: the loop goes round without read() having been called again.
WriteTwice ==
  /\ pc = "write"
  /\ SendReply(Client)
  /\ pc' \in {"read", "write"}
  /\ UNCHANGED spent

Write ==
  /\ pc = "write"
  /\ SendReply(Client)
  /\ pc' = "read"
  /\ UNCHANGED spent

\* write() returns -1: the loop goes on.
WriteFails ==
  /\ pc = "write"
  /\ SendFails(Client) /\ ~spent
  /\ pc' = "read"
  /\ spent' = TRUE
  /\ UNCHANGED hostVars

\* Only the first write() after a reset returns; the next raises SIGPIPE, and
\* so does the first when the client had closed before.
WriteKills ==
  /\ pc = "write"
  /\ SendRaisesSigpipe(Client) \/ (rst[Client] /\ spent)
  /\ ProcessExit
  /\ pc' = "dead"
  /\ spent' = FALSE

Server ==
  \/ Accept
  \/ Read
  \/ ReadEnds
  \/ Write
  \/ WriteFails
  \/ WriteKills

-----------------------------------------------------------------------------
(***************************************************************************)
(* The server is an EventService with room for one: nobody is refused, the *)
(* others wait, what a client sent is answered before anything else is     *)
(* received, and a client is left only when it has ended with nothing      *)
(* unread (48-69).  Ignoring the result of write() (66) costs it the       *)
(* stronger promise about the end of the process.                          *)
(***************************************************************************)
Service == INSTANCE EventService WITH
  None <- Nobody, StaleEvents <- FALSE, IgnoresFailedSend <- TRUE,
  MaxClients <- 1, IdleTimeout <- 1,
  room <- 1,
  quiet <- [c \in Conns |-> 0],
  owed <- IF pc = "write" THEN Client ELSE Nobody,
  up <- pc # "dead"

RefinesService == Service!Spec

=============================================================================
