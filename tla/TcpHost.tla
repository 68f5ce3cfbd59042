------------------------------- MODULE TcpHost ------------------------------
(***************************************************************************)
(* The server's side of the kernel: the descriptor table of the server     *)
(* process and the effect of accept, recv, send and close on it.  External *)
(* to the repository; modelled from how the servers call it.               *)
(*                                                                         *)
(* Descriptors are numbered from 1: they stand for the ones above stdin,   *)
(* stdout, stderr, the listening socket and, in epoll_server.c, the epoll  *)
(* instance.  accept hands out the lowest free one, so the number of a     *)
(* closed connection is the first to be used again.                        *)
(***************************************************************************)
EXTENDS TcpPeers

CONSTANTS
  MaxFd,      \* the highest descriptor a client can get
  FdLimits,   \* values the limit on open files may have, from 1 to MaxFd
  Nobody      \* owner of a free descriptor

ASSUME HostAssumption ==
  MaxFd \in Nat \ {0} /\ FdLimits \subseteq 1..MaxFd /\ Nobody \notin Conns

VARIABLES
  owner,      \* the connection a descriptor refers to
  fdLimit     \* RLIMIT_NOFILE of this run of the process

hostVars == <<phase, sent, recvd, replies, taken, fin, rst, owner, fdLimit>>
fdVars == <<owner, fdLimit>>

Fds == 1..MaxFd
NoFd == -1

HostTypeOK ==
  /\ PeersTypeOK
  /\ owner \in [Fds -> Conns \cup {Nobody}]
  /\ fdLimit \in FdLimits

HostInit ==
  /\ PeersInit
  /\ owner = [f \in Fds |-> Nobody]
  /\ fdLimit \in FdLimits

Pending == {c \in Conns : phase[c] = "queued"}

LowestFree(f) ==
  /\ f \in 1..fdLimit
  /\ owner[f] = Nobody
  /\ \A g \in Fds : owner[g] = Nobody => f <= g

\* Every descriptor within the limit is taken: accept fails with EMFILE.
NoFreeFd == \A f \in 1..fdLimit : owner[f] # Nobody

AcceptOn(c, f) ==
  /\ phase' = [phase EXCEPT ![c] = "open"]
  /\ owner' = [owner EXCEPT ![f] = c]
  /\ UNCHANGED <<sent, recvd, replies, taken, fin, rst, fdLimit>>

\* accept immediately followed by close of the new descriptor.
AcceptAndClose(c) ==
  /\ Forget({c})
  /\ UNCHANGED <<owner, fdLimit>>

CloseFds(F) ==
  /\ owner' = [f \in Fds |-> IF f \in F THEN Nobody ELSE owner[f]]
  /\ Forget({c \in Conns : \E f \in F \cap Fds : owner[f] = c})
  /\ UNCHANGED fdLimit

\* recv returns n > 0: the oldest k of the bursts that have arrived.
RecvBytes(c, k) ==
  /\ k \in 1..Unread(c)
  /\ recvd' = [recvd EXCEPT ![c] = @ + k]
  /\ UNCHANGED <<phase, sent, replies, taken, fin, rst, owner, fdLimit>>

\* recv returns 0 or -1: nothing left to read and the connection is over.
RecvEnds(c) == Unread(c) = 0 /\ (fin[c] \/ rst[c])

\* send succeeds.
SendReply(c) ==
  /\ ~rst[c]
  /\ Writable(c)
  /\ replies' = [replies EXCEPT ![c] = @ + 1]
  /\ UNCHANGED <<phase, sent, recvd, taken, fin, rst, owner, fdLimit>>

\* send returns -1 (ECONNRESET): reset while the connection was open.
SendFails(c) == rst[c] /\ ~fin[c]

\* send raises SIGPIPE (EPIPE): reset after the client had closed.
SendRaisesSigpipe(c) == rst[c] /\ fin[c]

\* The process is gone: the kernel closes every descriptor it held, and the
\* listening socket with the connections that wait on it.
ProcessExit ==
  /\ Forget({c \in Conns : phase[c] # "new"})
  /\ owner' = [f \in Fds |-> Nobody]
  /\ UNCHANGED fdLimit

=============================================================================
