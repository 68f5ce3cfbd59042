---------------------------- MODULE SelectServer ----------------------------
(***************************************************************************)
(* src/select_server.c: one thread, blocking sockets, an array of          *)
(* descriptors and an fd_set indexed by them.  One turn of the loop        *)
(* selects without a time limit, accepts at most one connection and visits *)
(* the clients; a failed or refused accept ends the turn at once.  Unlike  *)
(* m3_event_driven/select_server.c it has no inactivity check, ignores     *)
(* SIGPIPE and refuses descriptors that do not fit the fd_set.             *)
(***************************************************************************)
EXTENDS TcpHost, FiniteSetsExt

CONSTANTS
  MaxClients,   \* MAX_CLIENTS
  SetSizes      \* values FD_SETSIZE may have on the numbering of TcpHost,
                \* which leaves out the descriptors the server was started with

ASSUME SelectAssumption ==
  MaxClients \in Nat \ {0} /\ SetSizes \subseteq Nat \ {0, 1}

Slots == 1..MaxClients

VARIABLES
  setSize,    \* FD_SETSIZE in this run
  slotFd,     \* client_sockets[i], with NoFd for 0
  readfds,    \* the client descriptors select() left in readfds
  listenReady,\* FD_ISSET(server_fd, &readfds)
  pc,         \* where the loop stands
  slot        \* i of the loop over clients

vars == <<hostVars, setSize, slotFd, readfds, listenReady, pc, slot>>

Used(s) == slotFd[s] # NoFd
Conn(s) == owner[slotFd[s]]

TypeOK ==
  /\ HostTypeOK
  /\ setSize \in SetSizes
  /\ slotFd \in [Slots -> Fds \cup {NoFd}]
  /\ readfds \in SUBSET Fds
  /\ listenReady \in BOOLEAN
  /\ pc \in {"select", "accept", "scan", "reply"}
  /\ slot \in 1..(MaxClients + 1)

Init ==
  /\ HostInit
  /\ setSize \in SetSizes
  /\ slotFd = [s \in Slots |-> NoFd]
  /\ readfds = {}
  /\ listenReady = FALSE
  /\ pc = "select"
  /\ slot = 1

-----------------------------------------------------------------------------
ReadableFds == {f \in Fds : /\ \E s \in Slots : slotFd[s] = f
                            /\ owner[f] # Nobody /\ Readable(owner[f])}

\* Mutant: FD_ZERO is left out.
SelectKeepsBits ==
  /\ pc = "select"
  /\ ReadableFds # {} \/ Pending # {}
  /\ readfds' = readfds \cup ReadableFds
  /\ listenReady' = (Pending # {})
  /\ pc' = "accept"
  /\ UNCHANGED <<hostVars, slotFd, slot>>

\* Mutant: server_fd is not put back into the set.
SelectClientsOnly ==
  /\ pc = "select"
  /\ ReadableFds # {} \/ Pending # {}
  /\ readfds' = ReadableFds
  /\ listenReady' = FALSE
  /\ pc' = "accept"
  /\ UNCHANGED <<hostVars, slotFd, slot>>

\* select() returns once something can be read, and leaves it in readfds.
Select ==
  /\ pc = "select"
  /\ ReadableFds # {} \/ Pending # {}
  /\ readfds' = ReadableFds
  /\ listenReady' = (Pending # {})
  /\ pc' = "accept"
  /\ UNCHANGED <<hostVars, slotFd, slot>>

ToScan == pc = "accept" /\ pc' = "scan" /\ slot' = 1
          /\ UNCHANGED <<readfds, listenReady>>

\* "continue": the clients are not visited in this turn.
NextTurn == pc = "accept" /\ pc' = "select"
            /\ UNCHANGED <<slotFd, readfds, listenReady, slot>>

NoConnection ==
  /\ ~listenReady
  /\ ToScan
  /\ UNCHANGED <<hostVars, slotFd>>

\* accept() fails for want of a descriptor.
AcceptFails ==
  /\ listenReady /\ NoFreeFd
  /\ NextTurn
  /\ UNCHANGED hostVars

\* Mutant: the descriptor is refused and left open.
HighFdLeaks(c) ==
  /\ listenReady
  /\ \E f \in Fds : LowestFree(f) /\ f >= setSize /\ AcceptOn(c, f)
  /\ NextTurn

\* The descriptor is too high for select().
RejectHighFd(c) ==
  /\ listenReady
  /\ \E f \in Fds : LowestFree(f) /\ f >= setSize
  /\ AcceptAndClose(c)
  /\ NextTurn

\* A connection takes the lowest free slot.
AcceptClient(c, f, s) ==
  /\ listenReady
  /\ LowestFree(f) /\ f < setSize
  /\ ~Used(s) /\ \A t \in Slots : ~Used(t) => s <= t
  /\ AcceptOn(c, f)
  /\ slotFd' = [slotFd EXCEPT ![s] = f]
  /\ ToScan

\* Too many clients: the new descriptor is closed, and the turn goes on.
RejectClient(c) ==
  /\ listenReady
  /\ \E f \in Fds : LowestFree(f) /\ f < setSize
  /\ \A s \in Slots : Used(s)
  /\ AcceptAndClose(c)
  /\ ToScan
  /\ UNCHANGED slotFd

Scanning == pc = "scan" /\ slot \in Slots
MustRecv == Scanning /\ Used(slot) /\ slotFd[slot] \in readfds

SkipSlot ==
  /\ Scanning /\ ~MustRecv
  /\ slot' = slot + 1
  /\ UNCHANGED <<hostVars, slotFd, readfds, listenReady, pc>>

\* recv() > 0.
Receive ==
  /\ MustRecv
  /\ \E k \in 1..MaxMsgs : RecvBytes(Conn(slot), k)
  /\ pc' = "reply"
  /\ UNCHANGED <<slotFd, readfds, listenReady, slot>>

\* Mutant: a free slot is marked by -2.
CloseByMinusTwo ==
  /\ \/ MustRecv /\ RecvEnds(Conn(slot))
     \/ pc = "reply" /\ rst[Conn(slot)]
  /\ slotFd' = [slotFd EXCEPT ![slot] = -2]
  /\ CloseFds({slotFd[slot]})
  /\ slot' = slot + 1
  /\ pc' = "scan"
  /\ UNCHANGED <<readfds, listenReady>>

\* recv() <= 0, or send_all() < 0, to which a broken pipe leads as well: the
\* client is closed and its slot freed.
CloseCurrent ==
  /\ \/ MustRecv /\ RecvEnds(Conn(slot))
     \/ pc = "reply" /\ rst[Conn(slot)]
  /\ slotFd' = [slotFd EXCEPT ![slot] = NoFd]
  /\ CloseFds({slotFd[slot]})
  /\ slot' = slot + 1
  /\ pc' = "scan"
  /\ UNCHANGED <<readfds, listenReady>>

\* Mutant: send_all() may start over after the whole reply.
ReplyAgain ==
  /\ pc = "reply"
  /\ SendReply(Conn(slot))
  /\ \/ pc' = "scan" /\ slot' = slot + 1
     \/ UNCHANGED <<pc, slot>>
  /\ UNCHANGED <<slotFd, readfds, listenReady>>

\* send_all() has sent the whole reply, however many calls it took.
Reply ==
  /\ pc = "reply"
  /\ SendReply(Conn(slot))
  /\ slot' = slot + 1
  /\ pc' = "scan"
  /\ UNCHANGED <<slotFd, readfds, listenReady>>

\* Every slot has been visited.
EndScan ==
  /\ pc = "scan" /\ slot = MaxClients + 1
  /\ pc' = "select"
  /\ UNCHANGED <<hostVars, slotFd, readfds, listenReady, slot>>

Server ==
  /\ UNCHANGED setSize
  /\ \/ Select
     \/ NoConnection
     \/ AcceptFails
     \/ \E c \in Pending :
          \/ RejectHighFd(c)
          \/ RejectClient(c)
          \/ \E f \in Fds, s \in Slots : AcceptClient(c, f, s)
     \/ SkipSlot
     \/ Receive
     \/ CloseCurrent
     \/ Reply
     \/ EndScan

Clients ==
  /\ \E c \in Conns : Peer(c)
  /\ UNCHANGED <<fdVars, setSize, slotFd, readfds, listenReady, pc, slot>>

Next == Server \/ Clients

Spec == Init /\ [][Next]_vars

(***************************************************************************)
(* Fairness.  The one thread of the server takes its next step whenever it *)
(* can.  Every client closes its end some day, as all the clients of the   *)
(* repository do.                                                          *)
(***************************************************************************)
FairSpec ==
  /\ Spec
  /\ WF_vars(Server)
  /\ \A c \in Conns :
       WF_vars(/\ PeerClose(c) \/ PeerAbort(c)
               /\ UNCHANGED <<fdVars, setSize, slotFd, readfds, listenReady, pc, slot>>)

-----------------------------------------------------------------------------
(***************************************************************************)
(* The array and the kernel agree: a descriptor sits in one slot only, two *)
(* descriptors never name the same connection, and every descriptor and    *)
(* every open connection is in the array.  It is also why select() never   *)
(* fails with EBADF, after which it would be called again for ever         *)
(* (lines 112-121).                                                        *)
(***************************************************************************)
SlotsDistinct == \A s, t \in Slots : Used(s) /\ slotFd[s] = slotFd[t] => s = t
OwnersDistinct == \A f, g \in Fds : owner[f] # Nobody /\ owner[f] = owner[g] => f = g
FdsInTable == \A f \in Fds : owner[f] # Nobody <=> \E s \in Slots : slotFd[s] = f
OpenHaveFds == \A c \in Conns : phase[c] = "open" <=> \E f \in Fds : owner[f] = c

TableMatchesKernel == SlotsDistinct /\ OwnersDistinct /\ FdsInTable /\ OpenHaveFds

(***************************************************************************)
(* recv() is called only where it returns at once, although a connection   *)
(* is accepted between select() and the visits (lines 123-168): the new    *)
(* descriptor was not in the set, and none is closed in between.           *)
(***************************************************************************)
RecvNeverBlocks == MustRecv => Readable(Conn(slot))

(***************************************************************************)
(* Every behaviour of the loop is one of EventService without closing for  *)
(* inactivity and without an end of the process.  Its limit is the smaller *)
(* of the array and the set: a descriptor that does not fit the set means  *)
(* that all lower ones are being served.                                   *)
(***************************************************************************)
Service == INSTANCE EventService WITH
  None <- Nobody, StaleEvents <- FALSE, IgnoresFailedSend <- FALSE, IdleTimeout <- 1,
  room <- Min({MaxClients, setSize - 1}),
  quiet <- [c \in Conns |-> 0],
  owed <- IF pc = "reply" THEN Conn(slot) ELSE Nobody,
  up <- TRUE

RefinesService == Service!Spec

(***************************************************************************)
(* A client that has connected is eventually served and closed, or turned  *)
(* away, if every client closes its end some day, unless every descriptor  *)
(* is taken while a connection waits: then each turn stops at accept()     *)
(* (128-131), and no client is visited.  Nothing else can starve one.      *)
(***************************************************************************)
Starved == NoFreeFd /\ Pending # {}

ReleasedOrStarved ==
  \A c \in Conns :
    phase[c] \in {"queued", "open"} ~> (phase[c] = "closed" \/ Starved)

=============================================================================
