--------------------------- MODULE SelectServerM3 ---------------------------
(***************************************************************************)
(* m3_event_driven/select_server.c: one thread, blocking sockets, a table  *)
(* of clients and an fd_set indexed by descriptor.  One turn of the loop   *)
(* selects, closes idle clients, accepts at most one connection and then   *)
(* visits the slots in order; a failed accept ends the turn at once.       *)
(***************************************************************************)
EXTENDS TcpHost

CONSTANTS MaxClients, IdleTimeout

ASSUME SelectAssumption ==
  MaxClients \in Nat \ {0} /\ IdleTimeout \in Nat \ {0}

Slots == 1..MaxClients

VARIABLES
  slotFd,     \* clients[i].fd, with NoFd for the 0 of a free slot
  readfds,    \* the client descriptors select() left in readfds
  listenReady,\* FD_ISSET(server_fd, &readfds)
  idle,       \* time(NULL) - clients[i].last_active, up to IdleTimeout
  pc,         \* where the loop stands
  slot        \* i of the loop over existing clients

vars == <<hostVars, slotFd, readfds, listenReady, idle, pc, slot>>

Places == {"select", "sweep", "accept", "scan", "recv", "reply", "dead"}

Used(s) == slotFd[s] # NoFd
Conn(s) == owner[slotFd[s]]

TypeOK ==
  /\ HostTypeOK
  /\ slotFd \in [Slots -> Fds \cup {NoFd}]
  /\ readfds \in SUBSET Fds
  /\ listenReady \in BOOLEAN
  /\ idle \in [Slots -> 0..IdleTimeout]
  /\ pc \in Places
  /\ slot \in 1..(MaxClients + 1)

Init ==
  /\ HostInit
  /\ slotFd = [s \in Slots |-> NoFd]
  /\ readfds = {}
  /\ listenReady = FALSE
  /\ idle = [s \in Slots |-> 0]
  /\ pc = "select"
  /\ slot = 1

-----------------------------------------------------------------------------
\* Mutant: close() without clearing the entry.
CloseOnly(S) ==
  /\ UNCHANGED <<slotFd, idle>>
  /\ CloseFds({slotFd[s] : s \in S})

\* remove_client() on every slot of S.
RemoveClients(S) ==
  /\ slotFd' = [s \in Slots |-> IF s \in S THEN NoFd ELSE slotFd[s]]
  /\ idle' = [s \in Slots |-> IF s \in S THEN 0 ELSE idle[s]]
  /\ CloseFds({slotFd[s] : s \in S})

\* Mutant: the set that was built is tested, not the one select() returned.
SelectBuilt ==
  /\ pc = "select"
  /\ readfds' = {f \in Fds : \E s \in Slots : slotFd[s] = f}
  /\ listenReady' = (Pending # {})
  /\ pc' = "sweep"
  /\ UNCHANGED <<hostVars, slotFd, idle, slot>>

\* readfds is built from the table; select() leaves the readable ones in it,
\* or none after a second.  FD_SET (lines 100 and 107) is called without a test:
\* the model is of descriptors below FD_SETSIZE.  What the program does once it
\* is given one that is not, which takes a limit on open files above 1024, is
\* undefined and left out.
Select ==
  /\ pc = "select"
  /\ readfds' = {f \in Fds : /\ \E s \in Slots : slotFd[s] = f
                             /\ owner[f] # Nobody /\ Readable(owner[f])}
  /\ listenReady' = (Pending # {})
  /\ pc' = "sweep"
  /\ UNCHANGED <<hostVars, slotFd, idle, slot>>

\* Mutant: the limit is taken one second too low.
SweepEarly ==
  /\ pc = "sweep"
  /\ RemoveClients({s \in Slots : Used(s) /\ idle[s] >= IdleTimeout - 1})
  /\ pc' = "accept"
  /\ UNCHANGED <<readfds, listenReady, slot>>

\* Mutant: the check is made only when select() has timed out.
SweepWhenQuiet ==
  /\ pc = "sweep"
  /\ LET quiet == ~listenReady /\ readfds = {}
     IN  RemoveClients({s \in Slots : quiet /\ Used(s) /\ idle[s] >= IdleTimeout})
  /\ pc' = "accept"
  /\ UNCHANGED <<readfds, listenReady, slot>>

\* The timeout check over all slots.
Sweep ==
  /\ pc = "sweep"
  /\ RemoveClients({s \in Slots : Used(s) /\ idle[s] >= IdleTimeout})
  /\ pc' = "accept"
  /\ UNCHANGED <<readfds, listenReady, slot>>

ToScan == pc = "accept" /\ pc' = "scan" /\ slot' = 1
          /\ UNCHANGED <<readfds, listenReady>>

NoConnection ==
  /\ ~listenReady
  /\ ToScan
  /\ UNCHANGED <<hostVars, slotFd, idle>>

\* accept() fails for want of a descriptor: "continue", no client is visited.
AcceptFails ==
  /\ pc = "accept"
  /\ listenReady /\ NoFreeFd
  /\ pc' = "select"
  /\ UNCHANGED <<hostVars, slotFd, readfds, listenReady, idle, slot>>

\* A connection takes the lowest free slot.
AcceptClient(c, f, s) ==
  /\ listenReady
  /\ LowestFree(f)
  /\ ~Used(s) /\ \A t \in Slots : ~Used(t) => s <= t
  /\ AcceptOn(c, f)
  /\ slotFd' = [slotFd EXCEPT ![s] = f]
  /\ idle' = [idle EXCEPT ![s] = 0]
  /\ ToScan

\* Too many clients: the new descriptor is closed at once.
RejectClient(c) ==
  /\ listenReady
  /\ ~NoFreeFd
  /\ \A s \in Slots : Used(s)
  /\ AcceptAndClose(c)
  /\ ToScan
  /\ UNCHANGED <<slotFd, idle>>

Scanning == pc = "scan" /\ slot \in Slots
Selected == Used(slot) /\ slotFd[slot] \in readfds

SkipSlot ==
  /\ Scanning
  /\ ~Selected
  /\ slot' = slot + 1
  /\ UNCHANGED <<hostVars, slotFd, readfds, listenReady, idle, pc>>

\* The bit of the descriptor is set: the thread enters recv() and stays there
\* until it returns.
StartRecv ==
  /\ Scanning
  /\ Selected
  /\ pc' = "recv"
  /\ UNCHANGED <<hostVars, slotFd, readfds, listenReady, idle, slot>>

\* recv() > 0.
Receive ==
  /\ pc = "recv"
  /\ \E k \in 1..MaxMsgs : RecvBytes(Conn(slot), k)
  /\ idle' = [idle EXCEPT ![slot] = 0]
  /\ pc' = "reply"
  /\ UNCHANGED <<slotFd, readfds, listenReady, slot>>

\* recv() <= 0 or send() < 0: the client is removed.
RemoveCurrent ==
  /\ \/ pc = "recv" /\ RecvEnds(Conn(slot))
     \/ pc = "reply" /\ SendFails(Conn(slot))
  /\ RemoveClients({slot})
  /\ slot' = slot + 1
  /\ pc' = "scan"
  /\ UNCHANGED <<readfds, listenReady>>

\* send() > 0.
Reply ==
  /\ pc = "reply"
  /\ SendReply(Conn(slot))
  /\ slot' = slot + 1
  /\ pc' = "scan"
  /\ UNCHANGED <<slotFd, readfds, listenReady, idle>>

\* send() raises SIGPIPE, which select_server.c leaves at its default here.
ReplyKills ==
  /\ pc = "reply"
  /\ SendRaisesSigpipe(Conn(slot))
  /\ ProcessExit
  /\ pc' = "dead"
  /\ UNCHANGED <<slotFd, readfds, listenReady, idle, slot>>

\* Every slot has been visited.
EndScan ==
  /\ pc = "scan" /\ slot = MaxClients + 1
  /\ pc' = "select"
  /\ UNCHANGED <<hostVars, slotFd, readfds, listenReady, idle, slot>>

Server ==
  \/ Select
  \/ Sweep
  \/ NoConnection
  \/ AcceptFails
  \/ \E c \in Pending :
       \/ RejectClient(c)
       \/ \E f \in Fds, s \in Slots : AcceptClient(c, f, s)
  \/ SkipSlot
  \/ StartRecv
  \/ Receive
  \/ RemoveCurrent
  \/ Reply
  \/ ReplyKills
  \/ EndScan

\* A second passes on the server's clock.
Tick ==
  /\ \E s \in Slots : Used(s) /\ idle[s] < IdleTimeout
  /\ idle' = [s \in Slots |-> IF Used(s) /\ idle[s] < IdleTimeout
                                THEN idle[s] + 1 ELSE idle[s]]
  /\ UNCHANGED <<hostVars, slotFd, readfds, listenReady, pc, slot>>

Clients ==
  /\ \E c \in Conns : Peer(c)
  /\ UNCHANGED <<fdVars, slotFd, readfds, listenReady, idle, pc, slot>>

Next == Server \/ (pc # "dead" /\ (Tick \/ Clients))

Spec == Init /\ [][Next]_vars

(***************************************************************************)
(* Fairness.  The one thread of the server takes its next step whenever it *)
(* can, and its clock runs.  Every client closes its end some day, as all  *)
(* the clients of the repository do.                                       *)
(***************************************************************************)
FairSpec ==
  /\ Spec
  /\ WF_vars(Server)
  /\ WF_vars(pc # "dead" /\ Tick)
  /\ \A c \in Conns :
       WF_vars(/\ pc # "dead" /\ (PeerClose(c) \/ PeerAbort(c))
               /\ UNCHANGED <<fdVars, slotFd, readfds, listenReady, idle, pc, slot>>)

-----------------------------------------------------------------------------
(***************************************************************************)
(* The table and the kernel agree: a descriptor sits in one slot only, two *)
(* descriptors never name the same connection, and every descriptor and    *)
(* every open connection is in the table.  It is also why select() never   *)
(* fails with EBADF, which would end the server (lines 121-128).           *)
(***************************************************************************)
SlotsDistinct == \A s, t \in Slots : Used(s) /\ slotFd[s] = slotFd[t] => s = t
OwnersDistinct == \A f, g \in Fds : owner[f] # Nobody /\ owner[f] = owner[g] => f = g
FdsInTable == \A f \in Fds : owner[f] # Nobody <=> \E s \in Slots : slotFd[s] = f
OpenHaveFds == \A c \in Conns : phase[c] = "open" <=> \E f \in Fds : owner[f] = c

Table == SlotsDistinct /\ OwnersDistinct /\ FdsInTable /\ OpenHaveFds

TableMatchesKernel == pc # "dead" => Table

\* A bit is stale if it leads to a recv() that waits.
Stale(s) == Used(s) /\ slotFd[s] \in readfds /\ ~Readable(Conn(s))
ToVisit(s) == IF pc = "reply" THEN s > slot ELSE s >= slot
StaleAhead(s) == ToVisit(s) /\ Stale(s)

(***************************************************************************)
(* readfds is older than the idle check and the accept of its turn, and an *)
(* accept may reuse a descriptor whose bit is set (130-201, then 210): no  *)
(* bit is stale before the accept, and at most one of those still to be    *)
(* visited is after it, so one recv() of a turn at most can wait for a     *)
(* client that select() did not report.                                    *)
(***************************************************************************)
OneStaleBit ==
  /\ pc \in {"sweep", "accept"} => \A s \in Slots : ~Stale(s)
  /\ pc \in {"scan", "recv", "reply"} =>
       \A s, t \in Slots : StaleAhead(s) /\ StaleAhead(t) => s = t

\* Ticks since connection c was accepted or heard.
QuietOf(c) ==
  IF \E s \in Slots : Used(s) /\ Conn(s) = c
    THEN idle[CHOOSE s \in Slots : Used(s) /\ Conn(s) = c]
    ELSE 0

(***************************************************************************)
(* Every behaviour of the loop is one of EventService, with its stronger   *)
(* promise: readfds may be stale, but a stale bit only leads to a recv(),  *)
(* never to the removal of the client that has taken over the descriptor.  *)
(***************************************************************************)
Service == INSTANCE EventService WITH
  None <- Nobody, StaleEvents <- FALSE, IgnoresFailedSend <- FALSE,
  room <- MaxClients,
  quiet <- [c \in Conns |-> QuietOf(c)],
  owed <- IF pc = "reply" THEN Conn(slot) ELSE Nobody,
  up <- pc # "dead"

RefinesService == Service!Spec

(***************************************************************************)
(* A client that has connected is eventually served and closed, or turned  *)
(* away, if every client closes its end some day: neither a turn cut short *)
(* by a failed accept (165-168) nor a recv() on a stale bit holds the      *)
(* queue, or a client that has ended, for ever.                            *)
(***************************************************************************)
QueuedIsReleased == <>[](\A c \in Conns : phase[c] \in {"new", "closed"})

=============================================================================
