----------------------------- MODULE PollServer -----------------------------
(***************************************************************************)
(* m3_event_driven/poll_server.c: one thread, blocking sockets, a table of *)
(* pollfd entries.  One turn of the loop polls, closes idle clients,       *)
(* accepts at most one connection and then visits the slots in order.      *)
(***************************************************************************)
EXTENDS TcpHost

CONSTANTS MaxClients, IdleTimeout

ASSUME PollAssumption ==
  MaxClients \in Nat \ {0} /\ IdleTimeout \in Nat \ {0}

Slots == 1..MaxClients

VARIABLES
  slotFd,     \* fds[i].fd; slot 0, the listening socket, is listenReady
  revents,    \* fds[i].revents, as poll() last reported it
  listenReady,\* fds[0].revents & POLLIN
  idle,       \* time(NULL) - clients[i].last_active, up to IdleTimeout
  pc,         \* where the loop stands
  slot        \* i of the loop over existing clients

vars == <<hostVars, slotFd, revents, listenReady, idle, pc, slot>>

Places == {"poll", "sweep", "accept", "scan", "reply", "check", "dead"}

\* "IN" is POLLIN, "BAD" is any of POLLERR, POLLHUP, POLLNVAL.
Flags == {"IN", "BAD"}

Used(s) == slotFd[s] # NoFd
Conn(s) == owner[slotFd[s]]

TypeOK ==
  /\ HostTypeOK
  /\ slotFd \in [Slots -> Fds \cup {NoFd}]
  /\ revents \in [Slots -> SUBSET Flags]
  /\ listenReady \in BOOLEAN
  /\ idle \in [Slots -> 0..IdleTimeout]
  /\ pc \in Places
  /\ slot \in 1..(MaxClients + 1)

Init ==
  /\ HostInit
  /\ slotFd = [s \in Slots |-> NoFd]
  /\ revents = [s \in Slots |-> {}]
  /\ listenReady = FALSE
  /\ idle = [s \in Slots |-> 0]
  /\ pc = "poll"
  /\ slot = 1

-----------------------------------------------------------------------------
\* What poll() reports for a descriptor at this moment.
Report(f) ==
  IF owner[f] = Nobody
    THEN {"BAD"}
    ELSE {e \in Flags : \/ e = "IN" /\ Readable(owner[f])
                        \/ e = "BAD" /\ rst[owner[f]]}

\* Mutant: entries keep the flags of their last descriptor.
KeepRevents(S) == UNCHANGED revents

\* .revents = 0 for the slots of S: on removal, on reuse, after the visit.
ClearRevents(S) ==
  revents' = [s \in Slots |-> IF s \in S THEN {} ELSE revents[s]]

\* Mutant: a free slot is marked by 0, as select_server.c does.
RemoveByZero(S) ==
  /\ slotFd' = [s \in Slots |-> IF s \in S THEN 0 ELSE slotFd[s]]
  /\ idle' = [s \in Slots |-> IF s \in S THEN 0 ELSE idle[s]]
  /\ CloseFds({slotFd[s] : s \in S})

\* remove_client() on every slot of S, apart from revents.
RemoveClients(S) ==
  /\ slotFd' = [s \in Slots |-> IF s \in S THEN NoFd ELSE slotFd[s]]
  /\ idle' = [s \in Slots |-> IF s \in S THEN 0 ELSE idle[s]]
  /\ CloseFds({slotFd[s] : s \in S})

\* The visit of the current slot is over; gone says whether it was removed.
FinishSlot(gone) ==
  /\ RemoveClients(IF gone THEN {slot} ELSE {})
  /\ ClearRevents({slot})
  /\ slot' = slot + 1
  /\ pc' = "scan"
  /\ UNCHANGED listenReady

-----------------------------------------------------------------------------
\* poll() returns, with the flags of every slot or after a second without any.
Poll ==
  /\ pc = "poll"
  /\ revents' = [s \in Slots |-> IF Used(s) THEN Report(slotFd[s]) ELSE {}]
  /\ listenReady' = (Pending # {})
  /\ pc' = "sweep"
  /\ UNCHANGED <<hostVars, slotFd, idle, slot>>

\* Mutant: the limit is taken one second too low.
SweepEarly ==
  /\ pc = "sweep"
  /\ LET expired == {s \in Slots : Used(s) /\ idle[s] >= IdleTimeout - 1}
     IN  RemoveClients(expired) /\ ClearRevents(expired)
  /\ pc' = "accept"
  /\ UNCHANGED <<listenReady, slot>>

\* Mutant: the check is made only when poll() has timed out.
SweepWhenQuiet ==
  /\ pc = "sweep"
  /\ LET quiet == ~listenReady /\ \A s \in Slots : revents[s] = {}
         expired == {s \in Slots : quiet /\ Used(s) /\ idle[s] >= IdleTimeout}
     IN  RemoveClients(expired) /\ ClearRevents(expired)
  /\ pc' = "accept"
  /\ UNCHANGED <<listenReady, slot>>

\* The inactivity check over all slots.
Sweep ==
  /\ pc = "sweep"
  /\ LET expired == {s \in Slots : Used(s) /\ idle[s] >= IdleTimeout}
     IN  RemoveClients(expired) /\ ClearRevents(expired)
  /\ pc' = "accept"
  /\ UNCHANGED <<listenReady, slot>>

ToScan == pc = "accept" /\ pc' = "scan" /\ slot' = 1 /\ UNCHANGED listenReady

\* No connection is waiting, or accept() failed for want of a descriptor.
NoAccept ==
  /\ ~listenReady \/ NoFreeFd
  /\ ToScan
  /\ UNCHANGED <<hostVars, slotFd, revents, idle>>

\* A connection takes the lowest free slot.
AcceptClient(c, f, s) ==
  /\ listenReady
  /\ LowestFree(f)
  /\ ~Used(s) /\ \A t \in Slots : ~Used(t) => s <= t
  /\ AcceptOn(c, f)
  /\ slotFd' = [slotFd EXCEPT ![s] = f]
  /\ idle' = [idle EXCEPT ![s] = 0]
  /\ ClearRevents({s})
  /\ ToScan

\* Mutant: the connection that does not fit is not closed.
RejectLeaks(c) ==
  /\ listenReady
  /\ \A s \in Slots : Used(s)
  /\ \E f \in Fds : LowestFree(f) /\ AcceptOn(c, f)
  /\ ToScan
  /\ UNCHANGED <<slotFd, revents, idle>>

\* Too many clients: the new descriptor is closed at once.
RejectClient(c) ==
  /\ listenReady
  /\ ~NoFreeFd
  /\ \A s \in Slots : Used(s)
  /\ AcceptAndClose(c)
  /\ ToScan
  /\ UNCHANGED <<slotFd, revents, idle>>

Scanning == pc = "scan" /\ slot \in Slots
MustRecv == Scanning /\ Used(slot) /\ "IN" \in revents[slot]

\* POLLIN is not set, or its data has been answered: what is left to do for
\* the slot is to look at the abnormal flags that poll() reported.
CheckSlot ==
  /\ (Scanning /\ ~MustRecv) \/ pc = "check"
  /\ FinishSlot(Used(slot) /\ "BAD" \in revents[slot])

\* recv() > 0.
Receive ==
  /\ MustRecv
  /\ \E k \in 1..MaxMsgs : RecvBytes(Conn(slot), k)
  /\ idle' = [idle EXCEPT ![slot] = 0]
  /\ pc' = "reply"
  /\ UNCHANGED <<slotFd, revents, listenReady, slot>>

\* recv() <= 0: the client disconnected, or the connection failed.
ReceiveEnd ==
  /\ MustRecv
  /\ RecvEnds(Conn(slot))
  /\ FinishSlot(TRUE)

\* send() > 0.
Reply ==
  /\ pc = "reply"
  /\ SendReply(Conn(slot))
  /\ pc' = "check"
  /\ UNCHANGED <<slotFd, revents, listenReady, idle, slot>>

\* send() < 0.
ReplyFails ==
  /\ pc = "reply"
  /\ SendFails(Conn(slot))
  /\ FinishSlot(TRUE)

\* send() raises SIGPIPE, which poll_server.c leaves at its default.
ReplyKills ==
  /\ pc = "reply"
  /\ SendRaisesSigpipe(Conn(slot))
  /\ ProcessExit
  /\ pc' = "dead"
  /\ UNCHANGED <<slotFd, revents, listenReady, idle, slot>>

\* Every slot has been visited; fds[0].revents = 0.
EndScan ==
  /\ pc = "scan" /\ slot = MaxClients + 1
  /\ pc' = "poll"
  /\ listenReady' = FALSE
  /\ UNCHANGED <<hostVars, slotFd, revents, idle, slot>>

Server ==
  \/ Poll
  \/ Sweep
  \/ NoAccept
  \/ \E c \in Pending :
       \/ RejectClient(c)
       \/ \E f \in Fds, s \in Slots : AcceptClient(c, f, s)
  \/ CheckSlot
  \/ Receive
  \/ ReceiveEnd
  \/ Reply
  \/ ReplyFails
  \/ ReplyKills
  \/ EndScan

\* A second passes on the server's clock.
Tick ==
  /\ \E s \in Slots : Used(s) /\ idle[s] < IdleTimeout
  /\ idle' = [s \in Slots |-> IF Used(s) /\ idle[s] < IdleTimeout
                                THEN idle[s] + 1 ELSE idle[s]]
  /\ UNCHANGED <<hostVars, slotFd, revents, listenReady, pc, slot>>

Clients ==
  /\ \E c \in Conns : Peer(c)
  /\ UNCHANGED <<fdVars, slotFd, revents, listenReady, idle, pc, slot>>

Next == Server \/ (pc # "dead" /\ (Tick \/ Clients))

Spec == Init /\ [][Next]_vars

(***************************************************************************)
(* Fairness.  The server is one thread that never yields voluntarily, so   *)
(* it takes its next step whenever that step can be taken; its clock runs. *)
(* A client that is sent replies reads them.  No client need ever send or  *)
(* close.                                                                  *)
(***************************************************************************)
Fairness ==
  /\ WF_vars(Server)
  /\ WF_vars(pc # "dead" /\ Tick)
  /\ \A c \in Conns \ Silent :
       WF_vars(/\ pc # "dead" /\ PeerRead(c)
               /\ UNCHANGED <<fdVars, slotFd, revents, listenReady, idle, pc, slot>>)

FairSpec == Spec /\ Fairness

-----------------------------------------------------------------------------
(***************************************************************************)
(* The table and the kernel agree: a descriptor sits in one slot only, two *)
(* descriptors never name the same connection, and every descriptor and    *)
(* every open connection is in the table.  A slot lost or filled twice by  *)
(* the add loop (170-194) or remove_client would break it.                 *)
(***************************************************************************)
SlotsDistinct == \A s, t \in Slots : Used(s) /\ slotFd[s] = slotFd[t] => s = t
OwnersDistinct == \A f, g \in Fds : owner[f] # Nobody /\ owner[f] = owner[g] => f = g
FdsInTable == \A f \in Fds : owner[f] # Nobody <=> \E s \in Slots : slotFd[s] = f
OpenHaveFds == \A c \in Conns : phase[c] = "open" <=> \E f \in Fds : owner[f] = c

Table == SlotsDistinct /\ OwnersDistinct /\ FdsInTable /\ OpenHaveFds

TableMatchesKernel == pc # "dead" => Table

(***************************************************************************)
(* recv() is called only where it returns at once, although poll() looked  *)
(* before idle slots were closed and a new client may have been given both *)
(* the slot and the descriptor since (lines 137-202, then 207-213).        *)
(***************************************************************************)
RecvNeverBlocks == MustRecv => Readable(Conn(slot))

\* Ticks since connection c was accepted or heard.
QuietOf(c) ==
  IF \E s \in Slots : Used(s) /\ Conn(s) = c
    THEN idle[CHOOSE s \in Slots : Used(s) /\ Conn(s) = c]
    ELSE 0

(***************************************************************************)
(* No connection gets more replies than there were receives on it, and a   *)
(* reply is only ever due on the connection just received from: every      *)
(* behaviour of the loop is one of EventService.                           *)
(***************************************************************************)
Service == INSTANCE EventService WITH
  None <- Nobody, StaleEvents <- FALSE, IgnoresFailedSend <- FALSE,
  room <- MaxClients,
  quiet <- [c \in Conns |-> QuietOf(c)],
  owed <- IF pc = "reply" THEN Conn(slot) ELSE Nobody,
  up <- pc # "dead"

RefinesService == Service!Spec

(***************************************************************************)
(* A client that has connected is eventually served and closed or turned   *)
(* away, unless the process ends first: the inactivity check (137-153)     *)
(* closes clients that stop sending, whether or not they ever close their  *)
(* end, and so makes room for the queue when descriptors run out.          *)
(***************************************************************************)
QueuedIsReleased == <>[](\A c \in Conns : phase[c] \in {"new", "closed"})

(***************************************************************************)
(* The loop survives a send() that fails: line 252 turns the failure into  *)
(* the removal of that one client.                                         *)
(***************************************************************************)
SurvivesFailedSend == pc # "dead"

=============================================================================
