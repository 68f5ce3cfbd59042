----------------------------- MODULE EpollServer ----------------------------
(***************************************************************************)
(* m3_event_driven/epoll_server.c: one thread, blocking sockets, a table   *)
(* of clients searched by descriptor.  One turn of the loop waits for a    *)
(* batch of events, closes idle clients, then handles the batch, in which  *)
(* the listening socket may come before or after any client.               *)
(***************************************************************************)
EXTENDS TcpHost, FiniteSets, FiniteSetsExt

CONSTANTS
  MaxClients, IdleTimeout,
  MaxEvents,     \* size of the batch
  WatchLimits    \* descriptors the kernel may let epoll watch, past server_fd

ASSUME EpollAssumption ==
  /\ MaxClients \in Nat \ {0} /\ IdleTimeout \in Nat \ {0}
  /\ MaxEvents \in Nat \ {0} /\ WatchLimits \subseteq Nat \ {0}

Slots == 1..MaxClients
ListenFd == 0

VARIABLES
  slotFd,     \* clients[i].fd
  idle,       \* time(NULL) - clients[i].last_active, up to IdleTimeout
  interest,   \* client descriptors registered with epoll_fd
  watchLimit, \* the number beyond which EPOLL_CTL_ADD fails in this run
  events,     \* the events of the batch that are still to be handled
  pc,         \* where the loop stands
  slot        \* the slot find_client() returned for the current event

vars == <<hostVars, slotFd, idle, interest, watchLimit, events, pc, slot>>

Places == {"wait", "sweep", "dispatch", "recv", "reply", "dead"}

\* "IN" is EPOLLIN, "BAD" is EPOLLERR or EPOLLHUP.
Flags == {"IN", "BAD"}

\* An event carries the descriptor it was registered with, and nothing of the
\* connection it was raised for.
Event == [fd : Fds \cup {ListenFd}, flags : SUBSET Flags]

Used(s) == slotFd[s] # NoFd
Conn(s) == owner[slotFd[s]]

TypeOK ==
  /\ HostTypeOK
  /\ slotFd \in [Slots -> Fds \cup {NoFd}]
  /\ idle \in [Slots -> 0..IdleTimeout]
  /\ interest \in SUBSET Fds
  /\ watchLimit \in WatchLimits
  /\ events \in SUBSET Event
  /\ pc \in Places
  /\ slot \in Slots

Init ==
  /\ HostInit
  /\ slotFd = [s \in Slots |-> NoFd]
  /\ idle = [s \in Slots |-> 0]
  /\ interest = {}
  /\ watchLimit \in WatchLimits
  /\ events = {}
  /\ pc = "wait"
  /\ slot = 1

-----------------------------------------------------------------------------
\* The events that stand at this moment, level-triggered.
Report(c) == {e \in Flags : \/ e = "IN" /\ Readable(c)
                            \/ e = "BAD" /\ rst[c]}

ReadyEvents ==
  {[fd |-> f, flags |-> Report(owner[f])] :
      f \in {g \in interest : Report(owner[g]) # {}}}
  \cup {[fd |-> ListenFd, flags |-> {"IN"}] : c \in Pending}

\* find_client()
SlotOf(f) == {s \in Slots : slotFd[s] = f /\ \A t \in Slots : slotFd[t] = f => s <= t}

\* Mutant: removal does not free the slot.
ForgetSlot(S) ==
  /\ UNCHANGED <<slotFd, idle>>
  /\ interest' = interest \ {slotFd[s] : s \in S}
  /\ CloseFds({slotFd[s] : s \in S})

\* Mutant: a free slot is marked by 0, as select_server.c does.
RemoveByZero(S) ==
  /\ slotFd' = [s \in Slots |-> IF s \in S THEN 0 ELSE slotFd[s]]
  /\ idle' = [s \in Slots |-> IF s \in S THEN 0 ELSE idle[s]]
  /\ interest' = interest \ {slotFd[s] : s \in S}
  /\ CloseFds({slotFd[s] : s \in S})

\* Mutant: the slot is freed and the descriptor is left open.
NoClose(S) ==
  /\ slotFd' = [s \in Slots |-> IF s \in S THEN NoFd ELSE slotFd[s]]
  /\ idle' = [s \in Slots |-> IF s \in S THEN 0 ELSE idle[s]]
  /\ interest' = interest \ {slotFd[s] : s \in S}
  /\ UNCHANGED hostVars

\* remove_client() on every slot of S.
RemoveClients(S) ==
  /\ slotFd' = [s \in Slots |-> IF s \in S THEN NoFd ELSE slotFd[s]]
  /\ idle' = [s \in Slots |-> IF s \in S THEN 0 ELSE idle[s]]
  /\ interest' = interest \ {slotFd[s] : s \in S}
  /\ CloseFds({slotFd[s] : s \in S})

-----------------------------------------------------------------------------
\* epoll_wait() returns as many of the standing events as fit, in any order,
\* or none after a second without any.
EpollWait ==
  /\ pc = "wait"
  /\ \E E \in SUBSET ReadyEvents :
       /\ Cardinality(E) <= MaxEvents
       /\ Cardinality(E) = MaxEvents \/ E = ReadyEvents
       /\ events' = E
  /\ pc' = "sweep"
  /\ UNCHANGED <<hostVars, slotFd, idle, interest, slot>>

\* The inactivity check over all slots.
Sweep ==
  /\ pc = "sweep"
  /\ RemoveClients({s \in Slots : Used(s) /\ idle[s] >= IdleTimeout})
  /\ pc' = "dispatch"
  /\ UNCHANGED <<events, slot>>

\* The loop takes event e of the batch.
Taking(e) == pc = "dispatch" /\ events' = events \ {e} /\ UNCHANGED slot

\* accept() fails for want of a descriptor.
AcceptFails(e) ==
  /\ e.fd = ListenFd /\ Taking(e)
  /\ NoFreeFd
  /\ UNCHANGED <<hostVars, slotFd, idle, interest, pc>>

\* add_client() and EPOLL_CTL_ADD succeed.
AcceptClient(e, c, f, s) ==
  /\ e.fd = ListenFd /\ Taking(e)
  /\ LowestFree(f)
  /\ s \in SlotOf(NoFd)
  /\ Cardinality(interest) < watchLimit
  /\ AcceptOn(c, f)
  /\ slotFd' = [slotFd EXCEPT ![s] = f]
  /\ idle' = [idle EXCEPT ![s] = 0]
  /\ interest' = interest \cup {f}
  /\ UNCHANGED pc

\* The table is full, or EPOLL_CTL_ADD fails: the new descriptor is closed and
\* the slot that add_client() had filled, if any, is free again.
RejectClient(e, c) ==
  /\ e.fd = ListenFd /\ Taking(e)
  /\ ~NoFreeFd
  /\ SlotOf(NoFd) = {} \/ Cardinality(interest) >= watchLimit
  /\ AcceptAndClose(c)
  /\ UNCHANGED <<slotFd, idle, interest, pc>>

\* [UNKNOWN_FD]: the slot was freed by the inactivity check of this turn.
UnknownFd(e) ==
  /\ e.fd # ListenFd /\ Taking(e)
  /\ SlotOf(e.fd) = {}
  /\ UNCHANGED <<hostVars, slotFd, idle, interest, pc>>

\* [SOCKET_ERROR]: abnormal flags win over readable data.
SocketError(e) ==
  /\ e.fd # ListenFd /\ Taking(e)
  /\ "BAD" \in e.flags
  /\ SlotOf(e.fd) # {}
  /\ RemoveClients(SlotOf(e.fd))
  /\ UNCHANGED pc

\* EPOLLIN: the thread enters recv() and stays there until it returns.
StartRecv(e) ==
  /\ pc = "dispatch"
  /\ e.fd # ListenFd
  /\ e.flags = {"IN"}
  /\ slot' \in SlotOf(e.fd)
  /\ events' = events \ {e}
  /\ pc' = "recv"
  /\ UNCHANGED <<hostVars, slotFd, idle, interest>>

\* recv() > 0.
Receive ==
  /\ pc = "recv"
  /\ \E k \in 1..MaxMsgs : RecvBytes(Conn(slot), k)
  /\ idle' = [idle EXCEPT ![slot] = 0]
  /\ pc' = "reply"
  /\ UNCHANGED <<slotFd, interest, events, slot>>

\* The client of the current event is removed: recv() <= 0, or send() < 0.
RemoveCurrent ==
  /\ \/ pc = "recv" /\ RecvEnds(Conn(slot))
     \/ pc = "reply" /\ SendFails(Conn(slot))
  /\ RemoveClients({slot})
  /\ pc' = "dispatch"
  /\ UNCHANGED <<events, slot>>

\* Mutant: a reply may be sent again.
ReplyAgain ==
  /\ pc = "reply"
  /\ SendReply(Conn(slot))
  /\ pc' \in {"dispatch", "reply"}
  /\ UNCHANGED <<slotFd, idle, interest, events, slot>>

\* send() > 0.
Reply ==
  /\ pc = "reply"
  /\ SendReply(Conn(slot))
  /\ pc' = "dispatch"
  /\ UNCHANGED <<slotFd, idle, interest, events, slot>>

\* send() raises SIGPIPE, which epoll_server.c leaves at its default.
ReplyKills ==
  /\ pc = "reply"
  /\ SendRaisesSigpipe(Conn(slot))
  /\ ProcessExit
  /\ pc' = "dead"
  /\ UNCHANGED <<slotFd, idle, interest, events, slot>>

\* The batch is finished.
EndBatch ==
  /\ pc = "dispatch" /\ events = {}
  /\ pc' = "wait"
  /\ UNCHANGED <<hostVars, slotFd, idle, interest, events, slot>>

Server ==
  /\ UNCHANGED watchLimit
  /\ \/ EpollWait
     \/ Sweep
     \/ \E e \in events :
          \/ AcceptFails(e)
          \/ \E c \in Pending :
               \/ RejectClient(e, c)
               \/ \E f \in Fds, s \in Slots : AcceptClient(e, c, f, s)
          \/ UnknownFd(e)
          \/ SocketError(e)
          \/ StartRecv(e)
     \/ Receive
     \/ RemoveCurrent
     \/ Reply
     \/ ReplyKills
     \/ EndBatch

\* A second passes on the server's clock.
Tick ==
  /\ \E s \in Slots : Used(s) /\ idle[s] < IdleTimeout
  /\ idle' = [s \in Slots |-> IF Used(s) /\ idle[s] < IdleTimeout
                                THEN idle[s] + 1 ELSE idle[s]]
  /\ UNCHANGED <<hostVars, slotFd, interest, watchLimit, events, pc, slot>>

OtherVars == <<fdVars, slotFd, idle, interest, watchLimit, events, pc, slot>>

Clients ==
  /\ \E c \in Conns : Peer(c)
  /\ UNCHANGED OtherVars

Next == Server \/ (pc # "dead" /\ (Tick \/ Clients))

Spec == Init /\ [][Next]_vars

(***************************************************************************)
(* Fairness.  The one thread of the server takes its next step whenever it *)
(* can, and its clock runs.  A client that is sent replies reads them.     *)
(***************************************************************************)
LoopFairness == WF_vars(Server) /\ WF_vars(pc # "dead" /\ Tick)

FairSpec ==
  /\ Spec /\ LoopFairness
  /\ \A c \in Conns \ Silent :
       WF_vars(pc # "dead" /\ PeerRead(c) /\ UNCHANGED OtherVars)

\* Instead, every client closes its end some day, as all of src/ do.
PoliteSpec ==
  /\ Spec /\ LoopFairness
  /\ \A c \in Conns :
       WF_vars(/\ pc # "dead" /\ (PeerClose(c) \/ PeerAbort(c))
               /\ UNCHANGED OtherVars)

-----------------------------------------------------------------------------
(***************************************************************************)
(* Table, kernel and epoll set agree: a descriptor sits in one slot only,  *)
(* two descriptors never name the same connection, and the descriptors in  *)
(* use, the watched ones and the ones in the table are the same, whatever  *)
(* mixture of timeouts, errors and failed registrations led there.         *)
(***************************************************************************)
SlotsDistinct == \A s, t \in Slots : Used(s) /\ slotFd[s] = slotFd[t] => s = t
OwnersDistinct == \A f, g \in Fds : owner[f] # Nobody /\ owner[f] = owner[g] => f = g
FdsAreWatched == interest = {f \in Fds : owner[f] # Nobody}
WatchedInTable == interest = {slotFd[s] : s \in Slots} \ {NoFd}
OpenHaveFds == {c \in Conns : phase[c] = "open"} = {owner[f] : f \in interest}

Table == SlotsDistinct /\ OwnersDistinct /\ FdsAreWatched /\ WatchedInTable /\ OpenHaveFds

TableMatchesKernel == pc # "dead" => Table

\* Ticks since connection c was accepted or heard.
QuietOf(c) ==
  IF \E s \in Slots : Used(s) /\ Conn(s) = c
    THEN idle[CHOOSE s \in Slots : Used(s) /\ Conn(s) = c]
    ELSE 0

(***************************************************************************)
(* Every behaviour of the loop is one of EventService with the weaker      *)
(* promise on closing: an event that outlives its connection may close the *)
(* one that has taken over its descriptor, and this is all it may do.      *)
(***************************************************************************)
Service == INSTANCE EventService WITH
  None <- Nobody, StaleEvents <- TRUE, IgnoresFailedSend <- FALSE,
  room <- Min({MaxClients, watchLimit}),
  quiet <- [c \in Conns |-> QuietOf(c)],
  owed <- IF pc = "reply" THEN Conn(slot) ELSE Nobody,
  up <- pc # "dead"

RefinesService == Service!Spec

(***************************************************************************)
(* A client that has connected is eventually served and closed, or turned  *)
(* away, if every client closes its end some day: even a thread held up in *)
(* recv() by a stale event then goes on, and no end of a client is missed  *)
(* for want of a descriptor, a watch or a slot.                            *)
(***************************************************************************)
QueuedIsReleased == <>[](\A c \in Conns : phase[c] \in {"new", "closed"})

(***************************************************************************)
(* The comment at line 166 promises that "every 1 second we also check     *)
(* idle clients": as long as the process lives, the loop comes back to the  *)
(* check over and over.                                                    *)
(***************************************************************************)
IdleCheckRecurs == []<>(pc \in {"sweep", "dead"})

=============================================================================
