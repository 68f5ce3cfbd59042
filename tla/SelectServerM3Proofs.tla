------------------------ MODULE SelectServerM3Proofs ------------------------
(***************************************************************************)
(* Type correctness of SelectServerM3, the agreement of its table with the *)
(* kernel, and the refinement of EventService, for every number of         *)
(* connections, descriptors and slots, and whatever bits of readfds are    *)
(* stale.                                                                  *)
(***************************************************************************)
EXTENDS SelectServerM3, FiniteSetTheorems, FunctionTheorems, TLAPS

(***************************************************************************)
(* Replies never outnumber receives; while one is due there is one to give.*)
(***************************************************************************)
RepliesBounded == \A c \in Conns : replies[c] <= recvd[c]
ReplyIsDue == pc = "reply" => replies[Conn(slot)] < recvd[Conn(slot)]

\* The slot that is being received from or answered stays in the table.
VisitedIsUsed == pc \in {"recv", "reply"} => slot \in Slots /\ Used(slot)

IInv ==
  /\ TypeOK
  /\ RepliesBounded
  /\ ReplyIsDue
  /\ VisitedIsUsed
  /\ TableMatchesKernel

-----------------------------------------------------------------------------
(***************************************************************************)
(* Facts about the kernel's and the peers' steps, of which every action of *)
(* the server is made.                                                     *)
(***************************************************************************)
LEMMA NumbersOK ==
  /\ MaxMsgs \in Nat /\ SndCap \in Nat /\ MaxFd \in Nat \ {0}
  /\ MaxClients \in Nat \ {0} /\ IdleTimeout \in Nat \ {0}
  /\ NoFd \notin Fds /\ Nobody \notin Conns
BY PeersAssumption, HostAssumption, SelectAssumption DEF NoFd, Fds

\* What is forgotten of a closed connection leaves the others alone.
LEMMA ForgetFacts ==
  ASSUME PeersTypeOK, NEW C, Forget(C)
  PROVE  /\ PeersTypeOK'
         /\ RepliesBounded => RepliesBounded'
         /\ \A c \in Conns : phase'[c] = IF c \in C THEN "closed" ELSE phase[c]
         /\ \A c \in Conns \ C :
              /\ sent'[c] = sent[c] /\ recvd'[c] = recvd[c]
              /\ fin'[c] = fin[c] /\ rst'[c] = rst[c]
<1> USE DEF Forget, PeersTypeOK
<1>1. 0 \in 0..MaxMsgs
  BY NumbersOK
<1>2. PeersTypeOK'
  BY <1>1 DEF Phases
<1>3. RepliesBounded => RepliesBounded'
  BY DEF RepliesBounded
<1> QED BY <1>2, <1>3

\* A used slot of a table that matches the kernel refers to a connection.
LEMMA UsedSlotHasConn ==
  ASSUME TypeOK, Table, NEW s \in Slots, Used(s)
  PROVE  slotFd[s] \in Fds /\ Conn(s) \in Conns
BY DEF TypeOK, HostTypeOK, Table, FdsInTable, Used, Conn

\* remove_client on any set of slots keeps the types ...
LEMMA RemoveClientsType ==
  ASSUME TypeOK, NEW S \in SUBSET Slots, RemoveClients(S)
  PROVE  /\ HostTypeOK'
         /\ slotFd' \in [Slots -> Fds \cup {NoFd}]
         /\ idle' \in [Slots -> 0..IdleTimeout]
         /\ RepliesBounded => RepliesBounded'
<1> DEFINE Gone == {c \in Conns : \E f \in {slotFd[s] : s \in S} \cap Fds : owner[f] = c}
<1>1. PeersTypeOK' /\ (RepliesBounded => RepliesBounded')
  <2>1. Forget(Gone) /\ PeersTypeOK
    BY DEF RemoveClients, CloseFds, TypeOK, HostTypeOK
  <2> HIDE DEF Gone
  <2> QED BY <2>1, ForgetFacts
<1>2. owner' \in [Fds -> Conns \cup {Nobody}] /\ fdLimit' \in FdLimits
  BY DEF TypeOK, HostTypeOK, RemoveClients, CloseFds
<1>3. idle' \in [Slots -> 0..IdleTimeout]
  BY NumbersOK DEF TypeOK, RemoveClients
<1>4. slotFd' \in [Slots -> Fds \cup {NoFd}]
  BY DEF TypeOK, RemoveClients
<1> QED
  BY <1>1, <1>2, <1>3, <1>4 DEF HostTypeOK

\* ... the agreement with the kernel ...
LEMMA RemoveClientsTable ==
  ASSUME TypeOK, Table, NEW S \in SUBSET Slots, RemoveClients(S)
  PROVE  Table'
<1> DEFINE F == {slotFd[s] : s \in S}
<1>1. \A s \in Slots : slotFd'[s] = IF s \in S THEN NoFd ELSE slotFd[s]
  BY DEF RemoveClients
<1>2. \A f \in Fds : owner'[f] = IF f \in F THEN Nobody ELSE owner[f]
  BY DEF RemoveClients, CloseFds
<1>3. \A c \in Conns : phase'[c] = IF \E f \in F \cap Fds : owner[f] = c
                                     THEN "closed" ELSE phase[c]
  BY DEF RemoveClients, CloseFds, Forget
<1>4. SlotsDistinct'
  BY <1>1 DEF Table, SlotsDistinct, Used
<1>5. OwnersDistinct'
  BY <1>2 DEF Table, OwnersDistinct
<1>6. FdsInTable'
  <2> SUFFICES ASSUME NEW f \in Fds
               PROVE  owner'[f] # Nobody <=> \E s \in Slots : slotFd'[s] = f
    BY DEF FdsInTable
  <2>1. (\E s \in Slots : slotFd'[s] = f) <=> (\E s \in Slots \ S : slotFd[s] = f)
    BY <1>1, NumbersOK
  <2>2. (\E s \in Slots \ S : slotFd[s] = f)
          <=> (\E s \in Slots : slotFd[s] = f) /\ f \notin F
    BY NumbersOK DEF Table, SlotsDistinct, Used
  <2> QED BY <1>2, <2>1, <2>2 DEF Table, FdsInTable
<1>7. OpenHaveFds'
  <2> SUFFICES ASSUME NEW c \in Conns
               PROVE  phase'[c] = "open" <=> \E f \in Fds : owner'[f] = c
    BY DEF OpenHaveFds
  <2>1. (\E f \in Fds : owner'[f] = c) <=> (\E f \in Fds \ F : owner[f] = c)
    BY <1>2, NumbersOK
  <2>2. (\E f \in Fds \ F : owner[f] = c)
          <=> (\E f \in Fds : owner[f] = c) /\ ~(\E f \in F \cap Fds : owner[f] = c)
    BY NumbersOK DEF Table, OwnersDistinct
  <2> QED BY <1>3, <2>1, <2>2 DEF Table, OpenHaveFds
<1> QED BY <1>4, <1>5, <1>6, <1>7 DEF Table

\* ... and the connection of every slot that stays.
LEMMA RemoveClientsConn ==
  ASSUME TypeOK, Table, NEW S \in SUBSET Slots, RemoveClients(S),
         NEW s \in Slots, Used(s)'
  PROVE  /\ s \notin S /\ Used(s) /\ slotFd'[s] = slotFd[s]
         /\ Conn(s)' = Conn(s)
         /\ Readable(Conn(s))' <=> Readable(Conn(s))
<1>1. s \notin S /\ slotFd'[s] = slotFd[s] /\ Used(s)
  BY DEF RemoveClients, Used
<1>2. slotFd[s] \in Fds /\ slotFd[s] \notin {slotFd[t] : t \in S}
  BY <1>1, UsedSlotHasConn DEF Table, SlotsDistinct
<1>3. owner'[slotFd[s]] = owner[slotFd[s]]
  BY <1>2 DEF RemoveClients, CloseFds
<1> DEFINE Gone == {c \in Conns : \E f \in {slotFd[t] : t \in S} \cap Fds : owner[f] = c}
<1>4. Conn(s) \in Conns \ Gone
  <2>1. Conn(s) \in Conns /\ owner[slotFd[s]] = Conn(s) /\ owner[slotFd[s]] # Nobody
    BY <1>1, UsedSlotHasConn, NumbersOK DEF Conn
  <2>2. \A f \in Fds : owner[f] = owner[slotFd[s]] => f = slotFd[s]
    BY <1>2, <2>1 DEF Table, OwnersDistinct
  <2> QED BY <1>2, <2>1, <2>2
<1>5. Forget(Gone) /\ PeersTypeOK
  BY DEF RemoveClients, CloseFds, TypeOK, HostTypeOK
<1>6. PICK c \in Conns \ Gone : c = Conn(s)
  BY <1>4
<1> HIDE DEF Gone
<1>7. /\ sent'[c] = sent[c] /\ recvd'[c] = recvd[c]
      /\ fin'[c] = fin[c] /\ rst'[c] = rst[c]
  BY <1>5, <1>6, ForgetFacts
<1> QED BY <1>1, <1>3, <1>6, <1>7 DEF Conn, Readable, Unread

-----------------------------------------------------------------------------
(***************************************************************************)
(* One lemma per action.                                                   *)
(***************************************************************************)
\* Select, and the steps that only move the thread on.
LEMMA MovesKeep ==
  IInv /\ (Select \/ NoConnection \/ AcceptFails \/ SkipSlot \/ StartRecv \/ EndScan) => IInv'
<1> SUFFICES ASSUME IInv,
                    Select \/ NoConnection \/ AcceptFails \/ SkipSlot \/ StartRecv \/ EndScan
             PROVE  IInv'
  OBVIOUS
<1> USE DEF IInv, hostVars
<1>1. /\ UNCHANGED <<hostVars, slotFd, idle>>
      /\ readfds' \in SUBSET Fds /\ listenReady' \in BOOLEAN
      /\ pc # "dead" /\ pc' \in Places \ {"reply", "dead"}
  BY DEF Select, NoConnection, ToScan, AcceptFails, SkipSlot, StartRecv, EndScan, Scanning,
         TypeOK, Places
<1>2. slot' \in 1..(MaxClients + 1)
  BY NumbersOK
  DEF Select, NoConnection, ToScan, AcceptFails, SkipSlot, StartRecv, EndScan, Scanning,
      TypeOK, Slots
<1>3. pc' = "recv" => slot' \in Slots /\ slotFd[slot'] # NoFd
  BY DEF Select, NoConnection, ToScan, AcceptFails, SkipSlot, StartRecv, EndScan, Scanning,
         Selected, Used
<1>4. TypeOK'
  BY <1>1, <1>2 DEF TypeOK, HostTypeOK, PeersTypeOK, Places
<1>5. TableMatchesKernel'
  BY <1>1
  DEF TableMatchesKernel, Table, SlotsDistinct, OwnersDistinct, FdsInTable, OpenHaveFds, Used
<1>6. RepliesBounded' /\ ReplyIsDue' /\ VisitedIsUsed'
  BY <1>1, <1>3 DEF RepliesBounded, ReplyIsDue, VisitedIsUsed, Used, Places
<1> QED BY <1>4, <1>5, <1>6

\* Sweep and RemoveCurrent take slots out of the table.
LEMMA RemovalKeeps ==
  ASSUME IInv, pc # "dead", NEW S \in SUBSET Slots, RemoveClients(S),
         pc' \in {"accept", "scan"}, slot' \in 1..(MaxClients + 1),
         UNCHANGED <<readfds, listenReady>>
  PROVE  IInv'
<1> USE DEF IInv
<1>1. Table
  BY DEF TableMatchesKernel
<1>2. /\ HostTypeOK' /\ RepliesBounded'
      /\ slotFd' \in [Slots -> Fds \cup {NoFd}] /\ idle' \in [Slots -> 0..IdleTimeout]
  BY RemoveClientsType
<1>3. TypeOK'
  BY <1>2 DEF TypeOK, Places
<1>4. TableMatchesKernel'
  BY <1>1, RemoveClientsTable DEF TableMatchesKernel
<1>5. ReplyIsDue' /\ VisitedIsUsed'
  BY DEF ReplyIsDue, VisitedIsUsed
<1> QED BY <1>2, <1>3, <1>4, <1>5

LEMMA SweepKeeps == IInv /\ Sweep => IInv'
<1> SUFFICES ASSUME IInv, Sweep PROVE IInv'
  OBVIOUS
<1> DEFINE S == {s \in Slots : Used(s) /\ idle[s] >= IdleTimeout}
<1>1. S \in SUBSET Slots /\ RemoveClients(S) /\ pc # "dead" /\ pc' = "accept"
      /\ UNCHANGED <<readfds, listenReady, slot>>
  BY DEF Sweep
<1>2. slot' \in 1..(MaxClients + 1)
  BY <1>1 DEF IInv, TypeOK
<1> HIDE DEF S
<1> QED BY <1>1, <1>2, RemovalKeeps

LEMMA RemoveCurrentKeeps == IInv /\ RemoveCurrent => IInv'
<1> SUFFICES ASSUME IInv, RemoveCurrent PROVE IInv'
  OBVIOUS
<1>1. /\ slot \in Slots /\ pc # "dead" /\ RemoveClients({slot}) /\ slot' = slot + 1
      /\ pc' = "scan" /\ UNCHANGED <<readfds, listenReady>>
  BY DEF IInv, VisitedIsUsed, RemoveCurrent
<1>2. slot' \in 1..(MaxClients + 1) /\ {slot} \in SUBSET Slots
  BY <1>1, NumbersOK DEF Slots
<1> QED BY <1>1, <1>2, RemovalKeeps

LEMMA AcceptClientKeeps ==
  ASSUME NEW c \in Pending, NEW f \in Fds, NEW s \in Slots, IInv, AcceptClient(c, f, s)
  PROVE  IInv'
<1> USE DEF IInv, AcceptClient, ToScan, AcceptOn
<1>0. c \in Conns /\ phase[c] = "queued" /\ owner[f] = Nobody /\ ~Used(s) /\ f # NoFd
  BY NumbersOK DEF Pending, LowestFree
<1>1. TypeOK'
  <2>1. HostTypeOK'
    BY <1>0 DEF TypeOK, HostTypeOK, PeersTypeOK, Phases
  <2> QED BY <2>1, NumbersOK DEF TypeOK, Places
<1>2. Table /\ pc # "dead"
  BY DEF TableMatchesKernel
<1>3. /\ \A t \in Slots : slotFd'[t] = IF t = s THEN f ELSE slotFd[t]
      /\ \A g \in Fds : owner'[g] = IF g = f THEN c ELSE owner[g]
      /\ \A d \in Conns : phase'[d] = IF d = c THEN "open" ELSE phase[d]
  BY DEF TypeOK, HostTypeOK, PeersTypeOK
<1>4. \A t \in Slots : slotFd[t] # f
  BY <1>0, <1>2 DEF Table, FdsInTable
<1>5. \A g \in Fds : owner[g] # c
  BY <1>0, <1>2 DEF Table, OpenHaveFds
<1>6. SlotsDistinct'
  BY <1>2, <1>3, <1>4 DEF Table, SlotsDistinct, Used
<1>7. OwnersDistinct'
  BY <1>2, <1>3, <1>5 DEF Table, OwnersDistinct
<1>8. FdsInTable'
  BY <1>0, <1>2, <1>3, <1>4, NumbersOK DEF Table, FdsInTable, Used
<1>9. OpenHaveFds'
  BY <1>0, <1>2, <1>3, <1>5, NumbersOK DEF Table, OpenHaveFds
<1>10. TableMatchesKernel'
  BY <1>6, <1>7, <1>8, <1>9 DEF TableMatchesKernel, Table
<1>11. RepliesBounded' /\ ReplyIsDue' /\ VisitedIsUsed'
  BY DEF RepliesBounded, ReplyIsDue, VisitedIsUsed
<1> QED BY <1>1, <1>10, <1>11

LEMMA RejectClientKeeps ==
  ASSUME NEW c \in Pending, IInv, RejectClient(c)
  PROVE  IInv'
<1> USE DEF IInv
<1>1. /\ c \in Conns /\ phase[c] = "queued" /\ pc = "accept" /\ pc' = "scan" /\ slot' = 1
      /\ UNCHANGED <<owner, fdLimit, slotFd, readfds, idle, listenReady>>
      /\ Forget({c})
  BY DEF Pending, RejectClient, ToScan, AcceptAndClose
<1>2. /\ PeersTypeOK' /\ RepliesBounded'
      /\ \A d \in Conns : phase'[d] = IF d = c THEN "closed" ELSE phase[d]
  BY <1>1, ForgetFacts DEF TypeOK, HostTypeOK
<1>3. TypeOK'
  BY <1>1, <1>2, NumbersOK DEF TypeOK, HostTypeOK, Places
<1>4. Table
  BY <1>1 DEF TableMatchesKernel
<1>5. OpenHaveFds'
  BY <1>1, <1>2, <1>4 DEF Table, OpenHaveFds
<1>6. TableMatchesKernel'
  BY <1>1, <1>4, <1>5
  DEF TableMatchesKernel, Table, SlotsDistinct, OwnersDistinct, FdsInTable, Used
<1>7. ReplyIsDue' /\ VisitedIsUsed'
  BY <1>1 DEF ReplyIsDue, VisitedIsUsed
<1> QED BY <1>2, <1>3, <1>6, <1>7

LEMMA ReceiveKeeps == IInv /\ Receive => IInv'
<1> SUFFICES ASSUME IInv, Receive PROVE IInv'
  OBVIOUS
<1> USE DEF IInv
<1>1. /\ slot \in Slots /\ Used(slot) /\ pc = "recv" /\ pc' = "reply"
      /\ UNCHANGED <<slotFd, readfds, listenReady, slot>>
      /\ idle' = [idle EXCEPT ![slot] = 0]
  BY DEF Receive, VisitedIsUsed
<1>2. PICK k \in 1..MaxMsgs : RecvBytes(Conn(slot), k)
  BY DEF Receive
<1>3. Table
  BY <1>1 DEF TableMatchesKernel
<1>4. Conn(slot) \in Conns
  BY <1>1, <1>3, UsedSlotHasConn
<1>5. /\ recvd' = [recvd EXCEPT ![Conn(slot)] = @ + k]
      /\ k \in Nat /\ 1 <= k /\ k <= sent[Conn(slot)] - recvd[Conn(slot)]
      /\ UNCHANGED <<phase, sent, replies, taken, fin, rst, owner, fdLimit>>
  BY <1>2, <1>4, NumbersOK DEF RecvBytes, Unread, TypeOK, HostTypeOK, PeersTypeOK
<1>6. recvd' \in [Conns -> 0..MaxMsgs]
  BY <1>4, <1>5, NumbersOK DEF TypeOK, HostTypeOK, PeersTypeOK
<1>7. TypeOK'
  <2>1. HostTypeOK'
    BY <1>5, <1>6 DEF TypeOK, HostTypeOK, PeersTypeOK
  <2> QED BY <1>1, <2>1, NumbersOK DEF TypeOK, Places
<1>8. TableMatchesKernel'
  BY <1>1, <1>3, <1>5
  DEF TableMatchesKernel, Table, SlotsDistinct, OwnersDistinct, FdsInTable, OpenHaveFds, Used
<1>9. RepliesBounded' /\ ReplyIsDue'
  BY <1>1, <1>4, <1>5 DEF RepliesBounded, ReplyIsDue, Conn, TypeOK, HostTypeOK, PeersTypeOK
<1>10. VisitedIsUsed'
  BY <1>1 DEF VisitedIsUsed, Used
<1> QED BY <1>7, <1>8, <1>9, <1>10

LEMMA ReplyKeeps == IInv /\ Reply => IInv'
<1> SUFFICES ASSUME IInv, Reply PROVE IInv'
  OBVIOUS
<1> USE DEF IInv
<1>1. /\ pc = "reply" /\ pc' = "scan" /\ slot \in Slots /\ Used(slot) /\ slot' = slot + 1
      /\ UNCHANGED <<slotFd, readfds, listenReady, idle>>
      /\ SendReply(Conn(slot))
  BY DEF Reply, VisitedIsUsed
<1>2. Table
  BY <1>1 DEF TableMatchesKernel
<1>3. Conn(slot) \in Conns /\ replies[Conn(slot)] < recvd[Conn(slot)]
  BY <1>1, <1>2, UsedSlotHasConn DEF ReplyIsDue
<1>4. /\ replies' = [replies EXCEPT ![Conn(slot)] = @ + 1]
      /\ UNCHANGED <<phase, sent, recvd, taken, fin, rst, owner, fdLimit>>
  BY <1>1 DEF SendReply
<1>5. TypeOK'
  <2>1. replies' \in [Conns -> 0..MaxMsgs]
    BY <1>3, <1>4, NumbersOK DEF TypeOK, HostTypeOK, PeersTypeOK
  <2>2. HostTypeOK'
    BY <1>4, <2>1 DEF TypeOK, HostTypeOK, PeersTypeOK
  <2>3. slot' \in 1..(MaxClients + 1)
    BY <1>1, NumbersOK DEF Slots
  <2> QED BY <1>1, <2>2, <2>3 DEF TypeOK, Places
<1>6. TableMatchesKernel'
  BY <1>1, <1>2, <1>4
  DEF TableMatchesKernel, Table, SlotsDistinct, OwnersDistinct, FdsInTable, OpenHaveFds, Used
<1>7. RepliesBounded' /\ ReplyIsDue' /\ VisitedIsUsed'
  BY <1>1, <1>3, <1>4
  DEF RepliesBounded, ReplyIsDue, VisitedIsUsed, Used, TypeOK, HostTypeOK, PeersTypeOK
<1> QED BY <1>5, <1>6, <1>7

LEMMA ReplyKillsKeeps == IInv /\ ReplyKills => IInv'
<1> SUFFICES ASSUME IInv, ReplyKills PROVE IInv'
  OBVIOUS
<1> USE DEF IInv
<1> DEFINE All == {c \in Conns : phase[c] # "new"}
<1>1. /\ Forget(All) /\ owner' = [f \in Fds |-> Nobody] /\ pc' = "dead"
      /\ UNCHANGED <<fdLimit, slotFd, readfds, listenReady, idle, slot>>
  BY DEF ReplyKills, ProcessExit
<1>2. PeersTypeOK' /\ RepliesBounded'
  <2> HIDE DEF All
  <2> QED BY <1>1, ForgetFacts DEF TypeOK, HostTypeOK
<1>3. TypeOK'
  BY <1>1, <1>2 DEF TypeOK, HostTypeOK, Places
<1>4. TableMatchesKernel' /\ ReplyIsDue' /\ VisitedIsUsed'
  BY <1>1 DEF TableMatchesKernel, ReplyIsDue, VisitedIsUsed
<1> QED BY <1>2, <1>3, <1>4

LEMMA TickKeeps == IInv /\ (Tick \/ UNCHANGED vars) => IInv'
<1> SUFFICES ASSUME IInv, Tick \/ UNCHANGED vars PROVE IInv'
  OBVIOUS
<1> USE DEF IInv
<1>1. UNCHANGED <<hostVars, slotFd, readfds, listenReady, pc, slot>>
  BY DEF Tick, vars
<1>2. idle' \in [Slots -> 0..IdleTimeout]
  BY NumbersOK DEF Tick, vars, TypeOK
<1> USE <1>1 DEF hostVars
<1>3. TypeOK'
  BY <1>2 DEF TypeOK, HostTypeOK, PeersTypeOK
<1>4. TableMatchesKernel'
  BY DEF TableMatchesKernel, Table, SlotsDistinct, OwnersDistinct, FdsInTable, OpenHaveFds, Used
<1>5. RepliesBounded' /\ ReplyIsDue' /\ VisitedIsUsed'
  BY DEF RepliesBounded, ReplyIsDue, VisitedIsUsed, Used, Conn
<1> QED BY <1>3, <1>4, <1>5

(***************************************************************************)
(* A step of a peer keeps the types of the kernel, opens and closes no     *)
(* descriptor, and never takes readability away.                           *)
(***************************************************************************)
LEMMA PeerStep ==
  ASSUME TypeOK, RepliesBounded, NEW c \in Conns, Peer(c)
  PROVE  /\ PeersTypeOK'
         /\ UNCHANGED <<recvd, replies>>
         /\ \A d \in Conns : phase'[d] = "open" <=> phase[d] = "open"
         /\ \A d \in Conns : Readable(d) => Readable(d)'
<1> USE DEF TypeOK, HostTypeOK, PeersTypeOK, Phases, Readable, Unread
<1>1. CASE Connect(c)
  BY <1>1 DEF Connect
<1>2. CASE PeerSend(c)
  <2>1. sent' \in [Conns -> 0..MaxMsgs]
    BY <1>2, NumbersOK DEF PeerSend
  <2> QED BY <1>2, <2>1, NumbersOK DEF PeerSend
<1>3. CASE PeerRead(c)
  BY <1>3 DEF PeerRead
<1>4. CASE PeerClose(c)
  BY <1>4 DEF PeerClose
<1>5. CASE PeerAbort(c)
  BY <1>5 DEF PeerAbort
<1>6. CASE Bounce(c)
  BY <1>6 DEF Bounce
<1> QED BY <1>1, <1>2, <1>3, <1>4, <1>5, <1>6 DEF Peer

LEMMA ClientsKeep == IInv /\ Clients => IInv'
<1> SUFFICES ASSUME IInv, Clients PROVE IInv'
  OBVIOUS
<1> USE DEF IInv, fdVars
<1>1. UNCHANGED <<fdVars, slotFd, readfds, listenReady, idle, pc, slot>>
  BY DEF Clients
<1>2. /\ PeersTypeOK'
      /\ UNCHANGED <<recvd, replies>>
      /\ \A d \in Conns : phase'[d] = "open" <=> phase[d] = "open"
  BY PeerStep DEF Clients
<1>3. TypeOK'
  BY <1>1, <1>2 DEF TypeOK, HostTypeOK
<1>4. TableMatchesKernel'
  BY <1>1, <1>2
  DEF TableMatchesKernel, Table, SlotsDistinct, OwnersDistinct, FdsInTable, OpenHaveFds, Used
<1>5. RepliesBounded' /\ ReplyIsDue' /\ VisitedIsUsed'
  BY <1>1, <1>2 DEF RepliesBounded, ReplyIsDue, VisitedIsUsed, Used, Conn
<1> QED BY <1>3, <1>4, <1>5

-----------------------------------------------------------------------------
LEMMA InitIInv == Init => IInv
<1> SUFFICES ASSUME Init PROVE IInv
  OBVIOUS
<1> USE DEF Init, HostInit, PeersInit
<1>1. TypeOK
  <2>1. 0 \in 0..MaxMsgs /\ 0 \in 0..IdleTimeout /\ 1 \in 1..(MaxClients + 1)
    BY NumbersOK
  <2>2. HostTypeOK
    BY <2>1 DEF HostTypeOK, PeersTypeOK, Phases
  <2>3. /\ slotFd \in [Slots -> Fds \cup {NoFd}] /\ readfds \in SUBSET Fds
        /\ idle \in [Slots -> 0..IdleTimeout]
    BY <2>1
  <2> QED BY <2>1, <2>2, <2>3 DEF TypeOK, Places
<1>2. Table
  BY NumbersOK DEF Table, SlotsDistinct, OwnersDistinct, FdsInTable, OpenHaveFds, Used
<1> QED BY <1>1, <1>2
        DEF IInv, RepliesBounded, ReplyIsDue, VisitedIsUsed, TableMatchesKernel, Used

LEMMA NextIInv == IInv /\ [Next]_vars => IInv'
<1> SUFFICES ASSUME IInv, [Next]_vars PROVE IInv'
  OBVIOUS
<1>1. CASE Server
  <2>1. CASE \E c \in Pending : RejectClient(c)
    BY <2>1, RejectClientKeeps
  <2>2. CASE \E c \in Pending, f \in Fds, s \in Slots : AcceptClient(c, f, s)
    BY <2>2, AcceptClientKeeps
  <2> QED
    BY <1>1, <2>1, <2>2, MovesKeep, SweepKeeps, RemoveCurrentKeeps, ReceiveKeeps,
       ReplyKeeps, ReplyKillsKeeps
    DEF Server
<1> QED BY <1>1, TickKeeps, ClientsKeep DEF Next

LEMMA Invariance == Spec => []IInv
BY InitIInv, NextIInv, PTL DEF Spec

(***************************************************************************)
(* Every variable keeps its type; in particular no counter of the peers    *)
(* passes its bound and idle never passes IdleTimeout.                     *)
(***************************************************************************)
THEOREM TypeCorrect == Spec => []TypeOK
<1>1. IInv => TypeOK
  BY DEF IInv
<1> QED BY <1>1, Invariance, PTL

(***************************************************************************)
(* The slots of select_server.c and the descriptors of the process always    *)
(* agree, so no client is lost or served under another's slot.             *)
(***************************************************************************)
THEOREM TableAgrees == Spec => []TableMatchesKernel
<1>1. IInv => TableMatchesKernel
  BY DEF IInv
<1> QED BY <1>1, Invariance, PTL

-----------------------------------------------------------------------------
\* A scan goes on, and no bit ahead of it becomes stale.
LEMMA NoMoreStale ==
  ASSUME OneStaleBit, {pc, pc'} \subseteq {"scan", "recv", "reply"},
         \A s \in Slots : StaleAhead(s)' => StaleAhead(s)
  PROVE  OneStaleBit'
BY DEF OneStaleBit

\* Steps that leave the table and the bits alone, and take nothing from recv().
LEMMA StaleUndisturbed ==
  ASSUME TypeOK, Table, UNCHANGED <<slotFd, owner, readfds>>,
         \A c \in Conns : Readable(c) => Readable(c)'
  PROVE  \A s \in Slots : Stale(s)' => Stale(s)
<1> SUFFICES ASSUME NEW s \in Slots, Stale(s)' PROVE Stale(s)
  OBVIOUS
<1>1. Used(s) /\ slotFd[s] \in readfds
  BY DEF Stale, Used
<1>2. PICK c \in Conns : c = Conn(s) /\ c = Conn(s)'
  BY <1>1, UsedSlotHasConn DEF Conn
<1>3. ~Readable(c)'
  BY <1>2 DEF Stale, Readable, Unread, Conn
<1> QED BY <1>1, <1>2, <1>3 DEF Stale

\* Removal of slots makes no bit of the others stale.
LEMMA StaleAfterRemoval ==
  ASSUME TypeOK, Table, NEW S \in SUBSET Slots, RemoveClients(S), UNCHANGED readfds
  PROVE  \A s \in Slots : Stale(s)' => Stale(s) /\ s \notin S
<1> SUFFICES ASSUME NEW s \in Slots, Stale(s)' PROVE Stale(s) /\ s \notin S
  OBVIOUS
<1>1. Used(s)'
  BY DEF Stale
<1>2. /\ s \notin S /\ Used(s) /\ slotFd'[s] = slotFd[s]
      /\ Readable(Conn(s))' <=> Readable(Conn(s))
  BY <1>1, RemoveClientsConn
<1> QED BY <1>2 DEF Stale

\* select() reports what is readable.
LEMMA SelectOneStale == IInv /\ Select => OneStaleBit'
<1> SUFFICES ASSUME IInv, Select, NEW s \in Slots, Used(s), slotFd[s] \in readfds'
             PROVE  Readable(Conn(s))
  BY DEF OneStaleBit, Stale, Select, hostVars, Used, Conn, Readable, Unread
<1> QED BY DEF Select, Conn

\* A new client may take a descriptor whose bit is set; a refused one takes none.
LEMMA AcceptOneStale ==
  ASSUME IInv, OneStaleBit, NEW c \in Pending, NEW f \in Fds, NEW s \in Slots,
         AcceptClient(c, f, s)
  PROVE  OneStaleBit'
<1>1. /\ pc = "accept" /\ pc' = "scan" /\ UNCHANGED readfds
      /\ owner[f] = Nobody /\ TypeOK /\ Table
      /\ UNCHANGED <<sent, recvd, fin, rst>>
  BY DEF AcceptClient, AcceptOn, ToScan, LowestFree, IInv, TableMatchesKernel
<1>2. /\ \A t \in Slots : slotFd'[t] = IF t = s THEN f ELSE slotFd[t]
      /\ \A g \in Fds : owner'[g] = IF g = f THEN c ELSE owner[g]
  BY DEF AcceptClient, AcceptOn, IInv, TypeOK, HostTypeOK
<1>3. ASSUME NEW t \in Slots, t # s PROVE ~Stale(t)'
  <2> SUFFICES ASSUME Used(t)', slotFd'[t] \in readfds' PROVE Readable(Conn(t))'
    BY DEF Stale
  <2>1. Used(t) /\ slotFd'[t] = slotFd[t]
    BY <1>2, <1>3 DEF Used
  <2>2. Conn(t)' = Conn(t)
    BY <1>1, <1>2, <2>1, UsedSlotHasConn, NumbersOK DEF Conn
  <2>3. Readable(Conn(t))
    BY <1>1, <2>1 DEF OneStaleBit, Stale
  <2> QED BY <1>1, <2>2, <2>3 DEF Readable, Unread, Conn
<1> QED BY <1>1, <1>3 DEF OneStaleBit, StaleAhead

LEMMA RejectOneStale ==
  ASSUME IInv, OneStaleBit, NEW c \in Pending, RejectClient(c)
  PROVE  OneStaleBit'
<1>1. /\ c \in Conns /\ phase[c] = "queued" /\ pc = "accept" /\ pc' = "scan"
      /\ UNCHANGED <<owner, slotFd, readfds>> /\ Forget({c})
      /\ TypeOK /\ Table /\ PeersTypeOK
  BY DEF Pending, RejectClient, ToScan, AcceptAndClose, IInv, TypeOK, HostTypeOK,
         TableMatchesKernel
<1>2. ASSUME NEW s \in Slots PROVE ~Stale(s)'
  <2> SUFFICES ASSUME Used(s), slotFd[s] \in readfds PROVE Readable(Conn(s))'
    BY <1>1 DEF Stale, Used
  <2>1. PICK d \in Conns \ {c} : d = Conn(s) /\ d = Conn(s)'
    BY <1>1, UsedSlotHasConn DEF Conn, Table, OpenHaveFds
  <2>2. Readable(d)
    BY <1>1, <2>1 DEF OneStaleBit, Stale
  <2>3. /\ sent'[d] = sent[d] /\ recvd'[d] = recvd[d]
        /\ fin'[d] = fin[d] /\ rst'[d] = rst[d]
    BY <1>1, ForgetFacts
  <2> QED BY <2>1, <2>2, <2>3 DEF Readable, Unread, Conn
<1> QED BY <1>1, <1>2 DEF OneStaleBit, StaleAhead

\* A receive is about the one slot that the scan is leaving.
LEMMA ReceiveOneStale == IInv /\ OneStaleBit /\ Receive => OneStaleBit'
<1> SUFFICES ASSUME IInv, OneStaleBit, Receive PROVE OneStaleBit'
  OBVIOUS
<1>1. /\ slot \in Slots /\ Used(slot) /\ pc = "recv" /\ pc' = "reply"
      /\ UNCHANGED <<slotFd, readfds, slot>> /\ TypeOK /\ Table
  BY DEF Receive, IInv, VisitedIsUsed, TableMatchesKernel
<1>2. PICK k \in 1..MaxMsgs : RecvBytes(Conn(slot), k)
  BY DEF Receive
<1>3. /\ recvd' = [recvd EXCEPT ![Conn(slot)] = @ + k]
      /\ UNCHANGED <<sent, fin, rst, owner>>
  BY <1>2 DEF RecvBytes
<1>4. ASSUME NEW s \in Slots, StaleAhead(s)' PROVE StaleAhead(s)
  <2>1. s # slot /\ ToVisit(s) /\ Used(s) /\ slotFd[s] \in readfds /\ Conn(s)' = Conn(s)
    BY <1>1, <1>3, <1>4 DEF StaleAhead, ToVisit, Stale, Used, Conn, Slots
  <2>2. Conn(s) # Conn(slot) /\ Conn(s) \in Conns
    BY <1>1, <2>1, UsedSlotHasConn, NumbersOK DEF Table, SlotsDistinct, OwnersDistinct, Conn
  <2>3. Readable(Conn(s))' <=> Readable(Conn(s))
    BY <1>1, <1>3, <2>1, <2>2 DEF Readable, Unread, TypeOK, HostTypeOK, PeersTypeOK
  <2> QED BY <1>4, <2>1, <2>3 DEF StaleAhead, Stale
<1> QED BY <1>1, <1>4, NoMoreStale

LEMMA RemoveCurrentOneStale == IInv /\ OneStaleBit /\ RemoveCurrent => OneStaleBit'
<1> SUFFICES ASSUME IInv, OneStaleBit, RemoveCurrent PROVE OneStaleBit'
  OBVIOUS
<1>1. /\ slot \in Slots /\ pc \in {"recv", "reply"} /\ pc' = "scan" /\ slot' = slot + 1
      /\ RemoveClients({slot}) /\ UNCHANGED readfds /\ TypeOK /\ Table
  BY DEF RemoveCurrent, IInv, VisitedIsUsed, TableMatchesKernel
<1>2. \A s \in Slots : Stale(s)' => Stale(s)
  <2>1. {slot} \in SUBSET Slots
    BY <1>1
  <2> QED BY <1>1, <2>1, StaleAfterRemoval
<1>3. \A s \in Slots : ToVisit(s)' => ToVisit(s)
  BY <1>1 DEF ToVisit, Slots
<1> QED BY <1>1, <1>2, <1>3, NoMoreStale DEF StaleAhead

LEMMA NextOneStale == IInv /\ OneStaleBit /\ [Next]_vars => OneStaleBit'
<1> SUFFICES ASSUME IInv, OneStaleBit, [Next]_vars PROVE OneStaleBit'
  OBVIOUS
<1> USE DEF hostVars
<1>1. pc # "dead" => TypeOK /\ Table
  BY DEF IInv, TableMatchesKernel
<1>2. CASE Select
  BY <1>2, SelectOneStale
<1>3. CASE Sweep
  <2> DEFINE S == {s \in Slots : Used(s) /\ idle[s] >= IdleTimeout}
  <2>1. /\ pc = "sweep" /\ pc' = "accept" /\ S \in SUBSET Slots
        /\ RemoveClients(S) /\ UNCHANGED readfds
    BY <1>3 DEF Sweep
  <2> HIDE DEF S
  <2>2. \A s \in Slots : Stale(s)' => Stale(s)
    BY <1>1, <2>1, StaleAfterRemoval
  <2> QED BY <2>1, <2>2 DEF OneStaleBit
<1>4. CASE NoConnection
  <2>1. pc = "accept" /\ pc' = "scan" /\ UNCHANGED <<hostVars, slotFd, readfds>>
    BY <1>4 DEF NoConnection, ToScan
  <2>2. \A s \in Slots : ~Stale(s)'
    BY <2>1 DEF OneStaleBit, Stale, Used, Conn, Readable, Unread
  <2> QED BY <2>1, <2>2 DEF OneStaleBit, StaleAhead
<1>5. CASE AcceptFails \/ EndScan \/ ReplyKills
  BY <1>5 DEF AcceptFails, EndScan, ReplyKills, OneStaleBit
<1>6. ASSUME NEW c \in Pending, RejectClient(c) PROVE OneStaleBit'
  BY <1>6, RejectOneStale
<1>7. ASSUME NEW c \in Pending, NEW f \in Fds, NEW s \in Slots, AcceptClient(c, f, s)
      PROVE  OneStaleBit'
  BY <1>7, AcceptOneStale
<1>8. CASE SkipSlot \/ StartRecv \/ Reply
  <2>1. /\ {pc, pc'} \subseteq {"scan", "recv", "reply"} /\ slot \in Slots
        /\ UNCHANGED <<slotFd, owner, readfds, sent, recvd, fin, rst>>
    BY <1>8 DEF SkipSlot, StartRecv, Reply, Scanning, SendReply, IInv, VisitedIsUsed
  <2>2. \A s \in Slots : Stale(s)' => Stale(s)
    BY <2>1 DEF Stale, Used, Conn, Readable, Unread
  <2>3. \A s \in Slots : ToVisit(s)' => ToVisit(s)
    BY <1>8, <2>1 DEF SkipSlot, StartRecv, Reply, Scanning, ToVisit, Slots
  <2> QED BY <2>1, <2>2, <2>3, NoMoreStale DEF StaleAhead
<1>9. CASE Receive
  BY <1>9, ReceiveOneStale
<1>10. CASE RemoveCurrent
  BY <1>10, RemoveCurrentOneStale
<1>11. CASE (pc # "dead" /\ (Tick \/ Clients)) \/ UNCHANGED vars
  <2>1. UNCHANGED <<slotFd, owner, readfds, pc, slot>>
    BY <1>11 DEF Tick, Clients, vars, fdVars
  <2>2. pc # "dead" => \A c \in Conns : Readable(c) => Readable(c)'
    <3>1. CASE Tick \/ UNCHANGED vars
      BY <3>1 DEF Tick, vars, Readable, Unread
    <3>2. CASE Clients
      BY <3>2, PeerStep DEF Clients, IInv
    <3> QED BY <1>11, <3>1, <3>2
  <2>3. pc # "dead" => \A s \in Slots : Stale(s)' => Stale(s)
    BY <1>1, <2>1, <2>2, StaleUndisturbed
  <2>4. \A s \in Slots : ToVisit(s)' <=> ToVisit(s)
    BY <2>1 DEF ToVisit
  <2> QED BY <2>1, <2>3, <2>4 DEF OneStaleBit, StaleAhead
<1> QED BY <1>2, <1>3, <1>4, <1>5, <1>6, <1>7, <1>8, <1>9, <1>10, <1>11 DEF Next, Server

(***************************************************************************)
(* In every turn at most one set bit is stale when its slot comes up, that *)
(* of the client accepted in the turn: so much of a turn can wait in       *)
(* recv() (line 213) for a client that select() did not report.            *)
(***************************************************************************)
THEOREM StaleAtMostOnce == Spec => []OneStaleBit
<1>1. Init => OneStaleBit
  BY DEF Init, OneStaleBit
<1> QED BY <1>1, InitIInv, NextIInv, NextOneStale, PTL DEF Spec

-----------------------------------------------------------------------------
(***************************************************************************)
(* How many connections are served, and for how long each has been quiet.  *)
(***************************************************************************)
\* The abstract specification counts as this module does.
LEMMA SameCardinality == \A S : Service!Cardinality(S) = Cardinality(S)
BY DEF Cardinality, Service!Cardinality

\* Two sets that correspond one to one have the same size.
LEMMA SameSize ==
  ASSUME NEW S, NEW T, IsFiniteSet(S), NEW F \in [S -> T],
         \A a, b \in S : F[a] = F[b] => a = b,
         \A t \in T : \E s \in S : F[s] = t
  PROVE  IsFiniteSet(T) /\ Cardinality(T) = Cardinality(S)
<1>1. F \in Bijection(S, T)
  BY Fun_IsBij
<1>2. ExistsBijection(S, T)
  BY <1>1, Fun_ExistsBij
<1> QED BY <1>2, FS_Bijection

Serving == Service!Serving
UsedSlots == {s \in Slots : Used(s)}

\* Slots and connections in service correspond one to one.
LEMMA ServedHaveSlot ==
  ASSUME TypeOK, Table
  PROVE  /\ \A s \in UsedSlots : Conn(s) \in Serving
         /\ \A s, t \in UsedSlots : Conn(s) = Conn(t) => s = t
         /\ \A c \in Serving : \E s \in UsedSlots : Conn(s) = c
<1> USE DEF UsedSlots, Serving, Service!Serving, Table
<1>1. ASSUME NEW s \in UsedSlots PROVE Conn(s) \in Serving
  <2>1. slotFd[s] \in Fds /\ Conn(s) \in Conns
    BY UsedSlotHasConn
  <2> QED BY <2>1 DEF OpenHaveFds, Conn
<1>2. ASSUME NEW s \in UsedSlots, NEW t \in UsedSlots, Conn(s) = Conn(t) PROVE s = t
  <2>1. slotFd[s] \in Fds /\ slotFd[t] \in Fds /\ Conn(s) \in Conns
    BY UsedSlotHasConn
  <2>2. slotFd[s] = slotFd[t]
    BY <1>2, <2>1, NumbersOK DEF OwnersDistinct, Conn
  <2> QED BY <2>2 DEF SlotsDistinct
<1>3. ASSUME NEW c \in Serving PROVE \E s \in UsedSlots : Conn(s) = c
  <2>1. PICK f \in Fds : owner[f] = c
    BY DEF OpenHaveFds
  <2>2. PICK s \in Slots : slotFd[s] = f
    BY <2>1, NumbersOK DEF FdsInTable
  <2> QED BY <2>1, <2>2, NumbersOK DEF Used, Conn
<1> QED BY <1>1, <1>2, <1>3

LEMMA CountBySlots ==
  ASSUME TypeOK, Table
  PROVE  /\ Cardinality(Serving) \in Nat /\ Cardinality(Serving) <= MaxClients
         /\ (\E s \in Slots : ~Used(s)) => Cardinality(Serving) # MaxClients
         /\ (\A s \in Slots : Used(s)) => Cardinality(Serving) = MaxClients
<1>1. IsFiniteSet(Slots) /\ Cardinality(Slots) = MaxClients
  BY NumbersOK, FS_Interval DEF Slots
<1>2. UsedSlots \in SUBSET Slots
  BY DEF UsedSlots
<1>3. /\ IsFiniteSet(UsedSlots)
      /\ Cardinality(UsedSlots) <= Cardinality(Slots)
      /\ Cardinality(Slots) = Cardinality(UsedSlots) => Slots = UsedSlots
  BY <1>1, <1>2, FS_Subset
<1>4. IsFiniteSet(Serving) /\ Cardinality(Serving) = Cardinality(UsedSlots)
  <2> DEFINE G == [s \in UsedSlots |-> Conn(s)]
  <2>1. G \in [UsedSlots -> Serving]
    BY ServedHaveSlot
  <2>2. \A s, t \in UsedSlots : G[s] = G[t] => s = t
    BY ServedHaveSlot
  <2>3. \A c \in Serving : \E s \in UsedSlots : G[s] = c
    BY ServedHaveSlot
  <2> HIDE DEF G
  <2> QED BY <1>3, <2>1, <2>2, <2>3, SameSize
<1>5. (\A s \in Slots : Used(s)) <=> Slots = UsedSlots
  BY DEF UsedSlots
<1> QED BY <1>1, <1>3, <1>4, <1>5, FS_CardinalityType

(***************************************************************************)
(* The quiet time of connection c, as the refinement mapping has it, in a  *)
(* state where the table is fd, the owners are own and the ages ages.      *)
(***************************************************************************)
QuietIn(fd, own, ages, c) ==
  IF \E s \in Slots : fd[s] # NoFd /\ own[fd[s]] = c
    THEN ages[CHOOSE s \in Slots : fd[s] # NoFd /\ own[fd[s]] = c]
    ELSE 0

LEMMA QuietIs ==
  ASSUME NEW c
  PROVE  /\ QuietOf(c) = QuietIn(slotFd, owner, idle, c)
         /\ QuietOf(c)' = QuietIn(slotFd', owner', idle', c)
BY DEF QuietOf, QuietIn, Used, Conn

\* It is the age of the one slot that the connection has.
LEMMA QuietOfSlot ==
  ASSUME NEW fd, NEW own, NEW ages, NEW c, NEW s \in Slots,
         fd[s] # NoFd, own[fd[s]] = c,
         \A t \in Slots : fd[t] # NoFd /\ own[fd[t]] = c => t = s
  PROVE  QuietIn(fd, own, ages, c) = ages[s]
<1>1. (CHOOSE t \in Slots : fd[t] # NoFd /\ own[fd[t]] = c) = s
  OBVIOUS
<1> QED BY <1>1 DEF QuietIn

LEMMA QuietOfNone ==
  ASSUME NEW fd, NEW own, NEW ages, NEW c,
         \A t \in Slots : ~(fd[t] # NoFd /\ own[fd[t]] = c)
  PROVE  QuietIn(fd, own, ages, c) = 0
BY DEF QuietIn

\* The same for the server's own table, in this state and in the next.
QuietIsAge ==
  /\ \A s \in Slots, c \in Conns : Used(s) /\ Conn(s) = c => QuietOf(c) = idle[s]
  /\ \A c \in Conns : phase[c] # "open" => QuietOf(c) = 0

LEMMA QuietFacts == TypeOK /\ Table => QuietIsAge
<1> SUFFICES ASSUME TypeOK, Table PROVE QuietIsAge
  OBVIOUS
<1>1. ASSUME NEW s \in Slots, NEW c \in Conns, Used(s), Conn(s) = c
      PROVE  QuietOf(c) = idle[s]
  <2>1. \A t \in Slots : slotFd[t] # NoFd /\ owner[slotFd[t]] = c => t = s
    BY <1>1, ServedHaveSlot DEF UsedSlots, Used, Conn
  <2>2. slotFd[s] # NoFd /\ owner[slotFd[s]] = c
    BY <1>1 DEF Used, Conn
  <2> QED BY <2>1, <2>2, QuietOfSlot, QuietIs
<1>2. ASSUME NEW c \in Conns, phase[c] # "open" PROVE QuietOf(c) = 0
  <2>1. \A t \in Slots : ~(slotFd[t] # NoFd /\ owner[slotFd[t]] = c)
    BY <1>2, ServedHaveSlot DEF UsedSlots, Used, Conn, Serving, Service!Serving
  <2> QED BY <2>1, QuietOfNone, QuietIs
<1> QED BY <1>1, <1>2 DEF QuietIsAge

LEMMA QuietFactsThen == TypeOK' /\ Table' => QuietIsAge'
BY QuietFacts, PTL

\* Steps that move no connection between slots and change no age.
LEMMA QuietUndisturbed ==
  ASSUME UNCHANGED <<slotFd, owner, idle>>
  PROVE  \A c \in Conns : QuietOf(c)' = QuietOf(c)
BY QuietIs

\* What removal of the slots S does, seen by EventService.
LEMMA RemovalRefines ==
  ASSUME TypeOK, Table, NEW S \in SUBSET UsedSlots, RemoveClients(S)
  PROVE  LET D == {Conn(s) : s \in S} IN
         /\ D \subseteq Serving /\ Forget(D)
         /\ \A c \in Conns : QuietOf(c)' = IF c \in D THEN 0 ELSE QuietOf(c)
<1> DEFINE D == {Conn(s) : s \in S}
           F == {slotFd[s] : s \in S}
<1>1. D \subseteq Serving /\ Serving \subseteq Conns
  BY ServedHaveSlot DEF Serving, Service!Serving
<1>2. F \subseteq Fds
  BY UsedSlotHasConn DEF UsedSlots
<1>3. {c \in Conns : \E f \in F \cap Fds : owner[f] = c} = D
  BY <1>1, <1>2 DEF Conn
<1>4. Forget(D)
  BY <1>3 DEF RemoveClients, CloseFds
<1>5. /\ \A s \in Slots : slotFd'[s] = IF s \in S THEN NoFd ELSE slotFd[s]
      /\ \A s \in Slots : idle'[s] = IF s \in S THEN 0 ELSE idle[s]
      /\ \A f \in Fds : owner'[f] = IF f \in F THEN Nobody ELSE owner[f]
  BY DEF RemoveClients, CloseFds
<1>6. \A s \in Slots \ S : Used(s) => slotFd[s] \in Fds \ F
  BY UsedSlotHasConn DEF Table, SlotsDistinct, UsedSlots, Used
<1>7. ASSUME NEW t \in Slots, slotFd'[t] # NoFd
      PROVE  t \notin S /\ Used(t) /\ owner'[slotFd'[t]] = Conn(t)
  BY <1>5, <1>6, <1>7 DEF Used, Conn
<1>8. ASSUME NEW c \in Conns
      PROVE  QuietOf(c)' = IF c \in D THEN 0 ELSE QuietOf(c)
  <2>1. CASE c \in D \/ c \notin Serving
    <3>1. \A t \in Slots : ~(slotFd'[t] # NoFd /\ owner'[slotFd'[t]] = c)
      BY <1>7, <2>1, ServedHaveSlot DEF UsedSlots
    <3>2. QuietOf(c)' = 0
      BY <3>1, QuietOfNone, QuietIs
    <3>3. c \notin Serving => QuietOf(c) = 0
      BY QuietFacts DEF QuietIsAge, Serving, Service!Serving
    <3> QED BY <2>1, <3>2, <3>3
  <2>2. CASE c \notin D /\ c \in Serving
    <3>1. PICK s \in UsedSlots : Conn(s) = c
      BY <2>2, ServedHaveSlot
    <3>2. s \in Slots /\ s \notin S /\ Used(s)
      BY <2>2, <3>1 DEF UsedSlots
    <3>3. slotFd'[s] # NoFd /\ owner'[slotFd'[s]] = c /\ idle'[s] = idle[s]
      BY <1>5, <1>6, <3>1, <3>2 DEF Used, Conn
    <3>4. \A t \in Slots : slotFd'[t] # NoFd /\ owner'[slotFd'[t]] = c => t = s
      BY <1>7, <3>1, ServedHaveSlot DEF UsedSlots
    <3>5. QuietOf(c)' = idle'[s]
      BY <3>2, <3>3, <3>4, QuietOfSlot, QuietIs
    <3>6. QuietOf(c) = idle[s]
      BY <1>8, <3>1, <3>2, QuietFacts DEF QuietIsAge
    <3> QED BY <2>2, <3>3, <3>5, <3>6
  <2> QED BY <2>1, <2>2
<1> QED BY <1>1, <1>4, <1>8

-----------------------------------------------------------------------------
(***************************************************************************)
(* Each action of the loop is one action of EventService, or changes       *)
(* nothing that EventService speaks of.                                    *)
(***************************************************************************)
LEMMA InitRefines == Init => Service!Init
<1> SUFFICES ASSUME Init PROVE Service!Init
  OBVIOUS
<1> USE DEF Init, HostInit
<1>1. Service!PeersInit
  BY DEF PeersInit, Service!PeersInit
<1>2. \A c \in Conns : QuietOf(c) = 0
  BY QuietOfNone, QuietIs
<1> QED BY <1>1, <1>2, NumbersOK DEF Service!Init

\* Connections that are forgotten together leave the service together.
LEMMA LeaveRefines ==
  ASSUME NEW D \in SUBSET Conns, Forget(D), pc # "dead", pc' \notin {"reply", "dead"},
         \A c \in Conns : QuietOf(c)' = IF c \in D THEN 0 ELSE QuietOf(c)
  PROVE  Service!Leave(D)
<1>1. Service!Forget(D)
  BY DEF Forget, Service!Forget
<1> QED BY <1>1 DEF Service!Leave

LEMMA SweepRefines == ASSUME IInv, Sweep PROVE Service!Next
<1> DEFINE S == {s \in Slots : Used(s) /\ idle[s] >= IdleTimeout}
           D == {Conn(s) : s \in S}
<1>1. /\ TypeOK /\ Table /\ S \in SUBSET UsedSlots /\ RemoveClients(S)
      /\ pc = "sweep" /\ pc' = "accept"
  BY DEF IInv, TableMatchesKernel, Sweep, UsedSlots
<1>2. \A s \in S : Conn(s) \in Serving /\ QuietOf(Conn(s)) >= IdleTimeout
  <2> SUFFICES ASSUME NEW s \in S PROVE Conn(s) \in Serving /\ QuietOf(Conn(s)) >= IdleTimeout
    OBVIOUS
  <2>1. PICK c \in Conns : c = Conn(s) /\ c \in Serving
    BY <1>1, ServedHaveSlot DEF Serving, Service!Serving
  <2>2. QuietOf(c) = idle[s]
    BY <1>1, <2>1, QuietFacts DEF QuietIsAge
  <2> QED BY <2>1, <2>2
<1>3. D \in SUBSET {c \in Serving : QuietOf(c) >= IdleTimeout}
  BY <1>2
<1>4. D \in SUBSET Conns
  BY <1>3 DEF Serving, Service!Serving
<1> HIDE DEF S
<1>5. /\ Forget(D)
      /\ \A c \in Conns : QuietOf(c)' = IF c \in D THEN 0 ELSE QuietOf(c)
  BY <1>1, RemovalRefines
<1> HIDE DEF D
<1>6. Service!Leave(D)
  BY <1>1, <1>4, <1>5, LeaveRefines
<1>7. D \in SUBSET {c \in Service!Serving : [d \in Conns |-> QuietOf(d)][c] >= IdleTimeout}
  BY <1>3, <1>4 DEF Serving
<1>8. Service!DropQuiet
  BY <1>1, <1>6, <1>7 DEF Service!DropQuiet
<1> QED BY <1>1, <1>8 DEF Service!Next

LEMMA AcceptRefines ==
  ASSUME IInv, IInv', NEW c \in Pending, NEW f \in Fds, NEW s \in Slots, AcceptClient(c, f, s)
  PROVE  Service!Next
<1> USE DEF IInv
<1>1. /\ c \in Conns /\ phase[c] = "queued" /\ pc = "accept" /\ pc' = "scan"
      /\ owner[f] = Nobody /\ ~Used(s)
  BY DEF Pending, AcceptClient, ToScan, LowestFree
<1>2. /\ \A t \in Slots : slotFd'[t] = IF t = s THEN f ELSE slotFd[t]
      /\ \A t \in Slots : idle'[t] = IF t = s THEN 0 ELSE idle[t]
      /\ \A g \in Fds : owner'[g] = IF g = f THEN c ELSE owner[g]
      /\ \A d \in Conns : phase'[d] = IF d = c THEN "open" ELSE phase[d]
  BY DEF AcceptClient, AcceptOn, TypeOK, HostTypeOK, PeersTypeOK
<1>3. Table /\ Table' /\ QuietIsAge /\ QuietIsAge'
  BY <1>1, QuietFacts, QuietFactsThen DEF TableMatchesKernel
<1>4. \A d \in Conns : QuietOf(d)' = IF d = c THEN 0 ELSE QuietOf(d)
  <2> SUFFICES ASSUME NEW d \in Conns PROVE QuietOf(d)' = IF d = c THEN 0 ELSE QuietOf(d)
    OBVIOUS
  <2>1. CASE d = c
    <3>1. Used(s)' /\ Conn(s)' = d
      BY <1>2, <2>1, NumbersOK DEF Used, Conn
    <3> QED BY <1>2, <1>3, <2>1, <3>1 DEF QuietIsAge
  <2>2. CASE d # c /\ phase[d] # "open"
    BY <1>2, <1>3, <2>2 DEF QuietIsAge
  <2>3. CASE d # c /\ phase[d] = "open"
    <3>1. PICK t \in UsedSlots : Conn(t) = d
      BY <1>3, <2>3, ServedHaveSlot DEF Serving, Service!Serving
    <3>2. t \in Slots /\ t # s /\ Used(t) /\ slotFd[t] \in Fds /\ slotFd[t] # f
      BY <1>1, <1>3, <3>1, UsedSlotHasConn, NumbersOK DEF UsedSlots, Conn
    <3>3. Used(t)' /\ Conn(t)' = d /\ idle'[t] = idle[t]
      BY <1>2, <3>1, <3>2 DEF Used, Conn
    <3> QED BY <1>3, <2>3, <3>1, <3>2, <3>3 DEF QuietIsAge
  <2> QED BY <2>1, <2>2, <2>3
<1>5. Service!Cardinality(Service!Serving) < MaxClients
  BY <1>1, <1>3, CountBySlots, SameCardinality, NumbersOK DEF Serving
<1>6. Service!Admit(c)
  BY <1>1, <1>4, <1>5 DEF AcceptClient, AcceptOn, Service!Admit
<1> QED BY <1>1, <1>6 DEF Service!Next

LEMMA RejectRefines ==
  ASSUME IInv, NEW c \in Pending, RejectClient(c)
  PROVE  Service!Next
<1>1. /\ c \in Conns /\ phase[c] = "queued" /\ pc = "accept" /\ pc' = "scan"
      /\ Forget({c}) /\ UNCHANGED <<slotFd, owner, idle>>
  BY DEF Pending, RejectClient, ToScan, AcceptAndClose
<1>2. TypeOK /\ Table /\ QuietIsAge
  BY <1>1, QuietFacts DEF IInv, TableMatchesKernel
<1>3. \A d \in Conns : QuietOf(d)' = IF d \in {c} THEN 0 ELSE QuietOf(d)
  BY <1>1, <1>2, QuietUndisturbed DEF QuietIsAge
<1>4. Service!Leave({c})
  BY <1>1, <1>3, LeaveRefines
<1>5. \A s \in Slots : Used(s)
  BY DEF RejectClient
<1>6. Service!Cardinality(Service!Serving) = MaxClients
  BY <1>2, <1>5, CountBySlots, SameCardinality DEF Serving
<1>7. Service!Refuse(c)
  BY <1>1, <1>4, <1>6 DEF Service!Refuse
<1> QED BY <1>1, <1>7 DEF Service!Next

\* The connection of the visited slot leaves: it has ended, or was reset.
LEMMA RemoveCurrentRefines == ASSUME IInv, RemoveCurrent PROVE Service!Next
<1>1. /\ slot \in Slots /\ Used(slot) /\ pc \in {"recv", "reply"} /\ pc' = "scan"
      /\ TypeOK /\ Table /\ RemoveClients({slot})
  BY DEF IInv, TableMatchesKernel, VisitedIsUsed, RemoveCurrent
<1>2. PICK c \in Conns : c = Conn(slot) /\ phase[c] = "open"
  BY <1>1, ServedHaveSlot DEF UsedSlots, Serving, Service!Serving
<1>3. Forget({c}) /\ \A d \in Conns : QuietOf(d)' = IF d \in {c} THEN 0 ELSE QuietOf(d)
  <2>1. {slot} \in SUBSET UsedSlots
    BY <1>1 DEF UsedSlots
  <2>2. {Conn(s) : s \in {slot}} = {c}
    BY <1>2
  <2> QED BY <1>1, <2>1, <2>2, RemovalRefines
<1>4. Service!Leave({c})
  BY <1>1, <1>3, LeaveRefines
<1>5. rst[c] \/ (fin[c] /\ Unread(c) = 0)
  BY <1>2 DEF RemoveCurrent, RecvEnds, SendFails
<1>6. Service!DropEnded(c)
  BY <1>1, <1>2, <1>4, <1>5 DEF Service!DropEnded, Unread, Service!Unread
<1> QED BY <1>1, <1>6 DEF Service!Next

LEMMA ReceiveRefines == ASSUME IInv, IInv', Receive PROVE Service!Next
<1> USE DEF IInv
<1>1. /\ slot \in Slots /\ Used(slot) /\ pc = "recv" /\ pc' = "reply"
      /\ UNCHANGED <<slotFd, slot>>
      /\ idle' = [idle EXCEPT ![slot] = 0]
  BY DEF Receive, VisitedIsUsed
<1>2. Table /\ Table' /\ QuietIsAge /\ QuietIsAge'
  BY <1>1, QuietFacts, QuietFactsThen DEF TableMatchesKernel
<1>3. PICK c \in Conns : c = Conn(slot) /\ phase[c] = "open"
  BY <1>1, <1>2, ServedHaveSlot DEF UsedSlots, Serving, Service!Serving
<1>4. PICK k \in 1..MaxMsgs : RecvBytes(c, k)
  BY <1>3 DEF Receive
<1>5. /\ UNCHANGED <<owner, phase>> /\ Conn(slot)' = c
  BY <1>1, <1>3, <1>4 DEF RecvBytes, Conn
<1>6. \A s \in Slots : idle'[s] = IF s = slot THEN 0 ELSE idle[s]
  BY <1>1 DEF TypeOK
<1>7. \A d \in Conns : QuietOf(d)' = IF d = c THEN 0 ELSE QuietOf(d)
  <2> SUFFICES ASSUME NEW d \in Conns PROVE QuietOf(d)' = IF d = c THEN 0 ELSE QuietOf(d)
    OBVIOUS
  <2>1. CASE d = c
    BY <1>1, <1>2, <1>5, <1>6, <2>1 DEF QuietIsAge, Used
  <2>2. CASE d # c /\ phase[d] # "open"
    BY <1>2, <1>5, <2>2 DEF QuietIsAge
  <2>3. CASE d # c /\ phase[d] = "open"
    <3>1. PICK t \in UsedSlots : Conn(t) = d
      BY <1>2, <2>3, ServedHaveSlot DEF Serving, Service!Serving
    <3>2. t \in Slots /\ t # slot /\ Used(t)
      BY <1>3, <2>3, <3>1 DEF UsedSlots
    <3>3. Used(t)' /\ Conn(t)' = d /\ idle'[t] = idle[t]
      BY <1>1, <1>5, <1>6, <3>1, <3>2 DEF Used, Conn
    <3> QED BY <1>2, <2>3, <3>1, <3>2, <3>3 DEF QuietIsAge
  <2> QED BY <2>1, <2>2, <2>3
<1>8. Service!Take(c)
  BY <1>1, <1>3, <1>4, <1>5, <1>7 DEF RecvBytes, Unread, Service!Take, Service!Unread
<1> QED BY <1>1, <1>8 DEF Service!Next

LEMMA ReplyRefines == ASSUME IInv, Reply PROVE Service!Next
<1>1. /\ pc = "reply" /\ pc' = "scan" /\ slot \in Slots /\ Used(slot)
      /\ UNCHANGED <<slotFd, idle>>
  BY DEF Reply, IInv, VisitedIsUsed
<1>2. PICK c \in Conns : c = Conn(slot)
  BY <1>1, UsedSlotHasConn DEF IInv, TableMatchesKernel
<1>3. SendReply(c) /\ UNCHANGED owner
  BY <1>2 DEF Reply, SendReply
<1>4. \A d \in Conns : QuietOf(d)' = QuietOf(d)
  BY <1>1, <1>3, QuietUndisturbed
<1>5. Service!Answer(c)
  BY <1>1, <1>2, <1>3, <1>4 DEF SendReply, Service!Answer
<1> QED BY <1>1, <1>5 DEF Service!Next

LEMMA ReplyKillsRefines == ASSUME IInv, ReplyKills PROVE Service!Next
<1>1. /\ pc = "reply" /\ pc' = "dead" /\ slot \in Slots /\ Used(slot) /\ TypeOK /\ Table
      /\ UNCHANGED slotFd
      /\ Forget({c \in Conns : phase[c] # "new"}) /\ owner' = [f \in Fds |-> Nobody]
  BY DEF ReplyKills, ProcessExit, IInv, VisitedIsUsed, TableMatchesKernel
<1>2. PICK c \in Conns : c = Conn(slot) /\ c \in Service!Serving
  BY <1>1, ServedHaveSlot DEF UsedSlots, Serving, Service!Serving
<1>3. rst[c] /\ fin[c]
  BY <1>2 DEF ReplyKills, SendRaisesSigpipe
<1>4. \A d \in Conns : QuietOf(d)' = 0
  <2> SUFFICES ASSUME NEW d \in Conns PROVE QuietOf(d)' = 0
    OBVIOUS
  <2>1. \A s \in Slots : ~(slotFd'[s] # NoFd /\ owner'[slotFd'[s]] = d)
    BY <1>1, NumbersOK DEF TypeOK
  <2> QED BY <2>1, QuietOfNone, QuietIs
<1>5. Service!Forget({d \in Conns : phase[d] # "new"})
  BY <1>1 DEF Forget, Service!Forget
<1>6. Service!Crash
  BY <1>1, <1>2, <1>3, <1>4, <1>5 DEF Service!Crash
<1> QED BY <1>1, <1>6 DEF Service!Next

\* A tick ages every served connection at once.
LEMMA TickRefines == ASSUME IInv, IInv', pc # "dead", Tick PROVE Service!Next
<1> USE DEF IInv
<1>1. UNCHANGED <<hostVars, slotFd, pc, slot>>
  BY DEF Tick
<1>2. Table /\ Table' /\ QuietIsAge /\ QuietIsAge'
  BY <1>1, QuietFacts, QuietFactsThen DEF TableMatchesKernel
<1>3. ASSUME NEW c \in Conns
      PROVE  QuietOf(c)' = IF c \in Serving /\ QuietOf(c) < IdleTimeout
                             THEN QuietOf(c) + 1 ELSE QuietOf(c)
  <2>1. CASE c \notin Serving
    BY <1>1, <1>2, <2>1 DEF QuietIsAge, hostVars, Serving, Service!Serving
  <2>2. CASE c \in Serving
    <3>1. PICK s \in UsedSlots : Conn(s) = c
      BY <1>2, <2>2, ServedHaveSlot
    <3>2. s \in Slots /\ Used(s) /\ Used(s)' /\ Conn(s)' = c
      BY <1>1, <3>1 DEF UsedSlots, Used, Conn, hostVars
    <3>3. QuietOf(c) = idle[s] /\ QuietOf(c)' = idle'[s]
      BY <1>2, <3>1, <3>2 DEF QuietIsAge
    <3>4. idle'[s] = IF idle[s] < IdleTimeout THEN idle[s] + 1 ELSE idle[s]
      BY <3>2 DEF Tick
    <3> QED BY <2>2, <3>3, <3>4
  <2> QED BY <2>1, <2>2
<1>4. Service!Elapse
  BY <1>1, <1>3 DEF Service!Elapse, hostVars, Serving, Conn
<1> QED BY <1>1, <1>4 DEF Service!Next

\* A step of a far end is the same step of EventService.
LEMMA ClientsRefine == ASSUME pc # "dead", Clients PROVE Service!Next
<1>1. PICK c \in Conns : Peer(c)
  BY DEF Clients
<1>2. UNCHANGED <<owner, slotFd, idle, pc, slot>>
  BY DEF Clients, fdVars
<1>3. Service!Peer(c)
  <2> USE DEF Service!Peer, Service!Alive, Service!Unanswered, Alive, Unanswered
  <2>1. CASE Connect(c)
    BY <2>1 DEF Connect, Service!Connect
  <2>2. CASE PeerSend(c)
    BY <2>2 DEF PeerSend, Service!PeerSend
  <2>3. CASE PeerRead(c)
    BY <2>3 DEF PeerRead, Service!PeerRead
  <2>4. CASE PeerClose(c)
    BY <2>4 DEF PeerClose, Service!PeerClose
  <2>5. CASE PeerAbort(c)
    BY <2>5 DEF PeerAbort, Service!PeerAbort
  <2>6. CASE Bounce(c)
    BY <2>6 DEF Bounce, Service!Bounce
  <2> QED BY <1>1, <2>1, <2>2, <2>3, <2>4, <2>5, <2>6 DEF Peer
<1>4. Conn(slot)' = Conn(slot) /\ \A d \in Conns : QuietOf(d)' = QuietOf(d)
  BY <1>2, QuietUndisturbed DEF Conn
<1> QED BY <1>2, <1>3, <1>4 DEF Service!Next

\* The other steps of the loop change nothing that EventService speaks of.
LEMMA OthersStutter ==
  ASSUME \/ Select \/ NoConnection \/ AcceptFails \/ SkipSlot \/ StartRecv \/ EndScan
         \/ UNCHANGED vars
  PROVE  UNCHANGED Service!serviceVars
<1>1. /\ UNCHANGED <<hostVars, slotFd, idle>>
      /\ \/ pc \notin {"reply", "dead"} /\ pc' \notin {"reply", "dead"}
         \/ UNCHANGED <<pc, slot>>
  BY DEF Select, NoConnection, ToScan, AcceptFails, SkipSlot, StartRecv, Scanning, EndScan, vars
<1>2. \A c \in Conns : QuietOf(c)' = QuietOf(c)
  BY <1>1, QuietUndisturbed DEF hostVars
<1> QED BY <1>1, <1>2 DEF hostVars, Service!serviceVars, Conn

LEMMA NextRefines == IInv /\ IInv' /\ [Next]_vars => [Service!Next]_Service!serviceVars
<1> SUFFICES ASSUME IInv, IInv', [Next]_vars
             PROVE  [Service!Next]_Service!serviceVars
  OBVIOUS
<1>1. CASE Server
  <2>1. CASE \E c \in Pending : RejectClient(c)
    BY <2>1, RejectRefines
  <2>2. CASE \E c \in Pending, f \in Fds, s \in Slots : AcceptClient(c, f, s)
    BY <2>2, AcceptRefines
  <2> QED BY <1>1, <2>1, <2>2, SweepRefines, RemoveCurrentRefines, ReceiveRefines,
             ReplyRefines, ReplyKillsRefines, OthersStutter
      DEF Server
<1> QED BY <1>1, TickRefines, ClientsRefine, OthersStutter DEF Next

(***************************************************************************)
(* select_server.c keeps the promises of EventService in their stronger    *)
(* form, without any statement that its bits are fresh: a stale bit leads  *)
(* to a recv(), and a client is dropped only when it was quiet for         *)
(* IdleTimeout, was reset or has ended.                                    *)
(***************************************************************************)
THEOREM ServesAsPromised == Spec => RefinesService
BY InitRefines, NextRefines, InitIInv, NextIInv, PTL DEF Spec, RefinesService, Service!Spec

=============================================================================
