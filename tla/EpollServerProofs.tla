-------------------------- MODULE EpollServerProofs --------------------------
(***************************************************************************)
(* Type correctness of EpollServer, the agreement of its table with the    *)
(* kernel and with the epoll set, and that it implements EventService with *)
(* the promise on closing that stale events leave, for every number of     *)
(* connections, descriptors, slots, events of a batch and watches.         *)
(***************************************************************************)
EXTENDS EpollServer, FiniteSetTheorems, FunctionTheorems, WellFoundedInduction, TLAPS

(***************************************************************************)
(* Replies never outnumber receives; while one is due there is one to give.*)
(***************************************************************************)
RepliesBounded == \A c \in Conns : replies[c] <= recvd[c]
ReplyIsDue == pc = "reply" => replies[Conn(slot)] < recvd[Conn(slot)]

\* The slot that is being served stays in the table.
Visiting == pc \in {"recv", "reply"}
VisitedIsUsed == Visiting => Used(slot)

\* The kernel's bound on watches is kept: EPOLL_CTL_ADD has failed beyond it.
WatchesFit == IsFiniteSet(interest) /\ Cardinality(interest) <= watchLimit

IInv ==
  /\ TypeOK
  /\ RepliesBounded
  /\ ReplyIsDue
  /\ VisitedIsUsed
  /\ TableMatchesKernel
  /\ WatchesFit

-----------------------------------------------------------------------------
(***************************************************************************)
(* Facts about the numbers, the kernel's steps and the table.              *)
(***************************************************************************)
LEMMA NumbersOK ==
  /\ MaxMsgs \in Nat /\ SndCap \in Nat /\ MaxFd \in Nat \ {0}
  /\ MaxClients \in Nat \ {0} /\ IdleTimeout \in Nat \ {0}
  /\ MaxEvents \in Nat \ {0} /\ \A w \in WatchLimits : w \in Nat /\ w > 0
  /\ NoFd \notin Fds /\ Nobody \notin Conns /\ ListenFd \notin Fds
BY PeersAssumption, HostAssumption, EpollAssumption DEF NoFd, Fds, ListenFd

\* What is forgotten of a closed connection leaves the others alone.
LEMMA ForgetFacts ==
  ASSUME PeersTypeOK, NEW C, Forget(C)
  PROVE  /\ PeersTypeOK'
         /\ RepliesBounded => RepliesBounded'
         /\ \A c \in Conns : phase'[c] = IF c \in C THEN "closed" ELSE phase[c]
         /\ \A c \in Conns \ C :
              /\ sent'[c] = sent[c] /\ recvd'[c] = recvd[c]
              /\ fin'[c] = fin[c] /\ rst'[c] = rst[c]
<1> USE DEF Forget, PeersTypeOK
<1>1. 0 \in 0..MaxMsgs
  BY NumbersOK
<1>2. PeersTypeOK'
  BY <1>1 DEF Phases
<1>3. RepliesBounded => RepliesBounded'
  BY DEF RepliesBounded
<1> QED BY <1>2, <1>3

(***************************************************************************)
(* The table, slot by slot and descriptor by descriptor.                   *)
(***************************************************************************)
Points ==
  /\ SlotsDistinct /\ OwnersDistinct
  /\ \A f \in Fds : f \in interest <=> owner[f] # Nobody
  /\ \A f \in Fds : owner[f] # Nobody <=> \E s \in Slots : slotFd[s] = f
  /\ \A c \in Conns : phase[c] = "open" <=> \E f \in Fds : owner[f] = c

LEMMA TableByPoints == TypeOK => (Table <=> Points)
<1> SUFFICES ASSUME TypeOK PROVE Table <=> Points
  OBVIOUS
<1> USE DEF TypeOK, HostTypeOK
<1>1. FdsAreWatched <=> \A f \in Fds : f \in interest <=> owner[f] # Nobody
  BY DEF FdsAreWatched
<1> SUFFICES ASSUME FdsAreWatched PROVE Table <=> Points
  BY <1>1 DEF Table, Points
<1>2. WatchedInTable <=> \A f \in Fds : owner[f] # Nobody <=> \E s \in Slots : slotFd[s] = f
  BY NumbersOK DEF WatchedInTable, FdsAreWatched
<1>3. OpenHaveFds <=> \A c \in Conns : phase[c] = "open" <=> \E f \in Fds : owner[f] = c
  BY NumbersOK DEF OpenHaveFds, FdsAreWatched
<1> QED BY <1>1, <1>2, <1>3 DEF Table, Points

LEMMA TableByPointsThen == TypeOK' => (Table' <=> Points')
BY TableByPoints, PTL

\* A used slot of a table that matches the kernel refers to a connection.
LEMMA UsedSlotHasConn ==
  ASSUME TypeOK, Table, NEW s \in Slots, Used(s)
  PROVE  slotFd[s] \in Fds /\ Conn(s) \in Conns
BY TableByPoints DEF Points, TypeOK, HostTypeOK, Used, Conn

\* Steps of the server that leave table, kernel and epoll set alone.
LEMMA TableUndisturbed ==
  ASSUME UNCHANGED <<slotFd, owner, interest>>, Table,
         \A c \in Conns : phase'[c] = "open" <=> phase[c] = "open"
  PROVE  Table'
BY DEF Table, SlotsDistinct, OwnersDistinct, FdsAreWatched, WatchedInTable, OpenHaveFds, Used

\* find_client() for a descriptor finds its only slot; for a free slot it
\* finds the first, so it finds none only when there is none.
LEMMA SlotOfFd ==
  ASSUME TypeOK, Table, NEW f \in Fds, SlotOf(f) # {}
  PROVE  \E s \in Slots : Used(s) /\ slotFd[s] = f /\ SlotOf(f) = {s}
BY NumbersOK DEF SlotOf, Table, SlotsDistinct, Used

\* A set of slots that is not empty has a first one.
LEMMA FirstSlot ==
  ASSUME NEW T \in SUBSET Slots, T # {}
  PROVE  \E m \in T : \A t \in T : m <= t
<1> DEFINE R == StrictSubsetOrdering(Slots)
           Upto(t) == 1..t
           Below == {Upto(t) : t \in T}
<1>1. IsWellFoundedOn(R, SUBSET Slots)
  <2>1. IsFiniteSet(Slots)
    BY NumbersOK, FS_Interval DEF Slots
  <2> QED BY <2>1, FS_StrictSubsetOrderingWellFounded, FS_FiniteSubsetsOfFinite
<1>2. \A t \in T : Upto(t) \in SUBSET Slots
  BY NumbersOK DEF Slots
<1>3. \A t, m \in T : ~(m <= t) => <<Upto(t), Upto(m)>> \in R
  BY NumbersOK DEF Slots, StrictSubsetOrdering
<1>4. Below \subseteq SUBSET Slots /\ Below # {}
  BY <1>2
<1>5. \E B \in Below : \A A \in Below : ~(<<A, B>> \in R)
  <2> HIDE DEF R, Below
  <2> QED BY <1>1, <1>4, WFMin
<1> HIDE DEF R, Upto
<1> QED BY <1>3, <1>5

LEMMA NoFreeSlot == SlotOf(NoFd) = {} => \A s \in Slots : Used(s)
<1> DEFINE T == {s \in Slots : slotFd[s] = NoFd}
<1>1. T # {} => \E m \in T : \A t \in T : m <= t
  BY FirstSlot
<1> QED BY <1>1 DEF SlotOf, Used

-----------------------------------------------------------------------------
(***************************************************************************)
(* remove_client on any set of slots.                                      *)
(***************************************************************************)
LEMMA RemoveClientsType ==
  ASSUME TypeOK, WatchesFit, NEW S \in SUBSET Slots, RemoveClients(S), UNCHANGED watchLimit
  PROVE  /\ HostTypeOK'
         /\ slotFd' \in [Slots -> Fds \cup {NoFd}]
         /\ idle' \in [Slots -> 0..IdleTimeout]
         /\ interest' \in SUBSET Fds
         /\ RepliesBounded => RepliesBounded'
         /\ WatchesFit'
<1> DEFINE Gone == {c \in Conns : \E f \in {slotFd[s] : s \in S} \cap Fds : owner[f] = c}
<1>1. PeersTypeOK' /\ (RepliesBounded => RepliesBounded')
  <2>1. Forget(Gone) /\ PeersTypeOK
    BY DEF RemoveClients, CloseFds, TypeOK, HostTypeOK
  <2> HIDE DEF Gone
  <2> QED BY <2>1, ForgetFacts
<1>2. owner' \in [Fds -> Conns \cup {Nobody}] /\ fdLimit' \in FdLimits
  BY DEF TypeOK, HostTypeOK, RemoveClients, CloseFds
<1>3. idle' \in [Slots -> 0..IdleTimeout]
  BY NumbersOK DEF TypeOK, RemoveClients
<1>4. slotFd' \in [Slots -> Fds \cup {NoFd}]
  BY DEF TypeOK, RemoveClients
<1>5. interest' \in SUBSET interest /\ interest' \in SUBSET Fds
  BY DEF TypeOK, RemoveClients
<1>6. WatchesFit'
  <2>1. IsFiniteSet(interest') /\ Cardinality(interest') <= Cardinality(interest)
    BY <1>5, FS_Subset DEF WatchesFit
  <2>2. Cardinality(interest') \in Nat /\ Cardinality(interest) \in Nat /\ watchLimit \in Nat
    BY <2>1, FS_CardinalityType, NumbersOK DEF WatchesFit, TypeOK
  <2> QED BY <2>1, <2>2 DEF WatchesFit
<1> QED
  BY <1>1, <1>2, <1>3, <1>4, <1>5, <1>6 DEF HostTypeOK

LEMMA RemoveClientsTable ==
  ASSUME TypeOK, TypeOK', Table, NEW S \in SUBSET Slots, RemoveClients(S)
  PROVE  Table'
<1> DEFINE F == {slotFd[s] : s \in S}
<1>0. Points
  BY TableByPoints
<1>1. \A s \in Slots : slotFd'[s] = IF s \in S THEN NoFd ELSE slotFd[s]
  BY DEF RemoveClients
<1>2. \A f \in Fds : owner'[f] = IF f \in F THEN Nobody ELSE owner[f]
  BY DEF RemoveClients, CloseFds
<1>3. \A c \in Conns : phase'[c] = IF \E f \in F \cap Fds : owner[f] = c
                                     THEN "closed" ELSE phase[c]
  BY DEF RemoveClients, CloseFds, Forget
<1>4. SlotsDistinct'
  BY <1>0, <1>1 DEF Points, SlotsDistinct, Used
<1>5. OwnersDistinct'
  BY <1>0, <1>2 DEF Points, OwnersDistinct
<1>6. ASSUME NEW f \in Fds
      PROVE  owner'[f] # Nobody <=> \E s \in Slots : slotFd'[s] = f
  <2>1. (\E s \in Slots : slotFd'[s] = f) <=> (\E s \in Slots \ S : slotFd[s] = f)
    BY <1>1, NumbersOK
  <2>2. (\E s \in Slots \ S : slotFd[s] = f)
          <=> (\E s \in Slots : slotFd[s] = f) /\ f \notin F
    BY <1>0, NumbersOK DEF Points, SlotsDistinct, Used
  <2> QED BY <1>0, <1>2, <2>1, <2>2 DEF Points
<1>7. ASSUME NEW c \in Conns
      PROVE  phase'[c] = "open" <=> \E f \in Fds : owner'[f] = c
  <2>1. (\E f \in Fds : owner'[f] = c) <=> (\E f \in Fds \ F : owner[f] = c)
    BY <1>2, NumbersOK
  <2>2. (\E f \in Fds \ F : owner[f] = c)
          <=> (\E f \in Fds : owner[f] = c) /\ ~(\E f \in F \cap Fds : owner[f] = c)
    BY <1>0, NumbersOK DEF Points, OwnersDistinct
  <2> QED BY <1>0, <1>3, <2>1, <2>2 DEF Points
<1>8. \A f \in Fds : f \in interest' <=> owner'[f] # Nobody
  BY <1>0, <1>2 DEF Points, RemoveClients
<1> QED BY <1>4, <1>5, <1>6, <1>7, <1>8, TableByPointsThen DEF Points

-----------------------------------------------------------------------------
(***************************************************************************)
(* One lemma per action.                                                   *)
(***************************************************************************)
\* Steps that read or pass over events and change nothing else.
LEMMA WaitKeeps ==
  ASSUME IInv, EpollWait \/ EndBatch
               \/ (\E e \in events : AcceptFails(e) \/ UnknownFd(e) \/ StartRecv(e)),
         UNCHANGED watchLimit
  PROVE  IInv'
<1> USE DEF IInv
<1>1. /\ UNCHANGED <<hostVars, slotFd, idle, interest>>
      /\ pc # "dead" /\ pc' \in Places /\ pc' \notin {"reply", "dead"}
  BY DEF EpollWait, EndBatch, AcceptFails, UnknownFd, StartRecv, Taking, Places, TypeOK
<1>2. ASSUME pc # "reply"
      PROVE  events' \in SUBSET Event /\ slot' \in Slots
  <2>1. CASE EpollWait
    <3>1. ReadyEvents \in SUBSET Event
      BY DEF ReadyEvents, Event, Report, Flags, TypeOK
    <3> QED BY <2>1, <3>1 DEF EpollWait, TypeOK
  <2>2. CASE ~EpollWait
    BY <2>2 DEF EndBatch, AcceptFails, UnknownFd, StartRecv, Taking, TypeOK, SlotOf
  <2> QED BY <2>1, <2>2
<1>3. pc # "reply"
  BY DEF EpollWait, EndBatch, AcceptFails, UnknownFd, StartRecv, Taking
<1>4. TypeOK'
  BY <1>1, <1>2, <1>3 DEF TypeOK, hostVars, HostTypeOK, PeersTypeOK
<1>5. TableMatchesKernel' /\ WatchesFit' /\ RepliesBounded'
  <2>1. Table'
    BY <1>1, TableUndisturbed DEF TableMatchesKernel, hostVars
  <2> QED BY <1>1, <2>1 DEF TableMatchesKernel, WatchesFit, RepliesBounded, hostVars
<1>6. ReplyIsDue'
  BY <1>1 DEF ReplyIsDue
<1>7. VisitedIsUsed'
  <2> SUFFICES ASSUME pc' = "recv" PROVE Used(slot)'
    BY <1>1 DEF VisitedIsUsed, Visiting
  <2>1. PICK e \in events : StartRecv(e)
    BY DEF EpollWait, EndBatch, AcceptFails, UnknownFd, Taking
  <2>2. e.fd \in Fds /\ slotFd[slot'] = e.fd
    BY <2>1 DEF StartRecv, SlotOf, TypeOK, Event
  <2> QED BY <1>1, <2>2, NumbersOK DEF Used
<1> QED BY <1>4, <1>5, <1>6, <1>7

\* Removal, by the inactivity check, on an abnormal event, or after recv or send.
LEMMA RemovalKeeps ==
  ASSUME IInv, NEW S \in SUBSET Slots, RemoveClients(S), pc # "dead",
         pc' = "dispatch", events' \in SUBSET events, UNCHANGED <<slot, watchLimit>>
  PROVE  IInv'
<1> USE DEF IInv
<1>1. /\ HostTypeOK' /\ RepliesBounded' /\ interest' \in SUBSET Fds /\ WatchesFit'
      /\ slotFd' \in [Slots -> Fds \cup {NoFd}] /\ idle' \in [Slots -> 0..IdleTimeout]
  BY RemoveClientsType
<1>2. TypeOK'
  BY <1>1 DEF TypeOK, Places
<1>3. TableMatchesKernel'
  BY <1>2, RemoveClientsTable DEF TableMatchesKernel
<1>4. ReplyIsDue' /\ VisitedIsUsed'
  BY DEF ReplyIsDue, VisitedIsUsed, Visiting
<1> QED BY <1>1, <1>2, <1>3, <1>4

LEMMA RemoversKeep ==
  ASSUME IInv, Sweep \/ (\E e \in events : SocketError(e)) \/ RemoveCurrent,
         UNCHANGED watchLimit
  PROVE  IInv'
<1>1. CASE Sweep
  <2> DEFINE S == {s \in Slots : Used(s) /\ idle[s] >= IdleTimeout}
  <2>1. S \in SUBSET Slots /\ RemoveClients(S) /\ pc = "sweep" /\ pc' = "dispatch"
        /\ UNCHANGED <<events, slot>>
    BY <1>1 DEF Sweep
  <2> HIDE DEF S
  <2> QED BY <2>1, RemovalKeeps
<1>2. CASE \E e \in events : SocketError(e)
  <2>1. PICK e \in events : SocketError(e)
    BY <1>2
  <2>2. /\ SlotOf(e.fd) \in SUBSET Slots /\ RemoveClients(SlotOf(e.fd))
        /\ pc = "dispatch" /\ pc' = "dispatch"
        /\ events' \in SUBSET events /\ UNCHANGED slot
    BY <2>1 DEF SocketError, Taking, SlotOf
  <2>3. PICK S \in SUBSET Slots : S = SlotOf(e.fd)
    BY <2>2
  <2> QED BY <2>2, <2>3, RemovalKeeps
<1>3. CASE RemoveCurrent
  <2>1. {slot} \in SUBSET Slots /\ pc # "dead"
    BY <1>3 DEF IInv, TypeOK, RemoveCurrent
  <2>2. PICK S \in SUBSET Slots : S = {slot}
    BY <2>1
  <2>3. RemoveClients(S) /\ pc' = "dispatch" /\ UNCHANGED <<events, slot>>
    BY <1>3, <2>2 DEF RemoveCurrent
  <2> QED BY <2>1, <2>3, RemovalKeeps
<1> QED BY <1>1, <1>2, <1>3

LEMMA AcceptClientKeeps ==
  ASSUME IInv, NEW e \in events, NEW c \in Pending, NEW f \in Fds, NEW s \in Slots,
         AcceptClient(e, c, f, s), UNCHANGED watchLimit
  PROVE  IInv'
<1> USE DEF IInv
<1>0. /\ c \in Conns /\ phase[c] = "queued" /\ owner[f] = Nobody /\ f # NoFd
      /\ slotFd[s] = NoFd /\ pc = "dispatch" /\ pc' = pc /\ slot' = slot
      /\ events' \in SUBSET events
  BY NumbersOK DEF AcceptClient, Taking, Pending, LowestFree, SlotOf
<1>1. AcceptOn(c, f) /\ interest' = interest \cup {f} /\ Cardinality(interest) < watchLimit
  BY DEF AcceptClient
<1>2. TypeOK'
  <2>1. HostTypeOK'
    BY <1>0, <1>1 DEF AcceptOn, TypeOK, HostTypeOK, PeersTypeOK, Phases
  <2> QED BY <1>0, <1>1, <2>1, NumbersOK DEF AcceptClient, TypeOK
<1>3. Points
  BY <1>0, TableByPoints DEF TableMatchesKernel
<1>4. /\ \A t \in Slots : slotFd'[t] = IF t = s THEN f ELSE slotFd[t]
      /\ \A g \in Fds : owner'[g] = IF g = f THEN c ELSE owner[g]
      /\ \A d \in Conns : phase'[d] = IF d = c THEN "open" ELSE phase[d]
  BY DEF AcceptClient, AcceptOn, TypeOK, HostTypeOK, PeersTypeOK
<1>5. (\A t \in Slots : slotFd[t] # f) /\ (\A g \in Fds : owner[g] # c)
  BY <1>0, <1>3 DEF Points
<1>6. SlotsDistinct' /\ OwnersDistinct'
  BY <1>3, <1>4, <1>5 DEF Points, SlotsDistinct, OwnersDistinct, Used
<1>7. \A g \in Fds : owner'[g] # Nobody <=> \E t \in Slots : slotFd'[t] = g
  BY <1>0, <1>3, <1>4, <1>5, NumbersOK DEF Points
<1>8. \A d \in Conns : phase'[d] = "open" <=> \E g \in Fds : owner'[g] = d
  BY <1>0, <1>3, <1>4, <1>5, NumbersOK DEF Points
<1>9. \A g \in Fds : g \in interest' <=> owner'[g] # Nobody
  BY <1>0, <1>1, <1>3, <1>4, NumbersOK DEF Points
<1>10. TableMatchesKernel'
  BY <1>2, <1>6, <1>7, <1>8, <1>9, TableByPointsThen DEF TableMatchesKernel, Points
<1>11. WatchesFit'
  <2>1. Cardinality(interest) \in Nat /\ watchLimit \in Nat
    BY FS_CardinalityType, NumbersOK DEF WatchesFit, TypeOK
  <2>2. /\ IsFiniteSet(interest \cup {f})
        /\ Cardinality(interest \cup {f}) =
             IF f \in interest THEN Cardinality(interest) ELSE Cardinality(interest) + 1
    BY FS_AddElement DEF WatchesFit
  <2>3. Cardinality(interest \cup {f}) \in Nat
    BY <2>2, FS_CardinalityType
  <2> QED BY <1>1, <2>1, <2>2, <2>3 DEF WatchesFit
<1>12. RepliesBounded'
  BY <1>1 DEF AcceptOn, RepliesBounded
<1>13. ReplyIsDue' /\ VisitedIsUsed'
  BY <1>0 DEF ReplyIsDue, VisitedIsUsed, Visiting
<1> QED BY <1>2, <1>10, <1>11, <1>12, <1>13

LEMMA RejectClientKeeps ==
  ASSUME IInv, NEW e \in events, NEW c \in Pending, RejectClient(e, c), UNCHANGED watchLimit
  PROVE  IInv'
<1> USE DEF IInv
<1>1. /\ c \in Conns /\ phase[c] = "queued" /\ pc = "dispatch"
      /\ UNCHANGED <<owner, fdLimit, slotFd, idle, interest, pc, slot>>
      /\ events' \in SUBSET events /\ Forget({c})
  BY DEF Pending, RejectClient, Taking, AcceptAndClose
<1>2. /\ PeersTypeOK' /\ RepliesBounded'
      /\ \A d \in Conns : phase'[d] = IF d = c THEN "closed" ELSE phase[d]
  BY <1>1, ForgetFacts DEF TypeOK, HostTypeOK
<1>3. TypeOK'
  BY <1>1, <1>2 DEF TypeOK, HostTypeOK
<1>4. TableMatchesKernel'
  BY <1>1, <1>2, TableUndisturbed DEF TableMatchesKernel
<1>5. ReplyIsDue' /\ VisitedIsUsed' /\ WatchesFit'
  BY <1>1 DEF ReplyIsDue, VisitedIsUsed, Visiting, WatchesFit
<1> QED BY <1>2, <1>3, <1>4, <1>5

LEMMA ReceiveKeeps == ASSUME IInv, Receive, UNCHANGED watchLimit PROVE IInv'
<1> USE DEF IInv
<1>1. /\ slot \in Slots /\ Used(slot) /\ pc = "recv" /\ pc' = "reply"
      /\ UNCHANGED <<slotFd, interest, events, slot>>
      /\ idle' = [idle EXCEPT ![slot] = 0]
  BY DEF Receive, VisitedIsUsed, Visiting, TypeOK
<1>2. PICK k \in 1..MaxMsgs : RecvBytes(Conn(slot), k)
  BY DEF Receive
<1>3. Table
  BY <1>1 DEF TableMatchesKernel
<1>4. Conn(slot) \in Conns
  BY <1>1, <1>3, UsedSlotHasConn
<1>5. /\ recvd' = [recvd EXCEPT ![Conn(slot)] = @ + k]
      /\ k \in Nat /\ 1 <= k /\ k <= sent[Conn(slot)] - recvd[Conn(slot)]
      /\ UNCHANGED <<phase, sent, replies, taken, fin, rst, owner, fdLimit>>
  BY <1>2, <1>4, NumbersOK DEF RecvBytes, Unread, TypeOK, HostTypeOK, PeersTypeOK
<1>6. recvd' \in [Conns -> 0..MaxMsgs]
  BY <1>4, <1>5, NumbersOK DEF TypeOK, HostTypeOK, PeersTypeOK
<1>7. TypeOK'
  <2>1. HostTypeOK'
    BY <1>5, <1>6 DEF TypeOK, HostTypeOK, PeersTypeOK
  <2> QED BY <1>1, <2>1, NumbersOK DEF TypeOK, Places
<1>8. TableMatchesKernel'
  BY <1>1, <1>3, <1>5, TableUndisturbed DEF TableMatchesKernel
<1>9. RepliesBounded' /\ ReplyIsDue'
  BY <1>1, <1>4, <1>5 DEF RepliesBounded, ReplyIsDue, Conn, TypeOK, HostTypeOK, PeersTypeOK
<1>10. VisitedIsUsed' /\ WatchesFit'
  BY <1>1 DEF VisitedIsUsed, Used, WatchesFit
<1> QED BY <1>7, <1>8, <1>9, <1>10

LEMMA ReplyKeeps == ASSUME IInv, Reply, UNCHANGED watchLimit PROVE IInv'
<1> USE DEF IInv
<1>1. /\ pc = "reply" /\ pc' = "dispatch" /\ slot \in Slots /\ Used(slot)
      /\ UNCHANGED <<slotFd, idle, interest, events, slot>>
      /\ SendReply(Conn(slot))
  BY DEF Reply, VisitedIsUsed, Visiting, TypeOK
<1>2. Table
  BY <1>1 DEF TableMatchesKernel
<1>3. Conn(slot) \in Conns /\ replies[Conn(slot)] < recvd[Conn(slot)]
  BY <1>1, <1>2, UsedSlotHasConn DEF ReplyIsDue
<1>4. /\ replies' = [replies EXCEPT ![Conn(slot)] = @ + 1]
      /\ UNCHANGED <<phase, sent, recvd, taken, fin, rst, owner, fdLimit>>
  BY <1>1 DEF SendReply
<1>5. TypeOK'
  <2>1. replies' \in [Conns -> 0..MaxMsgs]
    BY <1>3, <1>4, NumbersOK DEF TypeOK, HostTypeOK, PeersTypeOK
  <2>2. HostTypeOK'
    BY <1>4, <2>1 DEF TypeOK, HostTypeOK, PeersTypeOK
  <2> QED BY <1>1, <2>2 DEF TypeOK, Places
<1>6. TableMatchesKernel'
  BY <1>1, <1>2, <1>4, TableUndisturbed DEF TableMatchesKernel
<1>7. RepliesBounded' /\ ReplyIsDue' /\ VisitedIsUsed' /\ WatchesFit'
  BY <1>1, <1>3, <1>4
  DEF RepliesBounded, ReplyIsDue, VisitedIsUsed, Visiting, WatchesFit, TypeOK, HostTypeOK,
      PeersTypeOK
<1> QED BY <1>5, <1>6, <1>7

LEMMA ReplyKillsKeeps == ASSUME IInv, ReplyKills, UNCHANGED watchLimit PROVE IInv'
<1> USE DEF IInv
<1> DEFINE All == {c \in Conns : phase[c] # "new"}
<1>1. /\ Forget(All) /\ owner' = [f \in Fds |-> Nobody] /\ pc' = "dead"
      /\ UNCHANGED <<fdLimit, slotFd, idle, interest, events, slot>>
  BY DEF ReplyKills, ProcessExit
<1>2. PeersTypeOK' /\ RepliesBounded'
  <2> HIDE DEF All
  <2> QED BY <1>1, ForgetFacts DEF TypeOK, HostTypeOK
<1>3. TypeOK'
  BY <1>1, <1>2 DEF TypeOK, HostTypeOK, Places
<1>4. TableMatchesKernel' /\ ReplyIsDue' /\ VisitedIsUsed' /\ WatchesFit'
  BY <1>1 DEF TableMatchesKernel, ReplyIsDue, VisitedIsUsed, Visiting, WatchesFit
<1> QED BY <1>2, <1>3, <1>4

LEMMA TickKeeps == ASSUME IInv, Tick \/ UNCHANGED vars PROVE IInv'
<1> USE DEF IInv
<1>1. UNCHANGED <<hostVars, slotFd, interest, watchLimit, events, pc, slot>>
  BY DEF Tick, vars
<1>2. idle' \in [Slots -> 0..IdleTimeout]
  BY NumbersOK DEF Tick, vars, TypeOK
<1> USE <1>1 DEF hostVars
<1>3. TypeOK'
  BY <1>2 DEF TypeOK, HostTypeOK, PeersTypeOK
<1>4. TableMatchesKernel'
  BY TableUndisturbed DEF TableMatchesKernel
<1>5. RepliesBounded' /\ ReplyIsDue' /\ VisitedIsUsed' /\ WatchesFit'
  BY DEF RepliesBounded, ReplyIsDue, VisitedIsUsed, Visiting, WatchesFit, Used, Conn
<1> QED BY <1>3, <1>4, <1>5

(***************************************************************************)
(* A step of a peer keeps the types of the kernel and opens and closes no  *)
(* descriptor.                                                             *)
(***************************************************************************)
LEMMA PeerStep ==
  ASSUME TypeOK, RepliesBounded, NEW c \in Conns, Peer(c)
  PROVE  /\ PeersTypeOK'
         /\ UNCHANGED <<recvd, replies>>
         /\ \A d \in Conns : phase'[d] = "open" <=> phase[d] = "open"
<1> USE DEF TypeOK, HostTypeOK, PeersTypeOK, Phases
<1>1. CASE Connect(c)
  BY <1>1 DEF Connect
<1>2. CASE PeerSend(c)
  <2>1. sent' \in [Conns -> 0..MaxMsgs]
    BY <1>2, NumbersOK DEF PeerSend
  <2> QED BY <1>2, <2>1 DEF PeerSend
<1>3. CASE PeerRead(c)
  BY <1>3 DEF PeerRead
<1>4. CASE PeerClose(c)
  BY <1>4 DEF PeerClose
<1>5. CASE PeerAbort(c)
  BY <1>5 DEF PeerAbort
<1>6. CASE Bounce(c)
  BY <1>6 DEF Bounce
<1> QED BY <1>1, <1>2, <1>3, <1>4, <1>5, <1>6 DEF Peer

LEMMA ClientsKeep == ASSUME IInv, Clients PROVE IInv'
<1> USE DEF IInv, fdVars
<1>1. UNCHANGED <<owner, fdLimit, slotFd, idle, interest, watchLimit, events, pc, slot>>
  BY DEF Clients, OtherVars
<1>2. /\ PeersTypeOK'
      /\ UNCHANGED <<recvd, replies>>
      /\ \A d \in Conns : phase'[d] = "open" <=> phase[d] = "open"
  BY PeerStep DEF Clients
<1>3. TypeOK'
  BY <1>1, <1>2 DEF TypeOK, HostTypeOK
<1>4. TableMatchesKernel'
  BY <1>1, <1>2, TableUndisturbed DEF TableMatchesKernel
<1>5. RepliesBounded' /\ ReplyIsDue' /\ VisitedIsUsed' /\ WatchesFit'
  BY <1>1, <1>2
  DEF RepliesBounded, ReplyIsDue, VisitedIsUsed, Visiting, WatchesFit, Used, Conn
<1> QED BY <1>3, <1>4, <1>5

-----------------------------------------------------------------------------
LEMMA InitIInv == Init => IInv
<1> SUFFICES ASSUME Init PROVE IInv
  OBVIOUS
<1> USE DEF Init, HostInit, PeersInit
<1>1. TypeOK
  <2>1. 0 \in 0..MaxMsgs /\ 0 \in 0..IdleTimeout /\ 1 \in Slots
    BY NumbersOK DEF Slots
  <2>2. HostTypeOK
    BY <2>1 DEF HostTypeOK, PeersTypeOK, Phases
  <2>3. slotFd \in [Slots -> Fds \cup {NoFd}] /\ idle \in [Slots -> 0..IdleTimeout]
    BY <2>1
  <2> QED BY <2>1, <2>2, <2>3 DEF TypeOK, Places
<1>2. Table
  <2>1. Points
    BY NumbersOK DEF Points, SlotsDistinct, OwnersDistinct, Used
  <2> QED BY <1>1, <2>1, TableByPoints
<1>3. WatchesFit
  BY <1>1, FS_EmptySet, NumbersOK DEF WatchesFit, TypeOK
<1> QED BY <1>1, <1>2, <1>3
        DEF IInv, RepliesBounded, ReplyIsDue, VisitedIsUsed, Visiting, TableMatchesKernel

LEMMA NextIInv == IInv /\ [Next]_vars => IInv'
<1> SUFFICES ASSUME IInv, [Next]_vars PROVE IInv'
  OBVIOUS
<1>1. CASE Server
  <2>0. UNCHANGED watchLimit
    BY <1>1 DEF Server
  <2>1. CASE \E e \in events, c \in Pending : RejectClient(e, c)
    BY <2>0, <2>1, RejectClientKeeps
  <2>2. CASE \E e \in events, c \in Pending, f \in Fds, s \in Slots : AcceptClient(e, c, f, s)
    BY <2>0, <2>2, AcceptClientKeeps
  <2> QED
    BY <1>1, <2>0, <2>1, <2>2, WaitKeeps, RemoversKeep, ReceiveKeeps, ReplyKeeps,
       ReplyKillsKeeps
    DEF Server
<1> QED BY <1>1, TickKeeps, ClientsKeep DEF Next

LEMMA Invariance == Spec => []IInv
BY InitIInv, NextIInv, PTL DEF Spec

(***************************************************************************)
(* Every variable keeps its type; in particular an event always carries a  *)
(* descriptor number that a client or the listening socket can have.       *)
(***************************************************************************)
THEOREM TypeCorrect == Spec => []TypeOK
<1>1. IInv => TypeOK
  BY DEF IInv
<1> QED BY <1>1, Invariance, PTL

(***************************************************************************)
(* The slots of epoll_server.c, the descriptors of the process and the     *)
(* epoll set always agree, whatever events are stale.                      *)
(***************************************************************************)
THEOREM TableAgrees == Spec => []TableMatchesKernel
<1>1. IInv => TableMatchesKernel
  BY DEF IInv
<1> QED BY <1>1, Invariance, PTL

-----------------------------------------------------------------------------
(***************************************************************************)
(* How many connections are served, and for how long each has been quiet.  *)
(***************************************************************************)
\* The abstract specification counts as this module does.
LEMMA SameCardinality == \A S : Service!Cardinality(S) = Cardinality(S)
BY DEF Cardinality, Service!Cardinality

\* Two sets that correspond one to one have the same size.
LEMMA SameSize ==
  ASSUME NEW S, NEW T, IsFiniteSet(S), NEW F \in [S -> T],
         \A a, b \in S : F[a] = F[b] => a = b,
         \A t \in T : \E s \in S : F[s] = t
  PROVE  IsFiniteSet(T) /\ Cardinality(T) = Cardinality(S)
<1>1. F \in Bijection(S, T)
  BY Fun_IsBij
<1>2. ExistsBijection(S, T)
  BY <1>1, Fun_ExistsBij
<1> QED BY <1>2, FS_Bijection

Serving == Service!Serving
UsedSlots == {s \in Slots : Used(s)}

\* Slots and connections in service correspond one to one.
LEMMA ServedHaveSlot ==
  ASSUME TypeOK, Table
  PROVE  /\ \A s \in UsedSlots : Conn(s) \in Serving
         /\ \A s, t \in UsedSlots : Conn(s) = Conn(t) => s = t
         /\ \A c \in Serving : \E s \in UsedSlots : Conn(s) = c
<1> USE DEF UsedSlots, Serving, Service!Serving, Table
<1>1. ASSUME NEW s \in UsedSlots PROVE Conn(s) \in Serving
  <2>1. slotFd[s] \in Fds /\ Conn(s) \in Conns
    BY UsedSlotHasConn
  <2> QED BY <2>1, TableByPoints DEF Points, Conn
<1>2. ASSUME NEW s \in UsedSlots, NEW t \in UsedSlots, Conn(s) = Conn(t) PROVE s = t
  <2>1. slotFd[s] \in Fds /\ slotFd[t] \in Fds /\ Conn(s) \in Conns
    BY UsedSlotHasConn
  <2>2. slotFd[s] = slotFd[t]
    BY <1>2, <2>1, NumbersOK DEF OwnersDistinct, Conn
  <2> QED BY <2>2 DEF SlotsDistinct
<1>3. ASSUME NEW c \in Serving PROVE \E s \in UsedSlots : Conn(s) = c
  <2>1. PICK f \in Fds : owner[f] = c
    BY TableByPoints DEF Points
  <2>2. PICK s \in Slots : slotFd[s] = f
    BY <2>1, NumbersOK, TableByPoints DEF Points
  <2> QED BY <2>1, <2>2, NumbersOK DEF Used, Conn
<1> QED BY <1>1, <1>2, <1>3

LEMMA CountBySlots ==
  ASSUME TypeOK, Table
  PROVE  /\ IsFiniteSet(Serving) /\ Cardinality(Serving) \in Nat
         /\ Cardinality(Serving) <= MaxClients
         /\ (\E s \in Slots : ~Used(s)) => Cardinality(Serving) # MaxClients
         /\ (\A s \in Slots : Used(s)) => Cardinality(Serving) = MaxClients
<1>1. IsFiniteSet(Slots) /\ Cardinality(Slots) = MaxClients
  BY NumbersOK, FS_Interval DEF Slots
<1>2. UsedSlots \in SUBSET Slots
  BY DEF UsedSlots
<1>3. /\ IsFiniteSet(UsedSlots)
      /\ Cardinality(UsedSlots) <= Cardinality(Slots)
      /\ Cardinality(Slots) = Cardinality(UsedSlots) => Slots = UsedSlots
  BY <1>1, <1>2, FS_Subset
<1>4. IsFiniteSet(Serving) /\ Cardinality(Serving) = Cardinality(UsedSlots)
  <2> DEFINE G == [s \in UsedSlots |-> Conn(s)]
  <2>1. G \in [UsedSlots -> Serving]
    BY ServedHaveSlot
  <2>2. \A s, t \in UsedSlots : G[s] = G[t] => s = t
    BY ServedHaveSlot
  <2>3. \A c \in Serving : \E s \in UsedSlots : G[s] = c
    BY ServedHaveSlot
  <2> HIDE DEF G
  <2> QED BY <1>3, <2>1, <2>2, <2>3, SameSize
<1>5. (\A s \in Slots : Used(s)) <=> Slots = UsedSlots
  BY DEF UsedSlots
<1> QED BY <1>1, <1>3, <1>4, <1>5, FS_CardinalityType

\* Each connection in service has one watch.
LEMMA CountByWatches ==
  ASSUME TypeOK, Table, IsFiniteSet(interest)
  PROVE  Cardinality(interest) = Cardinality(Serving)
<1> DEFINE G == [f \in interest |-> owner[f]]
<1>1. interest = {f \in Fds : owner[f] # Nobody} /\ Serving = {owner[f] : f \in interest}
  BY DEF Table, FdsAreWatched, OpenHaveFds, Serving, Service!Serving
<1>2. G \in [interest -> Serving]
  BY <1>1
<1>3. \A f, g \in interest : G[f] = G[g] => f = g
  BY <1>1 DEF Table, OwnersDistinct
<1>4. \A c \in Serving : \E f \in interest : G[f] = c
  BY <1>1
<1> HIDE DEF G
<1> QED BY <1>2, <1>3, <1>4, SameSize

\* The number of connections that fit: the smaller of the table and the watches.
room == Min({MaxClients, watchLimit})

LEMMA RoomIsMin ==
  ASSUME watchLimit \in WatchLimits
  PROVE  /\ room \in 1..MaxClients /\ room <= watchLimit
         /\ room = MaxClients \/ room = watchLimit
<1>1. watchLimit \in Nat /\ watchLimit > 0 /\ MaxClients \in Nat /\ MaxClients > 0
  BY NumbersOK
<1>2. \E x \in {MaxClients, watchLimit} : \A y \in {MaxClients, watchLimit} : x <= y
  BY <1>1
<1>3. /\ room \in {MaxClients, watchLimit}
      /\ \A y \in {MaxClients, watchLimit} : room <= y
  BY <1>2 DEF room, Min
<1> QED BY <1>1, <1>3

(***************************************************************************)
(* The quiet time of connection c, as the refinement mapping has it, in a  *)
(* state where the table is fd, the owners are own and the ages ages.      *)
(***************************************************************************)
QuietIn(fd, own, ages, c) ==
  IF \E s \in Slots : fd[s] # NoFd /\ own[fd[s]] = c
    THEN ages[CHOOSE s \in Slots : fd[s] # NoFd /\ own[fd[s]] = c]
    ELSE 0

LEMMA QuietIs ==
  ASSUME NEW c
  PROVE  /\ QuietOf(c) = QuietIn(slotFd, owner, idle, c)
         /\ QuietOf(c)' = QuietIn(slotFd', owner', idle', c)
BY DEF QuietOf, QuietIn, Used, Conn

\* It is the age of the one slot that the connection has.
LEMMA QuietOfSlot ==
  ASSUME NEW fd, NEW own, NEW ages, NEW c, NEW s \in Slots,
         fd[s] # NoFd, own[fd[s]] = c,
         \A t \in Slots : fd[t] # NoFd /\ own[fd[t]] = c => t = s
  PROVE  QuietIn(fd, own, ages, c) = ages[s]
<1>1. (CHOOSE t \in Slots : fd[t] # NoFd /\ own[fd[t]] = c) = s
  OBVIOUS
<1> QED BY <1>1 DEF QuietIn

LEMMA QuietOfNone ==
  ASSUME NEW fd, NEW own, NEW ages, NEW c,
         \A t \in Slots : ~(fd[t] # NoFd /\ own[fd[t]] = c)
  PROVE  QuietIn(fd, own, ages, c) = 0
BY DEF QuietIn

\* The same for the server's own table, in this state and in the next.
QuietIsAge ==
  /\ \A s \in Slots, c \in Conns : Used(s) /\ Conn(s) = c => QuietOf(c) = idle[s]
  /\ \A c \in Conns : phase[c] # "open" => QuietOf(c) = 0

LEMMA QuietFacts == TypeOK /\ Table => QuietIsAge
<1> SUFFICES ASSUME TypeOK, Table PROVE QuietIsAge
  OBVIOUS
<1>1. ASSUME NEW s \in Slots, NEW c \in Conns, Used(s), Conn(s) = c
      PROVE  QuietOf(c) = idle[s]
  <2>1. \A t \in Slots : slotFd[t] # NoFd /\ owner[slotFd[t]] = c => t = s
    BY <1>1, ServedHaveSlot DEF UsedSlots, Used, Conn
  <2>2. slotFd[s] # NoFd /\ owner[slotFd[s]] = c
    BY <1>1 DEF Used, Conn
  <2> QED BY <2>1, <2>2, QuietOfSlot, QuietIs
<1>2. ASSUME NEW c \in Conns, phase[c] # "open" PROVE QuietOf(c) = 0
  <2>1. \A t \in Slots : ~(slotFd[t] # NoFd /\ owner[slotFd[t]] = c)
    BY <1>2, ServedHaveSlot DEF UsedSlots, Used, Conn, Serving, Service!Serving
  <2> QED BY <2>1, QuietOfNone, QuietIs
<1> QED BY <1>1, <1>2 DEF QuietIsAge

LEMMA QuietFactsThen == TypeOK' /\ Table' => QuietIsAge'
BY QuietFacts, PTL

\* Steps that move no connection between slots and change no age.
LEMMA QuietUndisturbed ==
  ASSUME UNCHANGED <<slotFd, owner, idle>>
  PROVE  \A c \in Conns : QuietOf(c)' = QuietOf(c)
BY QuietIs

\* What removal of the slots S does, seen by EventService.
LEMMA RemovalRefines ==
  ASSUME TypeOK, Table, NEW S \in SUBSET UsedSlots, RemoveClients(S)
  PROVE  LET D == {Conn(s) : s \in S} IN
         /\ D \subseteq Serving /\ Forget(D)
         /\ \A c \in Conns : QuietOf(c)' = IF c \in D THEN 0 ELSE QuietOf(c)
<1> DEFINE D == {Conn(s) : s \in S}
           F == {slotFd[s] : s \in S}
<1>1. D \subseteq Serving /\ Serving \subseteq Conns
  BY ServedHaveSlot DEF Serving, Service!Serving
<1>2. F \subseteq Fds
  BY UsedSlotHasConn DEF UsedSlots
<1>3. {c \in Conns : \E f \in F \cap Fds : owner[f] = c} = D
  BY <1>1, <1>2 DEF Conn
<1>4. Forget(D)
  BY <1>3 DEF RemoveClients, CloseFds
<1>5. /\ \A s \in Slots : slotFd'[s] = IF s \in S THEN NoFd ELSE slotFd[s]
      /\ \A s \in Slots : idle'[s] = IF s \in S THEN 0 ELSE idle[s]
      /\ \A f \in Fds : owner'[f] = IF f \in F THEN Nobody ELSE owner[f]
  BY DEF RemoveClients, CloseFds
<1>6. \A s \in Slots \ S : Used(s) => slotFd[s] \in Fds \ F
  BY UsedSlotHasConn DEF Table, SlotsDistinct, UsedSlots, Used
<1>7. ASSUME NEW t \in Slots, slotFd'[t] # NoFd
      PROVE  t \notin S /\ Used(t) /\ owner'[slotFd'[t]] = Conn(t)
  BY <1>5, <1>6, <1>7 DEF Used, Conn
<1>8. ASSUME NEW c \in Conns
      PROVE  QuietOf(c)' = IF c \in D THEN 0 ELSE QuietOf(c)
  <2>1. CASE c \in D \/ c \notin Serving
    <3>1. \A t \in Slots : ~(slotFd'[t] # NoFd /\ owner'[slotFd'[t]] = c)
      BY <1>7, <2>1, ServedHaveSlot DEF UsedSlots
    <3>2. QuietOf(c)' = 0
      BY <3>1, QuietOfNone, QuietIs
    <3>3. c \notin Serving => QuietOf(c) = 0
      BY QuietFacts DEF QuietIsAge, Serving, Service!Serving
    <3> QED BY <2>1, <3>2, <3>3
  <2>2. CASE c \notin D /\ c \in Serving
    <3>1. PICK s \in UsedSlots : Conn(s) = c
      BY <2>2, ServedHaveSlot
    <3>2. s \in Slots /\ s \notin S /\ Used(s)
      BY <2>2, <3>1 DEF UsedSlots
    <3>3. slotFd'[s] # NoFd /\ owner'[slotFd'[s]] = c /\ idle'[s] = idle[s]
      BY <1>5, <1>6, <3>1, <3>2 DEF Used, Conn
    <3>4. \A t \in Slots : slotFd'[t] # NoFd /\ owner'[slotFd'[t]] = c => t = s
      BY <1>7, <3>1, ServedHaveSlot DEF UsedSlots
    <3>5. QuietOf(c)' = idle'[s]
      BY <3>2, <3>3, <3>4, QuietOfSlot, QuietIs
    <3>6. QuietOf(c) = idle[s]
      BY <1>8, <3>1, <3>2, QuietFacts DEF QuietIsAge
    <3> QED BY <2>2, <3>3, <3>5, <3>6
  <2> QED BY <2>1, <2>2
<1> QED BY <1>1, <1>4, <1>8

-----------------------------------------------------------------------------
(***************************************************************************)
(* The refinement of EventService: each action of the loop is one action   *)
(* there, or changes nothing that it speaks of.                            *)
(***************************************************************************)
LEMMA InitRefines == Init => Service!Init
<1> SUFFICES ASSUME Init PROVE Service!Init
  OBVIOUS
<1> USE DEF Init, HostInit
<1>1. Service!PeersInit
  BY DEF PeersInit, Service!PeersInit
<1>2. \A c \in Conns : QuietOf(c) = 0
  BY QuietOfNone, QuietIs
<1>3. Min({MaxClients, watchLimit}) \in 1..MaxClients
  BY RoomIsMin DEF room
<1> QED BY <1>1, <1>2, <1>3 DEF Service!Init

\* Connections that are forgotten together leave the service together.
LEMMA LeaveRefines ==
  ASSUME NEW D \in SUBSET Conns, Forget(D), pc # "dead", pc' \notin {"reply", "dead"},
         UNCHANGED watchLimit,
         \A c \in Conns : QuietOf(c)' = IF c \in D THEN 0 ELSE QuietOf(c)
  PROVE  Service!Leave(D)
<1>1. Service!Forget(D)
  BY DEF Forget, Service!Forget
<1> QED BY <1>1 DEF Service!Leave

\* The connection of one slot leaves, which stale events allow at any time.
LEMMA DropRefines ==
  ASSUME IInv, NEW s \in Slots, Used(s), RemoveClients({s}), pc # "dead", pc' = "dispatch",
         pc = "reply" => s = slot, UNCHANGED watchLimit
  PROVE  Service!Next
<1>1. TypeOK /\ Table
  BY DEF IInv, TableMatchesKernel
<1>2. PICK c \in Conns : c = Conn(s) /\ phase[c] = "open"
  BY <1>1, ServedHaveSlot DEF UsedSlots, Serving, Service!Serving
<1>3. Forget({c}) /\ \A d \in Conns : QuietOf(d)' = IF d \in {c} THEN 0 ELSE QuietOf(d)
  <2>1. {s} \in SUBSET UsedSlots
    BY DEF UsedSlots
  <2>2. {Conn(t) : t \in {s}} = {c}
    BY <1>2
  <2> QED BY <1>1, <2>1, <2>2, RemovalRefines
<1>4. Service!Leave({c})
  BY <1>3, LeaveRefines
<1>5. Service!DropEnded(c)
  BY <1>2, <1>4 DEF Service!DropEnded
<1> QED BY <1>5 DEF Service!Next

LEMMA RemoversRefine ==
  ASSUME IInv, (\E e \in events : SocketError(e)) \/ RemoveCurrent, UNCHANGED watchLimit
  PROVE  Service!Next
<1>1. ASSUME NEW e \in events, SocketError(e) PROVE Service!Next
  <2>1. /\ e.fd \in Fds /\ SlotOf(e.fd) # {} /\ RemoveClients(SlotOf(e.fd))
        /\ pc = "dispatch" /\ pc' = "dispatch"
    BY <1>1 DEF SocketError, Taking, IInv, TypeOK, Event
  <2>2. PICK s \in Slots : Used(s) /\ SlotOf(e.fd) = {s}
    BY <2>1, SlotOfFd DEF IInv, TableMatchesKernel
  <2> QED BY <2>1, <2>2, DropRefines
<1>2. CASE RemoveCurrent
  <2>1. slot \in Slots /\ Used(slot) /\ RemoveClients({slot}) /\ pc # "dead" /\ pc' = "dispatch"
    BY <1>2 DEF RemoveCurrent, IInv, TypeOK, VisitedIsUsed, Visiting
  <2> QED BY <2>1, DropRefines
<1> QED BY <1>1, <1>2

LEMMA SweepRefines == ASSUME IInv, Sweep, UNCHANGED watchLimit PROVE Service!Next
<1> DEFINE S == {s \in Slots : Used(s) /\ idle[s] >= IdleTimeout}
           D == {Conn(s) : s \in S}
<1>1. /\ TypeOK /\ Table /\ S \in SUBSET UsedSlots /\ RemoveClients(S)
      /\ pc = "sweep" /\ pc' = "dispatch"
  BY DEF IInv, TableMatchesKernel, Sweep, UsedSlots
<1>2. \A s \in S : Conn(s) \in Serving /\ QuietOf(Conn(s)) >= IdleTimeout
  <2> SUFFICES ASSUME NEW s \in S PROVE Conn(s) \in Serving /\ QuietOf(Conn(s)) >= IdleTimeout
    OBVIOUS
  <2>1. PICK c \in Conns : c = Conn(s) /\ c \in Serving
    BY <1>1, ServedHaveSlot DEF Serving, Service!Serving
  <2>2. QuietOf(c) = idle[s]
    BY <1>1, <2>1, QuietFacts DEF QuietIsAge
  <2> QED BY <2>1, <2>2
<1>3. D \in SUBSET {c \in Serving : QuietOf(c) >= IdleTimeout}
  BY <1>2
<1>4. D \in SUBSET Conns
  BY <1>3 DEF Serving, Service!Serving
<1> HIDE DEF S
<1>5. /\ Forget(D)
      /\ \A c \in Conns : QuietOf(c)' = IF c \in D THEN 0 ELSE QuietOf(c)
  BY <1>1, RemovalRefines
<1> HIDE DEF D
<1>6. Service!Leave(D)
  BY <1>1, <1>4, <1>5, LeaveRefines
<1>7. D \in SUBSET {c \in Service!Serving : [d \in Conns |-> QuietOf(d)][c] >= IdleTimeout}
  BY <1>3, <1>4 DEF Serving
<1>8. Service!DropQuiet
  BY <1>1, <1>6, <1>7 DEF Service!DropQuiet
<1> QED BY <1>1, <1>8 DEF Service!Next

LEMMA AcceptRefines ==
  ASSUME IInv, IInv', NEW e \in events, NEW c \in Pending, NEW f \in Fds, NEW s \in Slots,
         AcceptClient(e, c, f, s), UNCHANGED watchLimit
  PROVE  Service!Next
<1> USE DEF IInv
<1>1. /\ c \in Conns /\ phase[c] = "queued" /\ pc = "dispatch" /\ pc' = pc /\ slot' = slot
      /\ owner[f] = Nobody /\ ~Used(s)
  BY DEF Pending, AcceptClient, Taking, LowestFree, SlotOf, Used
<1>2. /\ \A t \in Slots : slotFd'[t] = IF t = s THEN f ELSE slotFd[t]
      /\ \A t \in Slots : idle'[t] = IF t = s THEN 0 ELSE idle[t]
      /\ \A g \in Fds : owner'[g] = IF g = f THEN c ELSE owner[g]
      /\ \A d \in Conns : phase'[d] = IF d = c THEN "open" ELSE phase[d]
  BY DEF AcceptClient, AcceptOn, TypeOK, HostTypeOK, PeersTypeOK
<1>3. Table /\ Table' /\ QuietIsAge /\ QuietIsAge'
  BY <1>1, QuietFacts, QuietFactsThen DEF TableMatchesKernel
<1>4. \A d \in Conns : QuietOf(d)' = IF d = c THEN 0 ELSE QuietOf(d)
  <2> SUFFICES ASSUME NEW d \in Conns PROVE QuietOf(d)' = IF d = c THEN 0 ELSE QuietOf(d)
    OBVIOUS
  <2>1. CASE d = c
    <3>1. Used(s)' /\ Conn(s)' = d
      BY <1>2, <2>1, NumbersOK DEF Used, Conn
    <3> QED BY <1>2, <1>3, <2>1, <3>1 DEF QuietIsAge
  <2>2. CASE d # c /\ phase[d] # "open"
    BY <1>2, <1>3, <2>2 DEF QuietIsAge
  <2>3. CASE d # c /\ phase[d] = "open"
    <3>1. PICK t \in UsedSlots : Conn(t) = d
      BY <1>3, <2>3, ServedHaveSlot DEF Serving, Service!Serving
    <3>2. t \in Slots /\ t # s /\ Used(t) /\ slotFd[t] \in Fds /\ slotFd[t] # f
      BY <1>1, <1>3, <3>1, UsedSlotHasConn, NumbersOK DEF UsedSlots, Conn
    <3>3. Used(t)' /\ Conn(t)' = d /\ idle'[t] = idle[t]
      BY <1>2, <3>1, <3>2 DEF Used, Conn
    <3> QED BY <1>3, <2>3, <3>1, <3>2, <3>3 DEF QuietIsAge
  <2> QED BY <2>1, <2>2, <2>3
<1>5. Cardinality(Serving) < room
  <2>1. /\ Cardinality(Serving) \in Nat /\ Cardinality(Serving) < MaxClients
    BY <1>1, <1>3, CountBySlots, NumbersOK
  <2>2. Cardinality(Serving) < watchLimit
    BY <1>3, CountByWatches DEF AcceptClient, WatchesFit
  <2> QED BY <2>1, <2>2, RoomIsMin DEF TypeOK
<1>6. Service!Cardinality(Service!Serving) < Min({MaxClients, watchLimit})
  BY <1>5, SameCardinality DEF Serving, room
<1>7. Service!Admit(c)
  BY <1>1, <1>4, <1>6 DEF AcceptClient, AcceptOn, Service!Admit
<1> QED BY <1>1, <1>7 DEF Service!Next

LEMMA RejectRefines ==
  ASSUME IInv, NEW e \in events, NEW c \in Pending, RejectClient(e, c), UNCHANGED watchLimit
  PROVE  Service!Next
<1>1. /\ c \in Conns /\ phase[c] = "queued" /\ pc = "dispatch" /\ pc' = "dispatch"
      /\ Forget({c}) /\ UNCHANGED <<slotFd, owner, idle>>
      /\ SlotOf(NoFd) = {} \/ Cardinality(interest) >= watchLimit
  BY DEF Pending, RejectClient, Taking, AcceptAndClose
<1>2. TypeOK /\ Table /\ QuietIsAge
  BY <1>1, QuietFacts DEF IInv, TableMatchesKernel
<1>3. \A d \in Conns : QuietOf(d)' = IF d \in {c} THEN 0 ELSE QuietOf(d)
  BY <1>1, <1>2, QuietUndisturbed DEF QuietIsAge
<1>4. Service!Leave({c})
  BY <1>1, <1>3, LeaveRefines
<1>5. Cardinality(Serving) = room
  <2>1. /\ Cardinality(Serving) \in Nat /\ Cardinality(Serving) <= MaxClients
        /\ SlotOf(NoFd) = {} => Cardinality(Serving) = MaxClients
    BY <1>2, CountBySlots, NoFreeSlot
  <2>2. Cardinality(Serving) <= watchLimit /\ Cardinality(interest) = Cardinality(Serving)
    BY <1>2, CountByWatches DEF IInv, WatchesFit
  <2>3. watchLimit \in WatchLimits /\ watchLimit \in Nat /\ MaxClients \in Nat
    BY NumbersOK DEF IInv, TypeOK
  <2> QED BY <1>1, <2>1, <2>2, <2>3, RoomIsMin
<1>6. Service!Cardinality(Service!Serving) = Min({MaxClients, watchLimit})
  BY <1>5, SameCardinality DEF Serving, room
<1>7. Service!Refuse(c)
  BY <1>1, <1>4, <1>6 DEF Service!Refuse
<1> QED BY <1>1, <1>7 DEF Service!Next

LEMMA ReceiveRefines == ASSUME IInv, IInv', Receive, UNCHANGED watchLimit PROVE Service!Next
<1> USE DEF IInv
<1>1. /\ slot \in Slots /\ Used(slot) /\ pc = "recv" /\ pc' = "reply"
      /\ UNCHANGED <<slotFd, slot>>
      /\ idle' = [idle EXCEPT ![slot] = 0]
  BY DEF Receive, TypeOK, VisitedIsUsed, Visiting
<1>2. Table /\ Table' /\ QuietIsAge /\ QuietIsAge'
  BY <1>1, QuietFacts, QuietFactsThen DEF TableMatchesKernel
<1>3. PICK c \in Conns : c = Conn(slot) /\ phase[c] = "open"
  BY <1>1, <1>2, ServedHaveSlot DEF UsedSlots, Serving, Service!Serving
<1>4. PICK k \in 1..MaxMsgs : RecvBytes(c, k)
  BY <1>3 DEF Receive
<1>5. /\ UNCHANGED <<owner, phase>> /\ Conn(slot)' = c
  BY <1>1, <1>3, <1>4 DEF RecvBytes, Conn
<1>6. \A s \in Slots : idle'[s] = IF s = slot THEN 0 ELSE idle[s]
  BY <1>1 DEF TypeOK
<1>7. \A d \in Conns : QuietOf(d)' = IF d = c THEN 0 ELSE QuietOf(d)
  <2> SUFFICES ASSUME NEW d \in Conns PROVE QuietOf(d)' = IF d = c THEN 0 ELSE QuietOf(d)
    OBVIOUS
  <2>1. CASE d = c
    BY <1>1, <1>2, <1>5, <1>6, <2>1 DEF QuietIsAge, Used
  <2>2. CASE d # c /\ phase[d] # "open"
    BY <1>2, <1>5, <2>2 DEF QuietIsAge
  <2>3. CASE d # c /\ phase[d] = "open"
    <3>1. PICK t \in UsedSlots : Conn(t) = d
      BY <1>2, <2>3, ServedHaveSlot DEF Serving, Service!Serving
    <3>2. t \in Slots /\ t # slot /\ Used(t)
      BY <1>3, <2>3, <3>1 DEF UsedSlots
    <3>3. Used(t)' /\ Conn(t)' = d /\ idle'[t] = idle[t]
      BY <1>1, <1>5, <1>6, <3>1, <3>2 DEF Used, Conn
    <3> QED BY <1>2, <2>3, <3>1, <3>2, <3>3 DEF QuietIsAge
  <2> QED BY <2>1, <2>2, <2>3
<1>8. Service!Take(c)
  BY <1>1, <1>3, <1>4, <1>5, <1>7 DEF RecvBytes, Unread, Service!Take, Service!Unread
<1> QED BY <1>1, <1>8 DEF Service!Next

LEMMA ReplyRefines == ASSUME IInv, Reply, UNCHANGED watchLimit PROVE Service!Next
<1>1. /\ pc = "reply" /\ pc' = "dispatch" /\ slot \in Slots /\ Used(slot)
      /\ UNCHANGED <<slotFd, idle, slot>>
  BY DEF Reply, IInv, TypeOK, VisitedIsUsed, Visiting
<1>2. PICK c \in Conns : c = Conn(slot)
  BY <1>1, UsedSlotHasConn DEF IInv, TableMatchesKernel
<1>3. SendReply(c) /\ UNCHANGED owner
  BY <1>2 DEF Reply, SendReply
<1>4. \A d \in Conns : QuietOf(d)' = QuietOf(d)
  BY <1>1, <1>3, QuietUndisturbed
<1>5. Service!Answer(c)
  BY <1>1, <1>2, <1>3, <1>4 DEF SendReply, Service!Answer
<1> QED BY <1>1, <1>5 DEF Service!Next

LEMMA ReplyKillsRefines == ASSUME IInv, ReplyKills, UNCHANGED watchLimit PROVE Service!Next
<1>1. /\ pc = "reply" /\ pc' = "dead" /\ slot \in Slots /\ Used(slot) /\ TypeOK /\ Table
      /\ UNCHANGED slotFd
      /\ Forget({c \in Conns : phase[c] # "new"}) /\ owner' = [f \in Fds |-> Nobody]
  BY DEF ReplyKills, ProcessExit, IInv, TypeOK, VisitedIsUsed, Visiting, TableMatchesKernel
<1>2. PICK c \in Conns : c = Conn(slot) /\ c \in Service!Serving
  BY <1>1, ServedHaveSlot DEF UsedSlots, Serving, Service!Serving
<1>3. rst[c] /\ fin[c]
  BY <1>2 DEF ReplyKills, SendRaisesSigpipe
<1>4. \A d \in Conns : QuietOf(d)' = 0
  <2> SUFFICES ASSUME NEW d \in Conns PROVE QuietOf(d)' = 0
    OBVIOUS
  <2>1. \A s \in Slots : ~(slotFd'[s] # NoFd /\ owner'[slotFd'[s]] = d)
    BY <1>1, NumbersOK DEF TypeOK
  <2> QED BY <2>1, QuietOfNone, QuietIs
<1>5. Service!Forget({d \in Conns : phase[d] # "new"})
  BY <1>1 DEF Forget, Service!Forget
<1>6. Service!Crash
  BY <1>1, <1>2, <1>3, <1>4, <1>5 DEF Service!Crash
<1> QED BY <1>1, <1>6 DEF Service!Next

\* A tick ages every served connection at once.
LEMMA TickRefines == ASSUME IInv, IInv', pc # "dead", Tick PROVE Service!Next
<1> USE DEF IInv
<1>1. UNCHANGED <<hostVars, slotFd, watchLimit, pc, slot>>
  BY DEF Tick
<1>2. Table /\ Table' /\ QuietIsAge /\ QuietIsAge'
  BY <1>1, QuietFacts, QuietFactsThen DEF TableMatchesKernel
<1>3. ASSUME NEW c \in Conns
      PROVE  QuietOf(c)' = IF c \in Serving /\ QuietOf(c) < IdleTimeout
                             THEN QuietOf(c) + 1 ELSE QuietOf(c)
  <2>1. CASE c \notin Serving
    BY <1>1, <1>2, <2>1 DEF QuietIsAge, hostVars, Serving, Service!Serving
  <2>2. CASE c \in Serving
    <3>1. PICK s \in UsedSlots : Conn(s) = c
      BY <1>2, <2>2, ServedHaveSlot
    <3>2. s \in Slots /\ Used(s) /\ Used(s)' /\ Conn(s)' = c
      BY <1>1, <3>1 DEF UsedSlots, Used, Conn, hostVars
    <3>3. QuietOf(c) = idle[s] /\ QuietOf(c)' = idle'[s]
      BY <1>2, <3>1, <3>2 DEF QuietIsAge
    <3>4. idle'[s] = IF idle[s] < IdleTimeout THEN idle[s] + 1 ELSE idle[s]
      BY <3>2 DEF Tick
    <3> QED BY <2>2, <3>3, <3>4
  <2> QED BY <2>1, <2>2
<1>4. Service!Elapse
  BY <1>1, <1>3 DEF Service!Elapse, hostVars, Serving, Conn
<1> QED BY <1>1, <1>4 DEF Service!Next

\* A step of a far end is the same step of EventService.
LEMMA ClientsRefine == ASSUME pc # "dead", Clients PROVE Service!Next
<1>1. PICK c \in Conns : Peer(c)
  BY DEF Clients
<1>2. UNCHANGED <<owner, slotFd, idle, watchLimit, pc, slot>>
  BY DEF Clients, OtherVars, fdVars
<1>3. Service!Peer(c)
  <2> USE DEF Service!Peer, Service!Alive, Service!Unanswered, Alive, Unanswered
  <2>1. CASE Connect(c)
    BY <2>1 DEF Connect, Service!Connect
  <2>2. CASE PeerSend(c)
    BY <2>2 DEF PeerSend, Service!PeerSend
  <2>3. CASE PeerRead(c)
    BY <2>3 DEF PeerRead, Service!PeerRead
  <2>4. CASE PeerClose(c)
    BY <2>4 DEF PeerClose, Service!PeerClose
  <2>5. CASE PeerAbort(c)
    BY <2>5 DEF PeerAbort, Service!PeerAbort
  <2>6. CASE Bounce(c)
    BY <2>6 DEF Bounce, Service!Bounce
  <2> QED BY <1>1, <2>1, <2>2, <2>3, <2>4, <2>5, <2>6 DEF Peer
<1>4. Conn(slot)' = Conn(slot) /\ \A d \in Conns : QuietOf(d)' = QuietOf(d)
  BY <1>2, QuietUndisturbed DEF Conn
<1> QED BY <1>2, <1>3, <1>4 DEF Service!Next

\* The other steps of the loop change nothing that EventService speaks of.
LEMMA OthersStutter ==
  ASSUME \/ /\ \/ EpollWait \/ EndBatch
               \/ \E e \in events : AcceptFails(e) \/ UnknownFd(e) \/ StartRecv(e)
            /\ UNCHANGED watchLimit
         \/ UNCHANGED vars
  PROVE  UNCHANGED Service!serviceVars
<1>1. /\ UNCHANGED <<hostVars, slotFd, idle, watchLimit>>
      /\ \/ pc \notin {"reply", "dead"} /\ pc' \notin {"reply", "dead"}
         \/ UNCHANGED <<pc, slot>>
  BY DEF EpollWait, EndBatch, AcceptFails, UnknownFd, StartRecv, Taking, vars
<1>2. \A c \in Conns : QuietOf(c)' = QuietOf(c)
  BY <1>1, QuietUndisturbed DEF hostVars
<1> QED BY <1>1, <1>2 DEF hostVars, Service!serviceVars, Conn

LEMMA NextRefines ==
  IInv /\ IInv' /\ [Next]_vars => [Service!Next]_Service!serviceVars
<1> SUFFICES ASSUME IInv, IInv', [Next]_vars
             PROVE  [Service!Next]_Service!serviceVars
  OBVIOUS
<1>1. CASE Server
  <2>0. UNCHANGED watchLimit
    BY <1>1 DEF Server
  <2>1. CASE \E e \in events, c \in Pending : RejectClient(e, c)
    BY <2>0, <2>1, RejectRefines
  <2>2. CASE \E e \in events, c \in Pending, f \in Fds, s \in Slots : AcceptClient(e, c, f, s)
    BY <2>0, <2>2, AcceptRefines
  <2>3. CASE (\E e \in events : SocketError(e)) \/ RemoveCurrent
    BY <2>0, <2>3, RemoversRefine
  <2> QED BY <1>1, <2>0, <2>1, <2>2, <2>3, SweepRefines, ReceiveRefines, ReplyRefines,
             ReplyKillsRefines, OthersStutter
      DEF Server
<1> QED BY <1>1, TickRefines, ClientsRefine, OthersStutter DEF Next

(***************************************************************************)
(* epoll_server.c keeps the promises of EventService, but for the closing  *)
(* of a connection that a stale event hits: it turns a client away only    *)
(* while the table or the epoll set is full, answers each receive once and *)
(* on its own connection, and ends only through SIGPIPE.                   *)
(***************************************************************************)
THEOREM ServesAsPromised == Spec => RefinesService
<1>1. Init => Service!Init
  BY InitRefines
<1>2. IInv /\ IInv' /\ [Next]_vars => [Service!Next]_Service!serviceVars
  BY NextRefines
<1> QED BY <1>1, <1>2, Invariance, PTL DEF Spec, RefinesService, Service!Spec

=============================================================================
