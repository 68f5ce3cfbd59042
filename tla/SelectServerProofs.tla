-------------------------- MODULE SelectServerProofs ---------------------------
(***************************************************************************)
(* src/select_server.c for every number of connections, descriptors and    *)
(* slots and every size of the set: types, the agreement of the array with *)
(* the kernel, recv() only where it returns at once, and the refinement of *)
(* EventService.                                                           *)
(***************************************************************************)
EXTENDS SelectServer, FiniteSetTheorems, FunctionTheorems, TLAPS

\* Replies never outnumber receives; while one is due there is one to give.
RepliesBounded == \A c \in Conns : replies[c] <= recvd[c]
ReplyIsDue ==
  pc = "reply" => slot \in Slots /\ Used(slot) /\ replies[Conn(slot)] < recvd[Conn(slot)]

(***************************************************************************)
(* A bit that select() has set is true until the visit of its slot: no     *)
(* descriptor is closed before it, and a new connection has a descriptor   *)
(* that was not in the set.                                                *)
(***************************************************************************)
Unvisited(s) == (pc = "scan" /\ slot <= s) \/ (pc = "reply" /\ slot < s)

BitsAreFresh ==
  /\ pc = "accept" => \A f \in readfds : owner[f] # Nobody /\ Readable(owner[f])
  /\ \A s \in Slots :
       Unvisited(s) /\ Used(s) /\ slotFd[s] \in readfds => Readable(Conn(s))

\* Only descriptors that fit the set are kept.
FdsFitSet == \A f \in Fds : owner[f] # Nobody => f < setSize

IInv ==
  /\ TypeOK
  /\ RepliesBounded
  /\ ReplyIsDue
  /\ TableMatchesKernel
  /\ BitsAreFresh
  /\ FdsFitSet

-----------------------------------------------------------------------------
(***************************************************************************)
(* Facts about the constants and the steps of the kernel.                  *)
(***************************************************************************)
LEMMA NumbersOK ==
  /\ MaxMsgs \in Nat /\ SndCap \in Nat /\ MaxFd \in Nat \ {0} /\ MaxClients \in Nat \ {0}
  /\ SetSizes \subseteq Nat \ {0, 1} /\ FdLimits \subseteq 1..MaxFd
  /\ NoFd \notin Fds /\ Nobody \notin Conns
BY PeersAssumption, HostAssumption, SelectAssumption DEF NoFd, Fds

\* What is forgotten of a closed connection leaves the others alone.
LEMMA ForgetFacts ==
  ASSUME PeersTypeOK, NEW C, Forget(C)
  PROVE  /\ PeersTypeOK'
         /\ RepliesBounded => RepliesBounded'
         /\ \A c \in Conns : phase'[c] = IF c \in C THEN "closed" ELSE phase[c]
         /\ \A c \in Conns \ C :
              /\ sent'[c] = sent[c] /\ recvd'[c] = recvd[c]
              /\ fin'[c] = fin[c] /\ rst'[c] = rst[c]
<1> USE DEF Forget, PeersTypeOK
<1>1. 0 \in 0..MaxMsgs
  BY NumbersOK
<1>2. PeersTypeOK'
  BY <1>1 DEF Phases
<1>3. RepliesBounded => RepliesBounded'
  BY DEF RepliesBounded
<1> QED BY <1>2, <1>3

\* A used slot of the table refers to an open connection of its own.
LEMMA UsedSlotHasConn ==
  ASSUME TypeOK, TableMatchesKernel, NEW s \in Slots, Used(s)
  PROVE  /\ slotFd[s] \in Fds /\ Conn(s) \in Conns /\ phase[Conn(s)] = "open"
         /\ \A t \in Slots : Used(t) /\ t # s => Conn(t) # Conn(s)
<1> USE DEF TableMatchesKernel
<1>1. slotFd[s] \in Fds /\ Conn(s) \in Conns
  BY DEF TypeOK, HostTypeOK, FdsInTable, Used, Conn
<1>2. phase[Conn(s)] = "open"
  BY <1>1 DEF OpenHaveFds, Conn
<1>3. ASSUME NEW t \in Slots, Used(t), t # s PROVE Conn(t) # Conn(s)
  <2>1. slotFd[t] \in Fds /\ slotFd[t] # slotFd[s]
    BY <1>3 DEF TypeOK, Used, SlotsDistinct
  <2> QED BY <1>1, <2>1, NumbersOK DEF OwnersDistinct, Conn
<1> QED BY <1>1, <1>2, <1>3

\* A step that touches neither the table nor the kernel's side of it.
LEMMA TableUnchanged ==
  ASSUME TableMatchesKernel, UNCHANGED <<slotFd, owner>>,
         \A c \in Conns : phase'[c] = "open" <=> phase[c] = "open"
  PROVE  TableMatchesKernel'
BY DEF TableMatchesKernel, SlotsDistinct, OwnersDistinct, FdsInTable, OpenHaveFds, Used

-----------------------------------------------------------------------------
\* Steps of the thread that change only where it stands.
LEMMA SelectKeeps == IInv /\ Select /\ UNCHANGED setSize => IInv'
<1> SUFFICES ASSUME IInv, Select, UNCHANGED setSize PROVE IInv'
  OBVIOUS
<1> USE DEF IInv, Select, hostVars
<1>1. TypeOK'
  BY DEF TypeOK, HostTypeOK, PeersTypeOK, ReadableFds
<1>2. TableMatchesKernel'
  BY TableUnchanged
<1>3. RepliesBounded' /\ ReplyIsDue' /\ FdsFitSet'
  BY DEF RepliesBounded, ReplyIsDue, FdsFitSet
<1>4. BitsAreFresh'
  BY DEF BitsAreFresh, Unvisited, ReadableFds, Readable, Unread
<1> QED BY <1>1, <1>2, <1>3, <1>4

LEMMA NoConnectionKeeps == IInv /\ NoConnection /\ UNCHANGED setSize => IInv'
<1> SUFFICES ASSUME IInv, NoConnection, UNCHANGED setSize PROVE IInv'
  OBVIOUS
<1> USE DEF IInv, NoConnection, ToScan, hostVars
<1>1. TypeOK'
  BY NumbersOK DEF TypeOK, HostTypeOK, PeersTypeOK
<1>2. TableMatchesKernel'
  BY TableUnchanged
<1>3. RepliesBounded' /\ ReplyIsDue' /\ FdsFitSet'
  BY DEF RepliesBounded, ReplyIsDue, FdsFitSet
<1>4. BitsAreFresh'
  BY DEF BitsAreFresh, Unvisited, Used, Conn, Readable, Unread
<1> QED BY <1>1, <1>2, <1>3, <1>4

LEMMA TurnEndsKeeps == IInv /\ (AcceptFails \/ EndScan) /\ UNCHANGED setSize => IInv'
<1> SUFFICES ASSUME IInv, AcceptFails \/ EndScan, UNCHANGED setSize PROVE IInv'
  OBVIOUS
<1> USE DEF IInv
<1>1. UNCHANGED <<hostVars, slotFd, readfds, listenReady, slot>> /\ pc' = "select"
  BY DEF AcceptFails, NextTurn, EndScan
<1> USE <1>1 DEF hostVars
<1>2. TypeOK'
  BY DEF TypeOK, HostTypeOK, PeersTypeOK
<1>3. TableMatchesKernel'
  BY TableUnchanged
<1>4. RepliesBounded' /\ ReplyIsDue' /\ FdsFitSet' /\ BitsAreFresh'
  BY DEF RepliesBounded, ReplyIsDue, FdsFitSet, BitsAreFresh, Unvisited
<1> QED BY <1>2, <1>3, <1>4

LEMMA SkipSlotKeeps == IInv /\ SkipSlot /\ UNCHANGED setSize => IInv'
<1> SUFFICES ASSUME IInv, SkipSlot, UNCHANGED setSize PROVE IInv'
  OBVIOUS
<1> USE DEF IInv, SkipSlot, hostVars
<1>1. TypeOK'
  BY NumbersOK DEF TypeOK, HostTypeOK, PeersTypeOK, Scanning, Slots
<1>2. TableMatchesKernel'
  BY TableUnchanged
<1>3. RepliesBounded' /\ ReplyIsDue' /\ FdsFitSet'
  BY DEF RepliesBounded, ReplyIsDue, FdsFitSet, Scanning
<1>4. \A s \in Slots : Unvisited(s)' => Unvisited(s)
  BY DEF Unvisited, Scanning, Slots
<1>5. BitsAreFresh'
  BY <1>4 DEF BitsAreFresh, Used, Conn, Readable, Unread, Scanning
<1> QED BY <1>1, <1>2, <1>3, <1>5

\* Both ways of turning a connection away leave the table alone.
LEMMA RejectKeeps ==
  ASSUME NEW c \in Pending, IInv, RejectHighFd(c) \/ RejectClient(c), UNCHANGED setSize
  PROVE  IInv'
<1> USE DEF IInv
<1>1. /\ c \in Conns /\ phase[c] = "queued" /\ pc = "accept" /\ Forget({c})
      /\ UNCHANGED <<owner, fdLimit, slotFd, readfds, listenReady>>
      /\ \/ pc' = "select" /\ slot' = slot
         \/ pc' = "scan" /\ slot' = 1
  BY DEF Pending, RejectHighFd, RejectClient, ToScan, NextTurn, AcceptAndClose
<1>2. /\ PeersTypeOK' /\ RepliesBounded'
      /\ \A d \in Conns : phase'[d] = IF d = c THEN "closed" ELSE phase[d]
      /\ \A d \in Conns \ {c} : /\ sent'[d] = sent[d] /\ recvd'[d] = recvd[d]
                               /\ fin'[d] = fin[d] /\ rst'[d] = rst[d]
  BY <1>1, ForgetFacts DEF TypeOK, HostTypeOK
<1>3. TypeOK'
  BY <1>1, <1>2, NumbersOK DEF TypeOK, HostTypeOK
<1>4. TableMatchesKernel'
  BY <1>1, <1>2, TableUnchanged
<1>5. ReplyIsDue' /\ FdsFitSet'
  BY <1>1 DEF ReplyIsDue, FdsFitSet
<1>6. BitsAreFresh'
  <2> SUFFICES ASSUME NEW s \in Slots, Used(s), slotFd[s] \in readfds
               PROVE  Readable(Conn(s))'
    BY <1>1 DEF BitsAreFresh, Used
  <2>1. PICK d \in Conns \ {c} : d = Conn(s) /\ d = Conn(s)'
    BY <1>1, UsedSlotHasConn DEF Conn
  <2>2. Readable(d)
    BY <1>1, <2>1 DEF BitsAreFresh, Conn
  <2> QED BY <1>2, <2>1, <2>2 DEF Readable, Unread, Conn
<1> QED BY <1>2, <1>3, <1>4, <1>5, <1>6

LEMMA AcceptClientKeeps ==
  ASSUME NEW c \in Pending, NEW f \in Fds, NEW s \in Slots, IInv, AcceptClient(c, f, s),
         UNCHANGED setSize
  PROVE  IInv'
<1> USE DEF IInv, AcceptClient, ToScan, AcceptOn
<1>0. c \in Conns /\ phase[c] = "queued" /\ owner[f] = Nobody /\ ~Used(s) /\ f # NoFd
  BY NumbersOK DEF Pending, LowestFree
<1>1. TypeOK'
  <2>1. HostTypeOK'
    BY <1>0 DEF TypeOK, HostTypeOK, PeersTypeOK, Phases
  <2> QED BY <2>1, NumbersOK DEF TypeOK
<1>2. /\ \A t \in Slots : slotFd'[t] = IF t = s THEN f ELSE slotFd[t]
      /\ \A g \in Fds : owner'[g] = IF g = f THEN c ELSE owner[g]
      /\ \A d \in Conns : phase'[d] = IF d = c THEN "open" ELSE phase[d]
  BY DEF TypeOK, HostTypeOK, PeersTypeOK
<1>3. \A t \in Slots : slotFd[t] # f
  BY <1>0 DEF TableMatchesKernel, FdsInTable
<1>4. \A g \in Fds : owner[g] # c
  BY <1>0 DEF TableMatchesKernel, OpenHaveFds
<1>5. TableMatchesKernel'
  <2> USE <1>2 DEF TableMatchesKernel
  <2>1. SlotsDistinct'
    BY <1>3 DEF SlotsDistinct, Used
  <2>2. OwnersDistinct'
    BY <1>4 DEF OwnersDistinct
  <2>3. FdsInTable'
    BY <1>0, <1>3, NumbersOK DEF FdsInTable, Used
  <2>4. OpenHaveFds'
    BY <1>0, <1>4, NumbersOK DEF OpenHaveFds
  <2> QED BY <2>1, <2>2, <2>3, <2>4
<1>6. RepliesBounded' /\ ReplyIsDue' /\ FdsFitSet'
  BY <1>2 DEF RepliesBounded, ReplyIsDue, FdsFitSet
<1>7. BitsAreFresh'
  <2> SUFFICES ASSUME NEW t \in Slots, slotFd'[t] \in readfds
               PROVE  Readable(Conn(t))'
    BY DEF BitsAreFresh
  <2>1. PICK g \in Fds : g = slotFd'[t] /\ g \in readfds
    BY DEF TypeOK
  <2>2. owner[g] # Nobody /\ Readable(owner[g])
    BY <2>1 DEF BitsAreFresh
  <2>3. PICK d \in Conns : d = owner[g] /\ d = Conn(t)' /\ Readable(d)
    <3>1. owner[g] \in Conns /\ owner'[g] = owner[g]
      BY <1>0, <1>2, <2>2 DEF TypeOK, HostTypeOK
    <3> QED BY <2>1, <2>2, <3>1 DEF Conn
  <2>4. Readable(d)'
    BY <2>3 DEF Readable, Unread
  <2> HIDE DEF AcceptClient, ToScan, AcceptOn
  <2> QED BY <2>3, <2>4 DEF Readable, Unread, Conn
<1> QED BY <1>1, <1>5, <1>6, <1>7

LEMMA ReceiveKeeps == IInv /\ Receive /\ UNCHANGED setSize => IInv'
<1> SUFFICES ASSUME IInv, Receive, UNCHANGED setSize PROVE IInv'
  OBVIOUS
<1> USE DEF IInv
<1>1. /\ slot \in Slots /\ Used(slot) /\ pc = "scan" /\ pc' = "reply"
      /\ UNCHANGED <<slotFd, readfds, listenReady, slot>>
  BY DEF Receive, MustRecv, Scanning
<1>2. PICK c \in Conns : c = Conn(slot)
  BY <1>1, UsedSlotHasConn
<1>3. PICK k \in 1..MaxMsgs : RecvBytes(c, k)
  BY <1>2 DEF Receive
<1>4. /\ recvd' = [recvd EXCEPT ![c] = @ + k]
      /\ k \in Nat /\ 1 <= k /\ k <= sent[c] - recvd[c]
      /\ UNCHANGED <<phase, sent, replies, taken, fin, rst, owner, fdLimit>>
  BY <1>3, NumbersOK DEF RecvBytes, Unread, TypeOK, HostTypeOK, PeersTypeOK
<1>5. TypeOK'
  <2>1. recvd' \in [Conns -> 0..MaxMsgs]
    BY <1>4, NumbersOK DEF TypeOK, HostTypeOK, PeersTypeOK
  <2>2. HostTypeOK'
    BY <1>4, <2>1 DEF TypeOK, HostTypeOK, PeersTypeOK
  <2> QED BY <1>1, <2>2 DEF TypeOK
<1>6. TableMatchesKernel'
  BY <1>1, <1>4, TableUnchanged
<1>7. RepliesBounded' /\ ReplyIsDue'
  BY <1>1, <1>2, <1>4
  DEF RepliesBounded, ReplyIsDue, Used, Conn, TypeOK, HostTypeOK, PeersTypeOK
<1>8. FdsFitSet'
  BY <1>4 DEF FdsFitSet
<1>9. BitsAreFresh'
  <2> SUFFICES ASSUME NEW s \in Slots, slot < s, Used(s), slotFd[s] \in readfds
               PROVE  Readable(Conn(s))'
    BY <1>1 DEF BitsAreFresh, Unvisited, Used
  <2>1. PICK d \in Conns : d = Conn(s) /\ d = Conn(s)' /\ d # c
    BY <1>1, <1>2, <1>4, UsedSlotHasConn DEF Conn, Slots
  <2>2. Readable(d)
    <3>1. Unvisited(s)
      BY <1>1, NumbersOK DEF Unvisited, Slots
    <3> QED BY <2>1, <3>1 DEF BitsAreFresh
  <2>3. Readable(d)'
    BY <1>4, <2>1, <2>2 DEF Readable, Unread, TypeOK, HostTypeOK, PeersTypeOK
  <2> QED BY <2>1, <2>3 DEF Readable, Unread, Conn
<1> QED BY <1>5, <1>6, <1>7, <1>8, <1>9

LEMMA ReplyKeeps == IInv /\ Reply /\ UNCHANGED setSize => IInv'
<1> SUFFICES ASSUME IInv, Reply, UNCHANGED setSize PROVE IInv'
  OBVIOUS
<1> USE DEF IInv
<1>1. /\ pc = "reply" /\ pc' = "scan" /\ slot' = slot + 1 /\ slot \in Slots /\ Used(slot)
      /\ UNCHANGED <<slotFd, readfds, listenReady>>
  BY DEF Reply, ReplyIsDue
<1>2. PICK c \in Conns : c = Conn(slot)
  BY <1>1, UsedSlotHasConn
<1>3. /\ replies' = [replies EXCEPT ![c] = @ + 1] /\ replies[c] < recvd[c]
      /\ UNCHANGED <<phase, sent, recvd, taken, fin, rst, owner, fdLimit>>
  BY <1>1, <1>2 DEF Reply, SendReply, ReplyIsDue
<1>4. TypeOK'
  <2>1. replies' \in [Conns -> 0..MaxMsgs]
    BY <1>3, NumbersOK DEF TypeOK, HostTypeOK, PeersTypeOK
  <2>2. HostTypeOK'
    BY <1>3, <2>1 DEF TypeOK, HostTypeOK, PeersTypeOK
  <2>3. slot' \in 1..(MaxClients + 1)
    BY <1>1, NumbersOK DEF Slots
  <2> QED BY <1>1, <2>2, <2>3 DEF TypeOK
<1>5. TableMatchesKernel'
  BY <1>1, <1>3, TableUnchanged
<1>6. RepliesBounded' /\ ReplyIsDue' /\ FdsFitSet'
  BY <1>1, <1>3 DEF RepliesBounded, ReplyIsDue, FdsFitSet, TypeOK, HostTypeOK, PeersTypeOK
<1>7. \A s \in Slots : Unvisited(s)' => Unvisited(s)
  BY <1>1 DEF Unvisited, Slots
<1>8. BitsAreFresh'
  BY <1>1, <1>3, <1>7 DEF BitsAreFresh, Used, Conn, Readable, Unread
<1> QED BY <1>4, <1>5, <1>6, <1>8

\* What closing the current slot does to the table and to the connections.
LEMMA CloseCurrentFacts ==
  ASSUME IInv, CloseCurrent
  PROVE  /\ slot \in Slots /\ Used(slot) /\ Conn(slot) \in Conns /\ slotFd[slot] \in Fds
         /\ pc \in {"scan", "reply"} /\ pc' = "scan" /\ slot' = slot + 1
         /\ \A s \in Slots : slotFd'[s] = IF s = slot THEN NoFd ELSE slotFd[s]
         /\ \A f \in Fds : owner'[f] = IF f = slotFd[slot] THEN Nobody ELSE owner[f]
         /\ Forget({Conn(slot)})
         /\ UNCHANGED <<readfds, listenReady, fdLimit>>
<1> USE DEF IInv
<1>1. slot \in Slots /\ Used(slot) /\ pc \in {"scan", "reply"}
  BY DEF CloseCurrent, MustRecv, Scanning, ReplyIsDue
<1>2. slotFd[slot] \in Fds /\ Conn(slot) \in Conns
  BY <1>1, UsedSlotHasConn
<1>3. {c \in Conns : \E f \in {slotFd[slot]} \cap Fds : owner[f] = c} = {Conn(slot)}
  BY <1>2 DEF Conn
<1>4. Forget({Conn(slot)}) /\ fdLimit' = fdLimit
  BY <1>3 DEF CloseCurrent, CloseFds
<1>5. \A f \in Fds : owner'[f] = IF f = slotFd[slot] THEN Nobody ELSE owner[f]
  BY DEF CloseCurrent, CloseFds
<1>6. \A s \in Slots : slotFd'[s] = IF s = slot THEN NoFd ELSE slotFd[s]
  BY DEF CloseCurrent, TypeOK
<1>7. pc' = "scan" /\ slot' = slot + 1 /\ UNCHANGED <<readfds, listenReady>>
  BY DEF CloseCurrent
<1> QED BY <1>1, <1>2, <1>4, <1>5, <1>6, <1>7

LEMMA CloseCurrentKeeps == IInv /\ CloseCurrent /\ UNCHANGED setSize => IInv'
<1> SUFFICES ASSUME IInv, CloseCurrent, UNCHANGED setSize PROVE IInv'
  OBVIOUS
<1> USE DEF IInv
<1>1. PICK c \in Conns, f \in Fds : c = Conn(slot) /\ f = slotFd[slot]
  BY CloseCurrentFacts
<1>2. /\ slot \in Slots /\ Used(slot) /\ owner[f] = c
      /\ pc \in {"scan", "reply"} /\ pc' = "scan" /\ slot' = slot + 1
      /\ \A s \in Slots : slotFd'[s] = IF s = slot THEN NoFd ELSE slotFd[s]
      /\ \A g \in Fds : owner'[g] = IF g = f THEN Nobody ELSE owner[g]
      /\ Forget({c})
      /\ UNCHANGED <<readfds, listenReady, fdLimit>>
  BY <1>1, CloseCurrentFacts DEF Conn
<1>3. /\ PeersTypeOK' /\ RepliesBounded'
      /\ \A d \in Conns : phase'[d] = IF d = c THEN "closed" ELSE phase[d]
      /\ \A d \in Conns \ {c} : /\ sent'[d] = sent[d] /\ recvd'[d] = recvd[d]
                               /\ fin'[d] = fin[d] /\ rst'[d] = rst[d]
  BY <1>2, ForgetFacts DEF TypeOK, HostTypeOK
<1>4. TypeOK'
  <2>1. owner' \in [Fds -> Conns \cup {Nobody}]
    BY DEF CloseCurrent, CloseFds, TypeOK, HostTypeOK
  <2>2. slotFd' \in [Slots -> Fds \cup {NoFd}]
    BY DEF CloseCurrent, TypeOK
  <2>3. slot' \in 1..(MaxClients + 1)
    BY <1>2, NumbersOK DEF Slots
  <2> QED BY <1>2, <1>3, <2>1, <2>2, <2>3 DEF TypeOK, HostTypeOK
<1>5. TableMatchesKernel'
  <2> USE <1>2 DEF TableMatchesKernel
  <2>1. SlotsDistinct'
    BY DEF SlotsDistinct, Used
  <2>2. OwnersDistinct'
    BY DEF OwnersDistinct
  <2>3. FdsInTable'
    <3> SUFFICES ASSUME NEW g \in Fds
                 PROVE  owner'[g] # Nobody <=> \E s \in Slots : slotFd'[s] = g
      BY DEF FdsInTable
    <3>1. (\E s \in Slots : slotFd'[s] = g) <=> (\E s \in Slots \ {slot} : slotFd[s] = g)
      BY NumbersOK
    <3>2. (\E s \in Slots \ {slot} : slotFd[s] = g)
            <=> (\E s \in Slots : slotFd[s] = g) /\ g # f
      BY <1>1, NumbersOK DEF SlotsDistinct, Used
    <3> QED BY <3>1, <3>2 DEF FdsInTable
  <2>4. OpenHaveFds'
    BY <1>3, NumbersOK DEF OpenHaveFds, OwnersDistinct
  <2> QED BY <2>1, <2>2, <2>3, <2>4
<1>6. ReplyIsDue' /\ FdsFitSet'
  BY <1>2 DEF ReplyIsDue, FdsFitSet
<1>7. BitsAreFresh'
  <2> SUFFICES ASSUME NEW s \in Slots, slot + 1 <= s, Used(s)', slotFd'[s] \in readfds
               PROVE  Readable(Conn(s))'
    BY <1>2 DEF BitsAreFresh, Unvisited
  <2>1. slot < s /\ s # slot
    BY <1>2, NumbersOK DEF Slots
  <2>2. Used(s) /\ slotFd'[s] = slotFd[s] /\ slotFd[s] # f
    BY <1>1, <1>2, <2>1 DEF Used, TableMatchesKernel, SlotsDistinct
  <2>3. PICK d \in Conns : d = Conn(s) /\ d = Conn(s)' /\ d # c
    <3>1. slotFd[s] \in Fds /\ Conn(s) \in Conns /\ Conn(s) # c
      BY <1>1, <1>2, <2>1, <2>2, UsedSlotHasConn
    <3>2. owner'[slotFd[s]] = owner[slotFd[s]]
      BY <1>2, <2>2, <3>1
    <3> QED BY <2>2, <3>1, <3>2 DEF Conn
  <2>4. Readable(d)
    <3>1. Unvisited(s)
      BY <1>2, <2>1 DEF Unvisited, Slots
    <3> QED BY <2>2, <2>3, <3>1 DEF BitsAreFresh
  <2> QED BY <1>3, <2>3, <2>4 DEF Readable, Unread, Conn
<1> QED BY <1>3, <1>4, <1>5, <1>6, <1>7

(***************************************************************************)
(* A step of a peer keeps the types of the kernel, opens and closes no     *)
(* descriptor, and never takes readability away.                           *)
(***************************************************************************)
LEMMA PeerStep ==
  ASSUME TypeOK, NEW c \in Conns, Peer(c)
  PROVE  /\ PeersTypeOK'
         /\ UNCHANGED <<recvd, replies>>
         /\ \A d \in Conns : phase'[d] = "open" <=> phase[d] = "open"
         /\ \A d \in Conns : Readable(d) => Readable(d)'
<1> USE DEF TypeOK, HostTypeOK, PeersTypeOK, Phases, Readable, Unread
<1>1. CASE Connect(c)
  BY <1>1 DEF Connect
<1>2. CASE PeerSend(c)
  <2>1. sent' \in [Conns -> 0..MaxMsgs]
    BY <1>2, NumbersOK DEF PeerSend
  <2> QED BY <1>2, <2>1, NumbersOK DEF PeerSend
<1>3. CASE PeerRead(c)
  BY <1>3 DEF PeerRead
<1>4. CASE PeerClose(c)
  BY <1>4 DEF PeerClose
<1>5. CASE PeerAbort(c)
  BY <1>5 DEF PeerAbort
<1>6. CASE Bounce(c)
  BY <1>6 DEF Bounce
<1> QED BY <1>1, <1>2, <1>3, <1>4, <1>5, <1>6 DEF Peer

LEMMA ClientsKeep == IInv /\ (Clients \/ UNCHANGED vars) => IInv'
<1> SUFFICES ASSUME IInv, Clients \/ UNCHANGED vars PROVE IInv'
  OBVIOUS
<1> USE DEF IInv, fdVars
<1>1. UNCHANGED <<fdVars, setSize, slotFd, readfds, listenReady, pc, slot>>
  BY DEF Clients, vars, hostVars
<1>2. /\ PeersTypeOK'
      /\ UNCHANGED <<recvd, replies>>
      /\ \A d \in Conns : phase'[d] = "open" <=> phase[d] = "open"
      /\ \A d \in Conns : Readable(d) => Readable(d)'
  <2>1. CASE Clients
    BY <2>1, PeerStep DEF Clients
  <2>2. CASE UNCHANGED vars
    BY <2>2 DEF vars, hostVars, TypeOK, HostTypeOK, PeersTypeOK, Readable, Unread
  <2> QED BY <2>1, <2>2
<1>3. TypeOK'
  BY <1>1, <1>2 DEF TypeOK, HostTypeOK
<1>4. TableMatchesKernel'
  BY <1>1, <1>2, TableUnchanged
<1>5. RepliesBounded' /\ ReplyIsDue' /\ FdsFitSet'
  BY <1>1, <1>2 DEF RepliesBounded, ReplyIsDue, FdsFitSet, Used, Conn
<1>6. BitsAreFresh'
  <2>1. ASSUME pc = "accept", NEW f \in readfds
        PROVE  owner'[f] # Nobody /\ Readable(owner[f])'
    <3>1. PICK d \in Conns : d = owner[f] /\ d = owner'[f]
      BY <1>1, <2>1 DEF BitsAreFresh, TypeOK, HostTypeOK
    <3>2. Readable(d)
      BY <2>1, <3>1 DEF BitsAreFresh
    <3>3. Readable(d)'
      BY <1>2, <3>2
    <3> QED BY <3>1, <3>3, NumbersOK DEF Readable, Unread
  <2>2. ASSUME NEW s \in Slots, Unvisited(s), Used(s), slotFd[s] \in readfds
        PROVE  Readable(Conn(s))'
    <3>1. PICK d \in Conns : d = Conn(s) /\ d = Conn(s)'
      BY <1>1, <2>2, UsedSlotHasConn DEF Conn
    <3>2. Readable(d)
      BY <2>2, <3>1 DEF BitsAreFresh
    <3>3. Readable(d)'
      BY <1>2, <3>2
    <3> QED BY <3>1, <3>3 DEF Readable, Unread, Conn
  <2> QED BY <1>1, <2>1, <2>2 DEF BitsAreFresh, Unvisited, Used
<1> QED BY <1>2, <1>3, <1>4, <1>5, <1>6

-----------------------------------------------------------------------------
LEMMA InitIInv == Init => IInv
<1> SUFFICES ASSUME Init PROVE IInv
  OBVIOUS
<1> USE DEF Init, HostInit, PeersInit
<1>1. TypeOK
  <2>1. 0 \in 0..MaxMsgs /\ 1 \in 1..(MaxClients + 1)
    BY NumbersOK
  <2>2. HostTypeOK
    BY <2>1 DEF HostTypeOK, PeersTypeOK, Phases
  <2> QED BY <2>1, <2>2 DEF TypeOK
<1>2. TableMatchesKernel
  BY NumbersOK
  DEF TableMatchesKernel, SlotsDistinct, OwnersDistinct, FdsInTable, OpenHaveFds, Used
<1> QED BY <1>1, <1>2
        DEF IInv, RepliesBounded, ReplyIsDue, BitsAreFresh, Unvisited, FdsFitSet

LEMMA NextIInv == IInv /\ [Next]_vars => IInv'
<1> SUFFICES ASSUME IInv, [Next]_vars PROVE IInv'
  OBVIOUS
<1>1. CASE Server
  <2>1. CASE \E c \in Pending : RejectHighFd(c) \/ RejectClient(c)
    BY <1>1, <2>1, RejectKeeps DEF Server
  <2>2. CASE \E c \in Pending, f \in Fds, s \in Slots : AcceptClient(c, f, s)
    BY <1>1, <2>2, AcceptClientKeeps DEF Server
  <2> QED
    BY <1>1, <2>1, <2>2, SelectKeeps, NoConnectionKeeps, TurnEndsKeeps, SkipSlotKeeps,
       ReceiveKeeps, CloseCurrentKeeps, ReplyKeeps
    DEF Server
<1> QED BY <1>1, ClientsKeep DEF Next

LEMMA Invariance == Spec => []IInv
BY InitIInv, NextIInv, PTL DEF Spec

(***************************************************************************)
(* Every variable keeps its type.                                          *)
(***************************************************************************)
THEOREM TypeCorrect == Spec => []TypeOK
<1>1. IInv => TypeOK
  BY DEF IInv
<1> QED BY <1>1, Invariance, PTL

(***************************************************************************)
(* The array of select_server.c and the descriptors of the process always  *)
(* agree, so no client is lost and select() is never given a closed one.   *)
(***************************************************************************)
THEOREM TableAgrees == Spec => []TableMatchesKernel
<1>1. IInv => TableMatchesKernel
  BY DEF IInv
<1> QED BY <1>1, Invariance, PTL

(***************************************************************************)
(* The single thread never waits in recv(): a bit of the set is acted on   *)
(* only while it holds.                                                    *)
(***************************************************************************)
THEOREM RecvIsPrompt == Spec => []RecvNeverBlocks
<1>1. IInv => RecvNeverBlocks
  BY DEF IInv, TypeOK, BitsAreFresh, Unvisited, RecvNeverBlocks, MustRecv, Scanning, Slots
<1> QED BY <1>1, Invariance, PTL

-----------------------------------------------------------------------------
(***************************************************************************)
(* How many connections are served, counted by their descriptors and by    *)
(* their slots.                                                            *)
(***************************************************************************)
\* The abstract specification counts as this module does.
LEMMA SameCardinality == \A S : Service!Cardinality(S) = Cardinality(S)
BY DEF Cardinality, Service!Cardinality

\* Two sets that correspond one to one have the same size.
LEMMA SameSize ==
  ASSUME NEW S, NEW T, IsFiniteSet(S), NEW F \in [S -> T],
         \A a, b \in S : F[a] = F[b] => a = b,
         \A t \in T : \E s \in S : F[s] = t
  PROVE  IsFiniteSet(T) /\ Cardinality(T) = Cardinality(S)
<1>1. F \in Bijection(S, T)
  BY Fun_IsBij
<1>2. ExistsBijection(S, T)
  BY <1>1, Fun_ExistsBij
<1> QED BY <1>2, FS_Bijection

Serving == Service!Serving
Owned == {f \in Fds : owner[f] # Nobody}
UsedSlots == {s \in Slots : Used(s)}

LEMMA ServedHaveFdAndSlot ==
  ASSUME TypeOK, TableMatchesKernel
  PROVE  /\ IsFiniteSet(Serving) /\ Cardinality(Serving) \in Nat
         /\ Cardinality(Serving) = Cardinality(Owned)
         /\ Cardinality(Serving) = Cardinality(UsedSlots)
<1>1. IsFiniteSet(UsedSlots)
  <2>1. IsFiniteSet(Slots)
    BY NumbersOK, FS_Interval DEF Slots
  <2>2. UsedSlots \in SUBSET Slots
    BY DEF UsedSlots
  <2> QED BY <2>1, <2>2, FS_Subset
<1>2. IsFiniteSet(Owned) /\ Cardinality(Owned) = Cardinality(UsedSlots)
  <2> DEFINE F == [s \in UsedSlots |-> slotFd[s]]
  <2>1. \A s \in UsedSlots : slotFd[s] \in Owned
    BY NumbersOK DEF UsedSlots, Owned, TypeOK, Used, TableMatchesKernel, FdsInTable
  <2>2. F \in [UsedSlots -> Owned]
    BY <2>1
  <2>3. \A s, t \in UsedSlots : F[s] = F[t] => s = t
    BY DEF UsedSlots, TableMatchesKernel, SlotsDistinct
  <2>4. \A f \in Owned : \E s \in UsedSlots : F[s] = f
    BY NumbersOK DEF UsedSlots, Owned, Used, TableMatchesKernel, FdsInTable
  <2> HIDE DEF F
  <2> QED BY <1>1, <2>2, <2>3, <2>4, SameSize
<1>3. IsFiniteSet(Serving) /\ Cardinality(Serving) = Cardinality(Owned)
  <2> DEFINE G == [f \in Owned |-> owner[f]]
  <2>1. G \in [Owned -> Serving]
    BY DEF Owned, Serving, Service!Serving, TypeOK, HostTypeOK, TableMatchesKernel, OpenHaveFds
  <2>2. \A f, g \in Owned : G[f] = G[g] => f = g
    BY DEF Owned, TableMatchesKernel, OwnersDistinct
  <2>3. \A c \in Serving : \E f \in Owned : G[f] = c
    BY NumbersOK DEF Owned, Serving, Service!Serving, TableMatchesKernel, OpenHaveFds
  <2> HIDE DEF G
  <2> QED BY <1>2, <2>1, <2>2, <2>3, SameSize
<1> QED BY <1>2, <1>3, FS_CardinalityType

LEMMA CountBySlots ==
  ASSUME IInv
  PROVE  /\ Cardinality(Serving) \in Nat
         /\ Cardinality(Serving) <= MaxClients
         /\ (\E s \in Slots : ~Used(s)) => Cardinality(Serving) # MaxClients
         /\ (\A s \in Slots : Used(s)) => Cardinality(Serving) = MaxClients
<1>1. IsFiniteSet(Slots) /\ Cardinality(Slots) = MaxClients
  BY NumbersOK, FS_Interval DEF Slots
<1>2. UsedSlots \in SUBSET Slots
  BY DEF UsedSlots
<1>3. /\ Cardinality(UsedSlots) <= Cardinality(Slots)
      /\ Cardinality(Slots) = Cardinality(UsedSlots) => Slots = UsedSlots
  BY <1>1, <1>2, FS_Subset
<1>4. Cardinality(Serving) \in Nat /\ Cardinality(Serving) = Cardinality(UsedSlots)
  BY ServedHaveFdAndSlot DEF IInv
<1>5. (\A s \in Slots : Used(s)) <=> Slots = UsedSlots
  BY DEF UsedSlots
<1> QED BY <1>1, <1>3, <1>4, <1>5

LEMMA CountByFds ==
  ASSUME IInv
  PROVE  /\ Cardinality(Serving) <= setSize - 1
         /\ (\E f \in Fds : f < setSize /\ owner[f] = Nobody) =>
              Cardinality(Serving) # setSize - 1
         /\ (\A f \in 1..(setSize - 1) : f \in Fds /\ owner[f] # Nobody) =>
              Cardinality(Serving) = setSize - 1
<1> DEFINE Low == 1..(setSize - 1)
<1>1. setSize \in Nat /\ setSize > 1
  BY NumbersOK DEF IInv, TypeOK
<1>2. IsFiniteSet(Low) /\ Cardinality(Low) = setSize - 1
  BY <1>1, FS_Interval
<1>3. Owned \in SUBSET Low
  BY <1>1, NumbersOK DEF Owned, IInv, FdsFitSet, Fds
<1>4. ASSUME NEW f \in Fds, f < setSize, owner[f] = Nobody
      PROVE  f \in Low /\ f \notin Owned
  BY <1>1, <1>4, NumbersOK DEF Owned, Fds
<1>5. (\A f \in Low : f \in Fds /\ owner[f] # Nobody) => Low \subseteq Owned
  BY DEF Owned
<1> HIDE DEF Low
<1>6. /\ Cardinality(Owned) <= Cardinality(Low)
      /\ Cardinality(Low) = Cardinality(Owned) => Low = Owned
  BY <1>2, <1>3, FS_Subset
<1>7. Cardinality(Serving) = Cardinality(Owned)
  BY ServedHaveFdAndSlot DEF IInv
<1>8. (\A f \in Low : f \in Fds /\ owner[f] # Nobody) => Cardinality(Serving) = setSize - 1
  BY <1>2, <1>3, <1>5, <1>7
<1>9. (\E f \in Fds : f < setSize /\ owner[f] = Nobody) => Cardinality(Serving) # setSize - 1
  BY <1>2, <1>4, <1>6, <1>7
<1> QED BY <1>2, <1>6, <1>7, <1>8, <1>9 DEF Low

\* The number of connections that fit: the smaller of the array and the set.
room == Min({MaxClients, setSize - 1})

LEMMA RoomIsMin ==
  ASSUME setSize \in SetSizes
  PROVE  /\ room \in 1..MaxClients /\ room <= setSize - 1
         /\ room = MaxClients \/ room = setSize - 1
<1>1. setSize \in Nat /\ setSize > 1 /\ MaxClients \in Nat /\ MaxClients > 0
  BY NumbersOK
<1>2. \E x \in {MaxClients, setSize - 1} : \A y \in {MaxClients, setSize - 1} : x <= y
  BY <1>1
<1>3. /\ room \in {MaxClients, setSize - 1}
      /\ \A y \in {MaxClients, setSize - 1} : room <= y
  BY <1>2 DEF room, Min
<1> QED BY <1>1, <1>3

-----------------------------------------------------------------------------
(***************************************************************************)
(* The refinement: each action of the loop that changes connections is one *)
(* action of EventService, and the others change nothing there.            *)
(***************************************************************************)
LEMMA InitRefines == Init => Service!Init
<1> SUFFICES ASSUME Init PROVE Service!Init
  OBVIOUS
<1> USE DEF Init, HostInit
<1>1. Service!PeersInit
  BY DEF PeersInit, Service!PeersInit
<1>2. Min({MaxClients, setSize - 1}) \in 1..MaxClients
  BY RoomIsMin DEF room
<1> QED BY <1>1, <1>2 DEF Service!Init

LEMMA AcceptRefines ==
  ASSUME IInv, NEW c \in Pending, NEW f \in Fds, NEW s \in Slots, AcceptClient(c, f, s),
         UNCHANGED setSize
  PROVE  Service!Next
<1>1. c \in Conns /\ phase[c] = "queued" /\ pc = "accept" /\ pc' = "scan"
  BY DEF Pending, AcceptClient, ToScan
<1>2. Cardinality(Serving) < room
  <2>1. ~Used(s) /\ owner[f] = Nobody /\ f < setSize
    BY DEF AcceptClient, LowestFree
  <2>2. Cardinality(Serving) \in Nat /\ Cardinality(Serving) < MaxClients
    BY <2>1, CountBySlots, NumbersOK
  <2>3. Cardinality(Serving) <= setSize - 1 /\ Cardinality(Serving) # setSize - 1
    BY <2>1, CountByFds
  <2>4. setSize \in SetSizes /\ setSize \in Nat
    BY NumbersOK DEF IInv, TypeOK
  <2> QED BY <2>2, <2>3, <2>4, RoomIsMin
<1>3. Service!Cardinality(Service!Serving) < Min({MaxClients, setSize - 1})
  BY <1>2, SameCardinality DEF Serving, room
<1>4. Service!Admit(c)
  BY <1>1, <1>3 DEF AcceptClient, AcceptOn, Service!Admit
<1> QED BY <1>1, <1>4 DEF Service!Next

LEMMA RejectRefines ==
  ASSUME IInv, NEW c \in Pending, RejectHighFd(c) \/ RejectClient(c), UNCHANGED setSize
  PROVE  Service!Next
<1>1. c \in Conns /\ phase[c] = "queued" /\ pc = "accept" /\ pc' # "reply" /\ Forget({c})
  BY DEF Pending, RejectHighFd, RejectClient, ToScan, NextTurn, AcceptAndClose
<1>2. setSize \in SetSizes /\ setSize \in Nat
  BY NumbersOK DEF IInv, TypeOK
<1>3. Cardinality(Serving) = room
  <2>1. CASE RejectHighFd(c)
    <3>1. PICK f \in Fds : LowestFree(f) /\ f >= setSize
      BY <2>1 DEF RejectHighFd
    <3>2. ASSUME NEW g \in 1..(setSize - 1) PROVE g \in Fds /\ owner[g] # Nobody
      <4>1. g \in Fds /\ g < f
        BY <1>2, <3>1, NumbersOK DEF Fds
      <4> QED BY <1>2, <3>1, <4>1, NumbersOK DEF LowestFree, Fds
    <3>3. Cardinality(Serving) = setSize - 1
      BY <3>2, CountByFds
    <3>4. Cardinality(Serving) <= MaxClients
      BY CountBySlots
    <3> QED BY <1>2, <3>3, <3>4, RoomIsMin
  <2>2. CASE RejectClient(c)
    <3>1. \A s \in Slots : Used(s)
      BY <2>2 DEF RejectClient
    <3>2. Cardinality(Serving) = MaxClients
      BY <3>1, CountBySlots
    <3>3. Cardinality(Serving) <= setSize - 1
      BY CountByFds
    <3> QED BY <1>2, <3>2, <3>3, RoomIsMin, NumbersOK
  <2> QED BY <2>1, <2>2
<1>4. Service!Cardinality(Service!Serving) = Min({MaxClients, setSize - 1})
  BY <1>3, SameCardinality DEF Serving, room
<1>5. Service!Leave({c})
  <2>1. Service!Forget({c})
    BY <1>1 DEF Forget, Service!Forget
  <2> QED BY <1>1, <2>1 DEF Service!Leave
<1>6. Service!Refuse(c)
  BY <1>1, <1>4, <1>5 DEF Service!Refuse
<1> QED BY <1>1, <1>6 DEF Service!Next

LEMMA VisitRefines ==
  ASSUME IInv, Receive \/ CloseCurrent \/ Reply, UNCHANGED setSize
  PROVE  Service!Next
<1> USE DEF IInv
<1>1. /\ slot \in Slots /\ Used(slot) /\ pc \in {"scan", "reply"}
      /\ pc = "scan" => MustRecv
  BY DEF Receive, CloseCurrent, Reply, MustRecv, Scanning, ReplyIsDue
<1>2. PICK c \in Conns : c = Conn(slot) /\ phase[c] = "open"
  BY <1>1, UsedSlotHasConn
<1>3. CASE Receive
  <2>1. PICK k \in 1..MaxMsgs : RecvBytes(c, k)
    BY <1>2, <1>3 DEF Receive
  <2>2. pc = "scan" /\ pc' = "reply" /\ Conn(slot)' = c
    BY <1>2, <1>3, <2>1 DEF Receive, RecvBytes, MustRecv, Scanning, Conn
  <2>3. Service!Take(c)
    BY <1>2, <2>1, <2>2 DEF RecvBytes, Unread, Service!Take, Service!Unread
  <2> QED BY <2>3 DEF Service!Next
<1>4. CASE CloseCurrent
  <2>1. /\ pc' = "scan" /\ Forget({c})
        /\ \/ pc = "scan" /\ Unread(c) = 0 /\ (fin[c] \/ rst[c])
           \/ pc = "reply" /\ rst[c]
    BY <1>2, <1>4, CloseCurrentFacts DEF CloseCurrent, MustRecv, Scanning, RecvEnds
  <2>2. Service!Leave({c})
    <3>1. Service!Forget({c})
      BY <2>1 DEF Forget, Service!Forget
    <3> QED BY <2>1, <3>1 DEF Service!Leave
  <2>3. Service!DropEnded(c)
    BY <1>2, <2>1, <2>2 DEF Service!DropEnded, Unread, Service!Unread
  <2> QED BY <2>3 DEF Service!Next
<1>5. CASE Reply
  <2>1. pc = "reply" /\ pc' = "scan" /\ SendReply(c)
    BY <1>2, <1>5 DEF Reply
  <2>2. Service!Answer(c)
    BY <1>2, <2>1 DEF SendReply, Service!Answer
  <2> QED BY <2>2 DEF Service!Next
<1> QED BY <1>3, <1>4, <1>5

\* A step of a far end is the same step of EventService.
LEMMA ClientsRefine == ASSUME Clients PROVE Service!Next
<1>1. PICK c \in Conns : Peer(c)
  BY DEF Clients
<1>2. UNCHANGED <<owner, setSize, slotFd, pc, slot>>
  BY DEF Clients, fdVars
<1>3. Service!Peer(c)
  <2> USE DEF Service!Peer, Service!Alive, Service!Unanswered, Alive, Unanswered
  <2>1. CASE Connect(c)
    BY <2>1 DEF Connect, Service!Connect
  <2>2. CASE PeerSend(c)
    BY <2>2 DEF PeerSend, Service!PeerSend
  <2>3. CASE PeerRead(c)
    BY <2>3 DEF PeerRead, Service!PeerRead
  <2>4. CASE PeerClose(c)
    BY <2>4 DEF PeerClose, Service!PeerClose
  <2>5. CASE PeerAbort(c)
    BY <2>5 DEF PeerAbort, Service!PeerAbort
  <2>6. CASE Bounce(c)
    BY <2>6 DEF Bounce, Service!Bounce
  <2> QED BY <1>1, <2>1, <2>2, <2>3, <2>4, <2>5, <2>6 DEF Peer
<1>4. Conn(slot)' = Conn(slot)
  BY <1>2 DEF Conn
<1> QED BY <1>2, <1>3, <1>4 DEF Service!Next

\* The other steps of the loop change nothing that EventService speaks of.
LEMMA OthersStutter ==
  ASSUME \/ (Select \/ NoConnection \/ AcceptFails \/ SkipSlot \/ EndScan) /\ UNCHANGED setSize
         \/ UNCHANGED vars
  PROVE  UNCHANGED Service!serviceVars
<1>1. /\ UNCHANGED hostVars /\ setSize' = setSize
      /\ \/ pc # "reply" /\ pc' # "reply"
         \/ UNCHANGED <<slotFd, pc, slot>>
  BY DEF Select, NoConnection, ToScan, AcceptFails, NextTurn, SkipSlot, Scanning, EndScan, vars
<1> QED BY <1>1 DEF hostVars, Service!serviceVars, Conn

LEMMA NextRefines == IInv /\ [Next]_vars => [Service!Next]_Service!serviceVars
<1> SUFFICES ASSUME IInv, [Next]_vars PROVE [Service!Next]_Service!serviceVars
  OBVIOUS
<1>1. CASE Server
  <2>1. UNCHANGED setSize
    BY <1>1 DEF Server
  <2>2. CASE \E c \in Pending : RejectHighFd(c) \/ RejectClient(c)
    BY <2>1, <2>2, RejectRefines
  <2>3. CASE \E c \in Pending, f \in Fds, s \in Slots : AcceptClient(c, f, s)
    BY <2>1, <2>3, AcceptRefines
  <2>4. CASE Receive \/ CloseCurrent \/ Reply
    BY <2>1, <2>4, VisitRefines
  <2> QED BY <1>1, <2>1, <2>2, <2>3, <2>4, OthersStutter DEF Server
<1>2. CASE Clients
  BY <1>2, ClientsRefine
<1> QED BY <1>1, <1>2, OthersStutter DEF Next

(***************************************************************************)
(* select_server.c keeps the promises of EventService: it turns a client   *)
(* away only while as many as fit the array and the set are served,        *)
(* answers each receive once and on its own connection, and drops a client *)
(* only when its connection has ended or failed.                           *)
(***************************************************************************)
THEOREM ServesAsPromised == Spec => RefinesService
<1>1. Init => Service!Init
  BY InitRefines
<1>2. IInv /\ [Next]_vars => [Service!Next]_Service!serviceVars
  BY NextRefines
<1> QED BY <1>1, <1>2, Invariance, PTL DEF Spec, RefinesService, Service!Spec

=============================================================================
