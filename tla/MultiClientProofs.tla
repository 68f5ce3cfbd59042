--------------------------- MODULE MultiClientProofs ---------------------------
(***************************************************************************)
(* The forking server for every number of connections, processes and       *)
(* messages: types, that a connection is open exactly while a process      *)
(* holds a copy of it, and that replies keep step with receives.           *)
(***************************************************************************)
EXTENDS MultiClient, TLAPS

\* The parent holds a connection from accept() to close(), and forks for it
\* only once.
ParentHolds ==
  /\ pc = "accept" <=> held = Nobody
  /\ pc = "fork" => child[held] = "none"

\* Children are forked for connections that were accepted, on which nothing was
\* received or sent before; and every receive of a child took some data.
ChildrenInStep ==
  \A c \in Conns :
    /\ phase[c] \in {"new", "queued"} => child[c] = "none"
    /\ child[c] = "none" => recvd[c] = 0 /\ replies[c] = 0 /\ receives[c] = 0
    /\ child[c] \in {"recv", "reply"} => receives[c] <= recvd[c]

IInv ==
  /\ TypeOK
  /\ OpenWhileHeld
  /\ RepliesMatchReceives
  /\ ParentHolds
  /\ ChildrenInStep

-----------------------------------------------------------------------------
\* The assumptions on the constants, as the provers need them.
LEMMA NumbersOK ==
  /\ MaxMsgs \in Nat /\ RecvTimeout \in Nat \ {0} /\ Nobody \notin Conns
  /\ 0 \in 0..MaxMsgs /\ 0 \in 0..RecvTimeout
BY PeersAssumption, MultiAssumption

\* Closing a copy of a connection closes it or changes nothing, and leaves all
\* others alone.
LEMMA CloseCopyFacts ==
  ASSUME TypeOK, NEW c \in Conns, NEW last \in BOOLEAN, CloseCopy(c, last)
  PROVE  /\ PeersTypeOK'
         /\ phase'[c] = IF last THEN "closed" ELSE phase[c]
         /\ recvd'[c] = IF last THEN 0 ELSE recvd[c]
         /\ replies'[c] = IF last THEN 0 ELSE replies[c]
         /\ \A d \in Conns \ {c} :
              phase'[d] = phase[d] /\ recvd'[d] = recvd[d] /\ replies'[d] = replies[d]
<1> USE DEF CloseCopy, Forget, TypeOK, PeersTypeOK
<1>1. PeersTypeOK'
  BY NumbersOK DEF Phases
<1> QED BY <1>1

-----------------------------------------------------------------------------
(***************************************************************************)
(* One lemma per action.                                                   *)
(***************************************************************************)
LEMMA AcceptKeeps == ASSUME NEW c \in Conns, IInv, Accept(c) PROVE IInv'
<1> USE NumbersOK DEF IInv, Accept
<1>1. TypeOK'
  BY DEF TypeOK, PeersTypeOK, Phases
<1>2. \A d \in Conns : phase'[d] = IF d = c THEN "open" ELSE phase[d]
  BY DEF TypeOK, PeersTypeOK
<1>3. Live' = Live /\ c \notin Live /\ child[c] = "none"
  BY DEF Live, ChildrenInStep
<1>4. OpenWhileHeld'
  BY <1>2, <1>3 DEF OpenWhileHeld, ParentHolds
<1>5. RepliesMatchReceives'
  BY DEF RepliesMatchReceives
<1>6. ParentHolds' /\ ChildrenInStep'
  BY <1>2, <1>3 DEF ParentHolds, ChildrenInStep
<1> QED BY <1>1, <1>4, <1>5, <1>6

LEMMA ForkKeeps == IInv /\ Fork => IInv'
<1> SUFFICES ASSUME IInv, Fork PROVE IInv'
  OBVIOUS
<1> USE NumbersOK DEF IInv, Fork, peerVars
<1>1. held \in Conns /\ child[held] = "none"
  BY DEF ParentHolds, TypeOK
<1>2. TypeOK'
  BY DEF TypeOK, PeersTypeOK
<1>3. \A d \in Conns : child'[d] = IF d = held THEN "recv" ELSE child[d]
  BY DEF TypeOK
<1>4. Live' = Live \cup {held}
  BY <1>1, <1>3 DEF Live
<1>5. OpenWhileHeld'
  BY <1>1, <1>4 DEF OpenWhileHeld
<1>6. phase[held] = "open" /\ recvd[held] = 0 /\ replies[held] = 0 /\ receives[held] = 0
  BY <1>1 DEF OpenWhileHeld, ChildrenInStep
<1>7. RepliesMatchReceives' /\ ParentHolds' /\ ChildrenInStep'
  BY <1>1, <1>3, <1>6 DEF RepliesMatchReceives, ParentHolds, ChildrenInStep
<1> QED BY <1>2, <1>5, <1>7

LEMMA ForkFailsKeeps == IInv /\ ForkFails => IInv'
<1> SUFFICES ASSUME IInv, ForkFails PROVE IInv'
  OBVIOUS
<1> USE DEF IInv, ForkFails, peerVars
<1>1. TypeOK'
  BY DEF TypeOK, PeersTypeOK
<1>2. OpenWhileHeld'
  BY DEF OpenWhileHeld, Live
<1>3. RepliesMatchReceives' /\ ParentHolds' /\ ChildrenInStep'
  BY DEF RepliesMatchReceives, ParentHolds, ChildrenInStep
<1> QED BY <1>1, <1>2, <1>3

LEMMA ParentClosesKeeps == IInv /\ ParentCloses => IInv'
<1> SUFFICES ASSUME IInv, ParentCloses PROVE IInv'
  OBVIOUS
<1> USE NumbersOK DEF IInv
<1>1. /\ CloseCopy(held, held \notin Live) /\ held' = Nobody /\ pc' = "accept"
      /\ UNCHANGED <<child, waited, receives>> /\ held \in Conns /\ (held \notin Live) \in BOOLEAN
  BY DEF ParentCloses, ParentHolds, TypeOK
<1>2. /\ PeersTypeOK'
      /\ phase'[held] = IF held \notin Live THEN "closed" ELSE phase[held]
      /\ recvd'[held] = IF held \notin Live THEN 0 ELSE recvd[held]
      /\ replies'[held] = IF held \notin Live THEN 0 ELSE replies[held]
      /\ \A d \in Conns \ {held} :
           phase'[d] = phase[d] /\ recvd'[d] = recvd[d] /\ replies'[d] = replies[d]
  BY <1>1, CloseCopyFacts
<1>3. TypeOK'
  BY <1>1, <1>2 DEF TypeOK
<1>4. Live' = Live
  BY <1>1 DEF Live
<1>5. OpenWhileHeld'
  BY <1>1, <1>2, <1>4 DEF OpenWhileHeld
<1>6. RepliesMatchReceives'
  BY <1>1, <1>2 DEF RepliesMatchReceives, Live
<1>7. ParentHolds'
  BY <1>1 DEF ParentHolds
<1>8. ChildrenInStep'
  BY <1>1, <1>2 DEF ChildrenInStep, OpenWhileHeld, Live
<1> QED BY <1>3, <1>5, <1>6, <1>7, <1>8

\* ReceiveEnds, ReceiveTimeout and ReplyFails.
LEMMA ChildEndsKeeps ==
  ASSUME NEW c \in Conns, IInv, child[c] \in {"recv", "reply"}, ChildEnds(c)
  PROVE  IInv'
<1> USE NumbersOK DEF IInv
<1>1. /\ CloseCopy(c, held # c) /\ UNCHANGED <<pc, held>>
      /\ child' = [child EXCEPT ![c] = "gone"]
      /\ waited' = [waited EXCEPT ![c] = 0]
      /\ receives' = [receives EXCEPT ![c] = 0]
      /\ (held # c) \in BOOLEAN
  BY DEF ChildEnds
<1>2. /\ PeersTypeOK'
      /\ phase'[c] = IF held # c THEN "closed" ELSE phase[c]
      /\ recvd'[c] = IF held # c THEN 0 ELSE recvd[c]
      /\ replies'[c] = IF held # c THEN 0 ELSE replies[c]
      /\ \A d \in Conns \ {c} :
           phase'[d] = phase[d] /\ recvd'[d] = recvd[d] /\ replies'[d] = replies[d]
  BY <1>1, CloseCopyFacts
<1>3. \A d \in Conns : /\ child'[d] = IF d = c THEN "gone" ELSE child[d]
                       /\ receives'[d] = IF d = c THEN 0 ELSE receives[d]
  BY <1>1 DEF TypeOK
<1>4. TypeOK'
  BY <1>1, <1>2 DEF TypeOK
<1>5. Live' = Live \ {c} /\ c \in Live
  BY <1>3 DEF Live
<1>6. OpenWhileHeld'
  BY <1>1, <1>2, <1>5 DEF OpenWhileHeld
<1>7. RepliesMatchReceives'
  BY <1>2, <1>3 DEF RepliesMatchReceives
<1>8. ParentHolds'
  BY <1>1, <1>3 DEF ParentHolds
<1>9. ChildrenInStep'
  BY <1>2, <1>3 DEF ChildrenInStep
<1> QED BY <1>4, <1>6, <1>7, <1>8, <1>9

LEMMA ReceiveKeeps == ASSUME NEW c \in Conns, IInv, Receive(c) PROVE IInv'
<1> USE NumbersOK DEF IInv
<1>1. PICK k \in 1..Unread(c) : recvd' = [recvd EXCEPT ![c] = @ + k]
  BY DEF Receive
<1>2. /\ child[c] = "recv" /\ child' = [child EXCEPT ![c] = "reply"]
      /\ waited' = [waited EXCEPT ![c] = 0]
      /\ receives' = [receives EXCEPT ![c] = @ + 1]
      /\ UNCHANGED <<phase, sent, replies, taken, fin, rst, pc, held>>
  BY DEF Receive
<1>3. k \in Nat /\ 1 <= k /\ k <= sent[c] - recvd[c]
  BY <1>1 DEF Unread, TypeOK, PeersTypeOK
<1>4. receives[c] \in Nat /\ recvd[c] \in Nat /\ replies[c] = receives[c] /\ receives[c] <= recvd[c]
  BY <1>2 DEF TypeOK, PeersTypeOK, RepliesMatchReceives, ChildrenInStep
<1>5. recvd' \in [Conns -> 0..MaxMsgs] /\ receives' \in [Conns -> 0..MaxMsgs]
  <2>1. sent[c] \in 0..MaxMsgs
    BY DEF TypeOK, PeersTypeOK
  <2>2. recvd[c] + k \in 0..MaxMsgs /\ receives[c] + 1 \in 0..MaxMsgs
    BY <1>3, <1>4, <2>1
  <2> QED BY <1>1, <1>2, <2>2 DEF TypeOK, PeersTypeOK
<1>6. TypeOK'
  BY <1>2, <1>5 DEF TypeOK, PeersTypeOK
<1>7. \A d \in Conns : /\ child'[d] = IF d = c THEN "reply" ELSE child[d]
                       /\ recvd'[d] = IF d = c THEN recvd[c] + k ELSE recvd[d]
                       /\ receives'[d] = IF d = c THEN receives[c] + 1 ELSE receives[d]
  BY <1>1, <1>2 DEF TypeOK, PeersTypeOK
<1>8. Live' = Live
  BY <1>2, <1>7 DEF Live
<1>9. OpenWhileHeld'
  BY <1>2, <1>8 DEF OpenWhileHeld
<1>10. RepliesMatchReceives'
  BY <1>2, <1>4, <1>7 DEF RepliesMatchReceives
<1>11. ParentHolds'
  BY <1>2, <1>7 DEF ParentHolds
<1>12. ChildrenInStep'
  BY <1>2, <1>3, <1>4, <1>7 DEF ChildrenInStep
<1> QED BY <1>6, <1>9, <1>10, <1>11, <1>12

LEMMA ReplyKeeps == ASSUME NEW c \in Conns, IInv, Reply(c) PROVE IInv'
<1> USE NumbersOK DEF IInv
<1>1. /\ child[c] = "reply" /\ child' = [child EXCEPT ![c] = "recv"]
      /\ replies' = [replies EXCEPT ![c] = @ + 1]
      /\ UNCHANGED <<phase, sent, recvd, taken, fin, rst, pc, held, waited, receives>>
  BY DEF Reply
<1>2. replies[c] \in Nat /\ replies[c] + 1 = receives[c] /\ receives[c] \in 0..MaxMsgs
  BY <1>1 DEF TypeOK, PeersTypeOK, RepliesMatchReceives
<1>3. replies' \in [Conns -> 0..MaxMsgs]
  BY <1>1, <1>2 DEF TypeOK, PeersTypeOK
<1>4. TypeOK'
  BY <1>1, <1>3 DEF TypeOK, PeersTypeOK
<1>5. \A d \in Conns : /\ child'[d] = IF d = c THEN "recv" ELSE child[d]
                       /\ replies'[d] = IF d = c THEN replies[c] + 1 ELSE replies[d]
  BY <1>1 DEF TypeOK, PeersTypeOK
<1>6. Live' = Live
  BY <1>1, <1>5 DEF Live
<1>7. OpenWhileHeld'
  BY <1>1, <1>6 DEF OpenWhileHeld
<1>8. RepliesMatchReceives'
  BY <1>1, <1>2, <1>5 DEF RepliesMatchReceives
<1>9. ParentHolds' /\ ChildrenInStep'
  BY <1>1, <1>2, <1>5 DEF ParentHolds, ChildrenInStep
<1> QED BY <1>4, <1>7, <1>8, <1>9

LEMMA ChildKeeps == ASSUME NEW c \in Conns, IInv, Child(c) PROVE IInv'
<1>1. CASE Receive(c)
  BY <1>1, ReceiveKeeps
<1>2. CASE Reply(c)
  BY <1>2, ReplyKeeps
<1>3. CASE ReceiveEnds(c)
  BY <1>3, ChildEndsKeeps DEF ReceiveEnds
<1>4. CASE ReceiveTimeout(c)
  BY <1>4, ChildEndsKeeps DEF ReceiveTimeout
<1>5. CASE ReplyFails(c)
  BY <1>5, ChildEndsKeeps DEF ReplyFails
<1> QED BY <1>1, <1>2, <1>3, <1>4, <1>5 DEF Child

LEMMA TickKeeps == ASSUME NEW c \in Conns, IInv, Tick(c) PROVE IInv'
<1> USE NumbersOK DEF IInv, Tick, peerVars
<1>1. waited' \in [Conns -> 0..RecvTimeout]
  BY DEF TypeOK
<1>2. TypeOK'
  BY <1>1 DEF TypeOK, PeersTypeOK
<1>3. OpenWhileHeld' /\ RepliesMatchReceives' /\ ParentHolds' /\ ChildrenInStep'
  BY DEF OpenWhileHeld, Live, RepliesMatchReceives, ParentHolds, ChildrenInStep
<1> QED BY <1>2, <1>3

\* A step of a client keeps the types, opens and closes nothing, and does not
\* touch what the server counts.
LEMMA PeerStep ==
  ASSUME TypeOK, NEW c \in Conns, Peer(c)
  PROVE  /\ PeersTypeOK'
         /\ UNCHANGED <<recvd, replies>>
         /\ \A d \in Conns : /\ phase'[d] = "open" <=> phase[d] = "open"
                             /\ phase'[d] \in {"new", "queued"} => phase[d] \in {"new", "queued"}
<1> USE NumbersOK DEF TypeOK, PeersTypeOK, Phases
<1>1. CASE Connect(c)
  BY <1>1 DEF Connect
<1>2. CASE PeerSend(c)
  <2>1. sent' \in [Conns -> 0..MaxMsgs]
    BY <1>2 DEF PeerSend
  <2> QED BY <1>2, <2>1 DEF PeerSend
<1>3. CASE PeerRead(c)
  BY <1>3 DEF PeerRead
<1>4. CASE PeerClose(c)
  BY <1>4 DEF PeerClose
<1>5. CASE PeerAbort(c)
  BY <1>5 DEF PeerAbort
<1>6. CASE Bounce(c)
  BY <1>6 DEF Bounce
<1> QED BY <1>1, <1>2, <1>3, <1>4, <1>5, <1>6 DEF Peer

LEMMA PeerKeeps ==
  ASSUME NEW c \in Conns, IInv, Peer(c), UNCHANGED serverVars PROVE IInv'
<1> USE DEF IInv, serverVars
<1>1. /\ PeersTypeOK'
      /\ UNCHANGED <<recvd, replies>>
      /\ \A d \in Conns : /\ phase'[d] = "open" <=> phase[d] = "open"
                          /\ phase'[d] \in {"new", "queued"} => phase[d] \in {"new", "queued"}
  BY PeerStep
<1>2. TypeOK'
  BY <1>1 DEF TypeOK
<1>3. OpenWhileHeld'
  BY <1>1 DEF OpenWhileHeld, Live
<1>4. RepliesMatchReceives' /\ ParentHolds' /\ ChildrenInStep'
  BY <1>1 DEF RepliesMatchReceives, ParentHolds, ChildrenInStep
<1> QED BY <1>2, <1>3, <1>4

-----------------------------------------------------------------------------
LEMMA InitIInv == Init => IInv
<1> SUFFICES ASSUME Init PROVE IInv
  OBVIOUS
<1> USE NumbersOK DEF Init, PeersInit
<1>1. TypeOK
  BY DEF TypeOK, PeersTypeOK, Phases
<1>2. OpenWhileHeld
  BY DEF OpenWhileHeld, Live
<1>3. RepliesMatchReceives /\ ParentHolds /\ ChildrenInStep
  BY DEF RepliesMatchReceives, ParentHolds, ChildrenInStep
<1> QED BY <1>1, <1>2, <1>3 DEF IInv

LEMMA StutterKeeps == IInv /\ UNCHANGED vars => IInv'
<1> SUFFICES ASSUME IInv, UNCHANGED vars PROVE IInv'
  OBVIOUS
<1> USE DEF IInv, vars, peerVars, serverVars
<1>1. TypeOK'
  BY DEF TypeOK, PeersTypeOK
<1>2. OpenWhileHeld' /\ RepliesMatchReceives' /\ ParentHolds' /\ ChildrenInStep'
  BY DEF OpenWhileHeld, Live, RepliesMatchReceives, ParentHolds, ChildrenInStep
<1> QED BY <1>1, <1>2

LEMMA NextIInv == IInv /\ [Next]_vars => IInv'
<1> SUFFICES ASSUME IInv, [Next]_vars PROVE IInv'
  OBVIOUS
<1>1. CASE Parent
  BY <1>1, AcceptKeeps, ForkKeeps, ForkFailsKeeps, ParentClosesKeeps DEF Parent
<1>2. ASSUME NEW c \in Conns, Child(c) \/ Tick(c) \/ (Peer(c) /\ UNCHANGED serverVars)
      PROVE  IInv'
  BY <1>2, ChildKeeps, TickKeeps, PeerKeeps
<1> QED BY <1>1, <1>2, StutterKeeps DEF Next

LEMMA Invariance == Spec => []IInv
BY InitIInv, NextIInv, PTL DEF Spec

(***************************************************************************)
(* Every variable keeps its type: a child never waits longer than its      *)
(* receive timeout, and no counter passes its bound.                       *)
(***************************************************************************)
THEOREM TypeCorrect == Spec => []TypeOK
<1>1. IInv => TypeOK
  BY DEF IInv
<1> QED BY <1>1, Invariance, PTL

(***************************************************************************)
(* Whichever of parent and child closes its copy first, the connection is  *)
(* open exactly while one of them still holds it.                          *)
(***************************************************************************)
THEOREM OpenExactlyWhileHeld == Spec => []OpenWhileHeld
<1>1. IInv => OpenWhileHeld
  BY DEF IInv
<1> QED BY <1>1, Invariance, PTL

(***************************************************************************)
(* A child that waits in recv() has sent exactly as many replies as it has *)
(* made receives, and one fewer while a reply is due: no message taken off *)
(* a connection is passed over.                                            *)
(***************************************************************************)
THEOREM RepliesInStep == Spec => []RepliesMatchReceives
<1>1. IInv => RepliesMatchReceives
  BY DEF IInv
<1> QED BY <1>1, Invariance, PTL

=============================================================================
