----------------------------- MODULE UdpEchoProofs -----------------------------
(***************************************************************************)
(* The UDP programs for every number of clients, children and messages:    *)
(* types, that answers are in step until the first timeout, and that no    *)
(* answer is printed for two messages unless the network duplicates.       *)
(***************************************************************************)
EXTENDS UdpEcho, TLAPS

\* Where message n of client c may be.
Asking(c, n) == Request(c, n) \in net
Handled(c, n) == handling = Request(c, n)
Answering(c, n) == Answer(Request(c, n)) \in net
Printed(c, n) == \E t \in Turns : shown[c][t] = n

\* Nothing is under way for a message that has not been composed.
NothingAhead ==
  /\ \A d \in net : d.n <= turn[d.client]
  /\ handling # Idle => handling.n <= turn[handling.client]

\* A turn prints at most once, and not before it has been reached.
TurnsInOrder ==
  \A c \in Clients :
    /\ cpc[c] = "recv" => turn[c] \in Turns
    /\ \A t \in Turns :
         t > turn[c] \/ (t = turn[c] /\ cpc[c] = "recv") => shown[c][t] = 0

\* On a network that does not duplicate, a message is in one place at most.
InOnePlace ==
  ~mayDuplicate =>
    \A c \in Clients, n \in Turns :
      /\ Asking(c, n) => ~Handled(c, n) /\ ~Answering(c, n) /\ ~Printed(c, n)
      /\ Handled(c, n) => ~Answering(c, n) /\ ~Printed(c, n)
      /\ Answering(c, n) => ~Printed(c, n)

IInv ==
  /\ TypeOK
  /\ NothingAhead
  /\ TurnsInOrder
  /\ InOnePlace
  /\ OwnAnswerUntilTimeout
  /\ AnswersAreNotReused

-----------------------------------------------------------------------------
\* The assumptions on the constants, as the provers need them.
LEMMA NumbersOK ==
  /\ CLIENTS \in Nat /\ MaxMsgs \in Nat \ {0}
  /\ Typists \cap Children = {}
  /\ 0 \in 0..MaxMsgs /\ 0 \in 0..CLIENTS /\ 1 \in 0..MaxMsgs
BY EchoAssumption DEF Children

\* A datagram is a request or an answer, and says which.
LEMMA Forms ==
  /\ \A c \in Clients, n \in Turns :
       /\ Request(c, n) \in Datagram /\ Answer(Request(c, n)) \in Datagram
       /\ Request(c, n).to = "server" /\ Answer(Request(c, n)).to = "client"
       /\ Request(c, n).client = c /\ Answer(Request(c, n)).client = c
       /\ Request(c, n).n = n /\ Answer(Request(c, n)).n = n
       /\ Request(c, n) # Idle
  /\ \A d \in Datagram :
       /\ d.client \in Clients /\ d.n \in Turns
       /\ d.to = "server" => d = Request(d.client, d.n)
       /\ d.to = "client" => d = Answer(Request(d.client, d.n))
<1>1. ASSUME NEW c \in Clients, NEW n \in Turns
      PROVE  /\ Request(c, n) \in Datagram
             /\ Request(c, n).to = "server" /\ Request(c, n).client = c /\ Request(c, n).n = n
             /\ Request(c, n) # Idle
  BY DEF Request, Datagram, Idle
<1>2. \A c, n : Answer(Request(c, n)) = [to |-> "client", client |-> c, n |-> n]
  BY DEF Answer, Request
<1>3. ASSUME NEW d \in Datagram
      PROVE  /\ d.client \in Clients /\ d.n \in Turns
             /\ d.to = "server" => d = Request(d.client, d.n)
             /\ d.to = "client" => d = Answer(Request(d.client, d.n))
  BY <1>2 DEF Datagram, Request
<1>4. ASSUME NEW c \in Clients, NEW n \in Turns
      PROVE  /\ Answer(Request(c, n)) \in Datagram
             /\ Answer(Request(c, n)).to = "client"
             /\ Answer(Request(c, n)).client = c /\ Answer(Request(c, n)).n = n
  BY <1>2 DEF Datagram
<1> QED BY <1>1, <1>3, <1>4

-----------------------------------------------------------------------------
(***************************************************************************)
(* Steps that print nothing: the history keeps what it has, so it is left  *)
(* to show that messages stay in one place and in order.                   *)
(***************************************************************************)
LEMMA NothingPrinted ==
  ASSUME IInv, UNCHANGED <<shown, mayDuplicate>>, TypeOK', NothingAhead', TurnsInOrder',
         InOnePlace'
  PROVE  IInv'
BY DEF IInv, OwnAnswerUntilTimeout, AnswersAreNotReused

\* A datagram leaves the network and goes nowhere, or the server gives up one.
LEMMA FewerMessages ==
  ASSUME IInv, net' \in SUBSET net, handling' \in {handling, Idle},
         UNCHANGED <<turn, shown, mayDuplicate>>
  PROVE  NothingAhead' /\ InOnePlace'
<1> USE DEF IInv
<1>1. NothingAhead'
  BY DEF NothingAhead
<1>2. \A c \in Clients, n \in Turns :
        /\ Asking(c, n)' => Asking(c, n)
        /\ Handled(c, n)' => Handled(c, n)
        /\ Answering(c, n)' => Answering(c, n)
        /\ Printed(c, n)' <=> Printed(c, n)
  BY Forms DEF Asking, Handled, Answering, Printed
<1>3. InOnePlace'
  BY <1>2 DEF InOnePlace
<1> QED BY <1>1, <1>3

LEMMA SendKeeps ==
  ASSUME NEW c \in Clients, IInv, Send(c), UNCHANGED mayDuplicate
  PROVE  IInv'
<1> USE NumbersOK DEF IInv
<1> DEFINE n == turn[c] + 1
<1>1. /\ cpc[c] = "prompt" /\ turn[c] < MaxMsgs
      /\ turn' = [turn EXCEPT ![c] = n] /\ net' = net \cup {Request(c, n)}
      /\ cpc' = [cpc EXCEPT ![c] = "recv"]
      /\ UNCHANGED <<shown, handling, lpc, forked>>
      /\ turn[c] \in Nat
  BY DEF Send, Compose, loadVars, TypeOK
<1>2. n \in Turns
  BY <1>1 DEF Turns
<1>3. TypeOK'
  <2>1. net' \in SUBSET Datagram
    BY <1>1, <1>2, Forms DEF TypeOK
  <2>2. turn' \in [Clients -> 0..MaxMsgs]
    BY <1>1 DEF TypeOK
  <2> QED BY <1>1, <2>1, <2>2 DEF TypeOK
<1>4. \A d \in Clients : /\ turn'[d] = IF d = c THEN n ELSE turn[d]
                         /\ cpc'[d] = IF d = c THEN "recv" ELSE cpc[d]
                         /\ turn[d] \in Nat
  BY <1>1 DEF TypeOK
<1>5. NothingAhead'
  <2>1. ASSUME NEW d \in net PROVE d.n <= turn'[d.client]
    <3>1. d.client \in Clients /\ d.n \in Turns /\ d.n <= turn[d.client]
      BY Forms DEF TypeOK, NothingAhead
    <3> QED BY <1>1, <1>4, <3>1 DEF Turns
  <2>2. Request(c, n).n <= turn'[Request(c, n).client]
    BY <1>2, <1>4, Forms
  <2>3. ASSUME handling # Idle PROVE handling.n <= turn'[handling.client]
    <3>1. handling.client \in Clients /\ handling.n \in Turns
          /\ handling.n <= turn[handling.client]
      BY <2>3, Forms DEF TypeOK, NothingAhead
    <3> QED BY <1>1, <1>4, <3>1 DEF Turns
  <2> QED BY <1>1, <2>1, <2>2, <2>3 DEF NothingAhead
<1>6. TurnsInOrder'
  BY <1>1, <1>2, <1>4 DEF TurnsInOrder, Turns
<1>7. ~Handled(c, n) /\ ~Answering(c, n) /\ ~Printed(c, n)
  <2>1. ~Handled(c, n) /\ ~Answering(c, n)
    BY <1>1, <1>2, Forms DEF NothingAhead, Handled, Answering, TypeOK
  <2>2. ASSUME NEW t \in Turns, shown[c][t] = n PROVE FALSE
    <3>1. shown[c][t] <= t /\ t \in Nat
      BY DEF AnswersAreNotReused, Turns
    <3>2. t > turn[c]
      BY <1>1, <2>2, <3>1
    <3> QED BY <1>1, <2>2, <3>2 DEF TurnsInOrder
  <2> QED BY <2>1, <2>2 DEF Printed
<1>8. ASSUME NEW d \in Clients, NEW m \in Turns
      PROVE  /\ Asking(d, m)' => Asking(d, m) \/ (d = c /\ m = n)
             /\ Handled(d, m)' <=> Handled(d, m)
             /\ Answering(d, m)' <=> Answering(d, m)
             /\ Printed(d, m)' <=> Printed(d, m)
  <2>1. Request(d, m) = Request(c, n) => d = c /\ m = n
    BY <1>2, Forms
  <2>2. Answer(Request(d, m)) # Request(c, n)
    BY <1>2, Forms
  <2> QED BY <1>1, <2>1, <2>2 DEF Asking, Handled, Answering, Printed
<1>9. InOnePlace'
  <2> HIDE DEF n
  <2> QED BY <1>7, <1>8 DEF InOnePlace
<1> QED BY <1>1, <1>3, <1>5, <1>6, <1>9, NothingPrinted

LEMMA SendFailsKeeps ==
  ASSUME NEW c \in Clients, IInv, SendFails(c), UNCHANGED mayDuplicate
  PROVE  IInv'
<1> USE NumbersOK DEF IInv
<1>1. /\ cpc[c] = "prompt" /\ turn[c] < MaxMsgs
      /\ turn' = [turn EXCEPT ![c] = @ + 1]
      /\ cpc' = [cpc EXCEPT ![c] = IF c \in Typists THEN "prompt" ELSE "done"]
      /\ UNCHANGED <<shown, net, handling, lpc, forked>>
      /\ turn[c] \in Nat
  BY DEF SendFails, Compose, Finish, loadVars, TypeOK
<1>2. turn' \in [Clients -> 0..MaxMsgs]
  BY <1>1 DEF TypeOK
<1>3. TypeOK'
  BY <1>1, <1>2 DEF TypeOK
<1>4. \A d \in Clients : /\ turn'[d] = IF d = c THEN turn[c] + 1 ELSE turn[d]
                         /\ cpc'[d] = "recv" => cpc[d] = "recv" /\ d # c
                         /\ turn[d] \in Nat
  BY <1>1 DEF TypeOK
<1>5. NothingAhead'
  <2>1. ASSUME NEW d \in Datagram, d.n <= turn[d.client] PROVE d.n <= turn'[d.client]
    <3>1. d.client \in Clients /\ d.n \in Turns
      BY Forms
    <3> QED BY <1>1, <1>4, <2>1, <3>1 DEF Turns
  <2> QED BY <1>1, <2>1 DEF NothingAhead, TypeOK
<1>6. TurnsInOrder'
  BY <1>1, <1>4 DEF TurnsInOrder, Turns
<1>7. InOnePlace'
  BY <1>1 DEF InOnePlace, Asking, Handled, Answering, Printed
<1> QED BY <1>1, <1>3, <1>5, <1>6, <1>7, NothingPrinted

\* Timeout, Quit and ForkChild: a client moves on, and no message is concerned.
LEMMA MovesOnKeeps ==
  ASSUME IInv, NEW c \in Clients, NEW place \in {"prompt", "done"},
         cpc' = [cpc EXCEPT ![c] = place],
         UNCHANGED <<turn, shown, net, handling, mayDuplicate, lpc>>,
         forked' \in 0..CLIENTS
  PROVE  IInv'
<1> USE DEF IInv
<1>1. TypeOK'
  BY DEF TypeOK
<1>2. \A d \in Clients : cpc'[d] = "recv" => cpc[d] = "recv"
  BY DEF TypeOK
<1>3. TurnsInOrder'
  BY <1>2 DEF TurnsInOrder
<1>4. NothingAhead' /\ InOnePlace'
  BY DEF NothingAhead, InOnePlace, Asking, Handled, Answering, Printed
<1> QED BY <1>1, <1>3, <1>4, NothingPrinted

(***************************************************************************)
(* The step that prints.  If every earlier turn has printed, then it has   *)
(* printed its own number, so these numbers are nowhere under way, and     *)
(* what arrives can only be the answer to the present message.             *)
(***************************************************************************)
LEMMA ReceiveAnswerKeeps ==
  ASSUME NEW c \in Clients, IInv, ReceiveAnswer(c), UNCHANGED mayDuplicate
  PROVE  IInv'
<1> USE NumbersOK DEF IInv
<1> DEFINE now == turn[c]
<1>1. PICK d \in net : /\ d.to = "client" /\ d.client = c /\ Deliver(d)
                       /\ shown' = [shown EXCEPT ![c][now] = d.n]
  BY DEF ReceiveAnswer
<1>2. /\ cpc[c] = "recv"
      /\ cpc' = [cpc EXCEPT ![c] = IF c \in Typists THEN "prompt" ELSE "done"]
      /\ UNCHANGED <<turn, handling, lpc, forked>>
  BY DEF ReceiveAnswer, Finish, loadVars
<1>3. /\ net' \in SUBSET net
      /\ ~mayDuplicate => net' = net \ {d}
  BY <1>1 DEF Deliver
<1>4. /\ now \in Turns /\ shown[c][now] = 0
      /\ d.n \in Turns /\ d.n <= now
      /\ d = Answer(Request(c, d.n)) /\ Answering(c, d.n)
  BY <1>1, <1>2, Forms DEF TurnsInOrder, NothingAhead, TypeOK, Answering
<1>5. now \in Nat /\ d.n \in Nat /\ d.n # 0
  BY <1>4 DEF Turns
<1>6. \A e \in Clients, t \in Turns :
        shown'[e][t] = IF e = c /\ t = now THEN d.n ELSE shown[e][t]
  BY <1>1, <1>4 DEF TypeOK
<1>7. TypeOK'
  <2>1. shown' \in [Clients -> [Turns -> 0..MaxMsgs]]
    BY <1>1, <1>4 DEF TypeOK, Turns
  <2> QED BY <1>2, <1>3, <2>1 DEF TypeOK
<1>8. NothingAhead'
  BY <1>2, <1>3 DEF NothingAhead
<1>9. TurnsInOrder'
  <2>1. \A e \in Clients : cpc'[e] = "recv" => cpc[e] = "recv" /\ e # c
    BY <1>2 DEF TypeOK
  <2>2. \A t \in Turns : t > now => t # now
    BY <1>5 DEF Turns
  <2> QED BY <1>2, <1>6, <2>1, <2>2 DEF TurnsInOrder
<1>10. ASSUME ~mayDuplicate, NEW t \in Turns, shown[c][t] = d.n PROVE FALSE
  BY <1>4, <1>10 DEF InOnePlace, Printed
<1>11. InOnePlace'
  <2> SUFFICES ASSUME ~mayDuplicate, NEW e \in Clients, NEW m \in Turns
               PROVE  /\ Asking(e, m)' => ~Handled(e, m)' /\ ~Answering(e, m)' /\ ~Printed(e, m)'
                      /\ Handled(e, m)' => ~Answering(e, m)' /\ ~Printed(e, m)'
                      /\ Answering(e, m)' => ~Printed(e, m)'
    BY DEF InOnePlace
  <2>1. /\ Asking(e, m)' => Asking(e, m)
        /\ Handled(e, m)' <=> Handled(e, m)
        /\ Answering(e, m)' => Answering(e, m) /\ ~(e = c /\ m = d.n)
    BY <1>2, <1>3, <1>4 DEF Asking, Handled, Answering
  <2>2. Printed(e, m)' => Printed(e, m) \/ (e = c /\ m = d.n)
    BY <1>6 DEF Printed
  <2>3. Asking(c, d.n) => FALSE
    BY <1>4 DEF InOnePlace
  <2>4. Handled(c, d.n) => FALSE
    BY <1>4 DEF InOnePlace
  <2> QED BY <2>1, <2>2, <2>3, <2>4 DEF InOnePlace
<1>12. OwnAnswerUntilTimeout'
  <2> SUFFICES ASSUME ~mayDuplicate, NEW e \in Clients, NEW t \in Turns,
                      \A u \in 1..(t - 1) : shown'[e][u] # 0
               PROVE  shown'[e][t] \in {0, t}
    BY DEF OwnAnswerUntilTimeout
  <2>0. t \in Nat /\ \A u \in 1..(t - 1) : u \in Turns /\ u \in Nat
    BY DEF Turns
  <2>1. CASE e # c
    BY <1>6, <2>0, <2>1 DEF OwnAnswerUntilTimeout
  <2>2. CASE e = c /\ t < now
    <3>1. \A u \in 1..(t - 1) : shown[c][u] # 0
      BY <1>5, <1>6, <2>0, <2>2
    <3>2. shown'[e][t] = shown[c][t]
      BY <1>5, <1>6, <2>0, <2>2
    <3> QED BY <2>2, <3>1, <3>2 DEF OwnAnswerUntilTimeout
  <2>3. CASE e = c /\ t = now
    <3>1. \A u \in 1..(t - 1) : shown[c][u] # 0
      BY <1>5, <1>6, <2>0, <2>3
    <3>2. ASSUME NEW u \in 1..(t - 1) PROVE shown[c][u] = u
      <4>1. \A w \in 1..(u - 1) : w \in 1..(t - 1)
        BY <2>0
      <4>2. \A w \in 1..(u - 1) : shown[c][w] # 0
        BY <3>1, <4>1
      <4> QED BY <2>0, <3>1, <4>2 DEF OwnAnswerUntilTimeout
    <3>3. d.n \notin 1..(t - 1)
      BY <1>10, <2>0, <3>2
    <3>4. d.n = t
      BY <1>4, <1>5, <2>3, <3>3
    <3> QED BY <1>6, <2>3, <3>4
  <2>4. CASE e = c /\ t > now
    BY <1>5, <1>6, <2>0, <2>4 DEF TurnsInOrder
  <2> QED BY <1>5, <2>0, <2>1, <2>2, <2>3, <2>4
<1>13. AnswersAreNotReused'
  <2> SUFFICES ASSUME NEW e \in Clients, NEW t \in Turns, NEW u \in Turns
               PROVE  /\ shown'[e][t] <= t
                      /\ ~mayDuplicate /\ shown'[e][t] # 0 /\ shown'[e][t] = shown'[e][u] => t = u
    BY DEF AnswersAreNotReused
  <2>1. shown'[e][t] <= t
    BY <1>4, <1>6 DEF AnswersAreNotReused
  <2>2. ASSUME ~mayDuplicate, shown'[e][t] # 0, shown'[e][t] = shown'[e][u] PROVE t = u
    BY <1>6, <1>10, <2>2 DEF AnswersAreNotReused
  <2> QED BY <2>1, <2>2
<1> QED BY <1>7, <1>8, <1>9, <1>11, <1>12, <1>13

LEMMA TimeoutKeeps ==
  ASSUME NEW c \in Clients, IInv, Timeout(c) \/ Quit(c), UNCHANGED mayDuplicate
  PROVE  IInv'
<1>1. /\ UNCHANGED <<turn, shown, net, handling, mayDuplicate, lpc, forked>>
      /\ \/ cpc' = [cpc EXCEPT ![c] = "done"]
         \/ cpc' = [cpc EXCEPT ![c] = "prompt"]
  BY DEF Timeout, Quit, Finish, loadVars
<1>2. forked' \in 0..CLIENTS
  BY <1>1 DEF IInv, TypeOK
<1>3. "done" \in {"prompt", "done"} /\ "prompt" \in {"prompt", "done"}
  OBVIOUS
<1> QED BY <1>1, <1>2, <1>3, MovesOnKeeps

-----------------------------------------------------------------------------
LEMMA ServerReceiveKeeps ==
  ASSUME IInv, ServerReceive, UNCHANGED mayDuplicate
  PROVE  IInv'
<1> USE DEF IInv
<1>1. PICK d \in net : d.to = "server" /\ Deliver(d) /\ handling' = d
  BY DEF ServerReceive
<1>2. /\ handling = Idle
      /\ UNCHANGED <<cpc, turn, shown, lpc, forked>>
  BY DEF ServerReceive, clientVars, loadVars
<1>3. /\ net' \in SUBSET net
      /\ ~mayDuplicate => net' = net \ {d}
  BY <1>1 DEF Deliver
<1>4. d \in Datagram /\ d.client \in Clients /\ d.n \in Turns /\ d = Request(d.client, d.n)
  BY <1>1, Forms DEF TypeOK
<1>5. TypeOK'
  BY <1>1, <1>2, <1>3, <1>4 DEF TypeOK
<1>6. NothingAhead'
  BY <1>1, <1>2, <1>3 DEF NothingAhead
<1>7. TurnsInOrder'
  BY <1>2 DEF TurnsInOrder
<1>8. ASSUME ~mayDuplicate, NEW c \in Clients, NEW n \in Turns
      PROVE  /\ Asking(c, n)' => Asking(c, n) /\ ~Handled(c, n)'
             /\ Handled(c, n)' => Asking(c, n)
             /\ Answering(c, n)' => Answering(c, n)
             /\ Printed(c, n)' <=> Printed(c, n)
  BY <1>1, <1>2, <1>3, <1>8 DEF Asking, Handled, Answering, Printed
<1>9. InOnePlace'
  BY <1>8 DEF InOnePlace
<1> QED BY <1>2, <1>5, <1>6, <1>7, <1>9, NothingPrinted

LEMMA ServerAnswerKeeps ==
  ASSUME IInv, ServerAnswer, UNCHANGED mayDuplicate
  PROVE  IInv'
<1> USE DEF IInv
<1>1. /\ handling # Idle /\ handling' = Idle
      /\ net' = net \cup {Answer(handling)}
      /\ UNCHANGED <<cpc, turn, shown, lpc, forked>>
  BY DEF ServerAnswer, clientVars, loadVars
<1>2. PICK b \in Clients, m \in Turns : handling = Request(b, m)
  BY <1>1, Forms DEF TypeOK
<1>3. TypeOK'
  BY <1>1, <1>2, Forms DEF TypeOK
<1>4. NothingAhead'
  BY <1>1, <1>2, Forms DEF NothingAhead
<1>5. TurnsInOrder'
  BY <1>1 DEF TurnsInOrder
<1>6. ASSUME NEW c \in Clients, NEW n \in Turns
      PROVE  /\ Asking(c, n)' => Asking(c, n)
             /\ ~Handled(c, n)'
             /\ Answering(c, n)' => Answering(c, n) \/ Handled(c, n)
             /\ Printed(c, n)' <=> Printed(c, n)
  <2>1. Answer(Request(c, n)) = Answer(Request(b, m)) => c = b /\ n = m
    BY <1>2, Forms
  <2>2. Request(c, n) # Answer(Request(b, m)) /\ Request(c, n) # Idle
    BY <1>2, Forms
  <2> QED BY <1>1, <1>2, <2>1, <2>2 DEF Asking, Handled, Answering, Printed
<1>7. InOnePlace'
  BY <1>1, <1>6 DEF InOnePlace
<1> QED BY <1>1, <1>3, <1>4, <1>5, <1>7, NothingPrinted

\* Lose, ServerAnswerFails, and the parent's steps other than fork().
LEMMA LossKeeps ==
  ASSUME IInv, net' \in SUBSET net, handling' \in {handling, Idle},
         UNCHANGED <<cpc, turn, shown, mayDuplicate, forked>>,
         lpc' \in {"fork", "wait", "completed", "failed"}
  PROVE  IInv'
<1>1. TypeOK'
  BY DEF IInv, TypeOK
<1>2. TurnsInOrder'
  BY DEF IInv, TurnsInOrder
<1> QED BY <1>1, <1>2, FewerMessages, NothingPrinted

LEMMA LoadKeeps == ASSUME IInv, Load, UNCHANGED mayDuplicate PROVE IInv'
<1>1. CASE ForkChild
  <2>1. /\ forked \in Nat /\ forked < CLIENTS /\ forked + 1 \in Children
        /\ forked' \in 0..CLIENTS
    BY <1>1, NumbersOK DEF ForkChild, IInv, TypeOK, Children
  <2>2. forked + 1 \in Clients /\ "prompt" \in {"prompt", "done"}
    BY <2>1 DEF Clients
  <2> QED BY <1>1, <2>1, <2>2, MovesOnKeeps DEF ForkChild
<1>2. CASE ForkFails
  BY <1>2, LossKeeps DEF ForkFails, clientVars
<1>3. CASE AllForked
  BY <1>3, LossKeeps DEF AllForked, clientVars
<1>4. CASE WaitAll
  BY <1>4, LossKeeps DEF WaitAll, clientVars
<1> QED BY <1>1, <1>2, <1>3, <1>4 DEF Load

-----------------------------------------------------------------------------
LEMMA InitIInv == Init => IInv
<1> SUFFICES ASSUME Init PROVE IInv
  OBVIOUS
<1> USE NumbersOK DEF Init
<1>1. TypeOK
  BY DEF TypeOK
<1>2. NothingAhead
  BY DEF NothingAhead
<1>3. TurnsInOrder
  BY DEF TurnsInOrder
<1>4. \A c \in Clients, n \in Turns : ~Asking(c, n) /\ ~Handled(c, n) /\ ~Answering(c, n)
  BY Forms DEF Asking, Handled, Answering
<1>5. InOnePlace
  BY <1>4 DEF InOnePlace
<1>6. OwnAnswerUntilTimeout /\ AnswersAreNotReused
  BY DEF OwnAnswerUntilTimeout, AnswersAreNotReused, Turns
<1> QED BY <1>1, <1>2, <1>3, <1>5, <1>6 DEF IInv

LEMMA NextIInv == IInv /\ [Next]_vars => IInv'
<1> SUFFICES ASSUME IInv, [Next]_vars PROVE IInv'
  OBVIOUS
<1>1. ASSUME NEW c \in Clients, Client(c), UNCHANGED mayDuplicate PROVE IInv'
  BY <1>1, SendKeeps, SendFailsKeeps, ReceiveAnswerKeeps, TimeoutKeeps DEF Client
<1>2. lpc \in {"fork", "wait", "completed", "failed"}
  BY DEF IInv, TypeOK
<1>3. CASE Server /\ UNCHANGED mayDuplicate
  <2>1. CASE ServerAnswerFails
    BY <1>2, <1>3, <2>1, LossKeeps DEF ServerAnswerFails, clientVars, loadVars
  <2> QED BY <1>3, <2>1, ServerReceiveKeeps, ServerAnswerKeeps DEF Server
<1>4. CASE Lose /\ UNCHANGED mayDuplicate
  BY <1>2, <1>4, LossKeeps DEF Lose, clientVars, loadVars
<1>5. CASE UNCHANGED vars
  BY <1>2, <1>5, LossKeeps DEF vars, clientVars, loadVars
<1> QED BY <1>1, <1>3, <1>4, <1>5, LoadKeeps DEF Next

LEMMA Invariance == Spec => []IInv
BY InitIInv, NextIInv, PTL DEF Spec

(***************************************************************************)
(* Every variable keeps its type; the load client never forks more than    *)
(* CLIENTS children.                                                       *)
(***************************************************************************)
THEOREM TypeCorrect == Spec => []TypeOK
<1>1. IInv => TypeOK
  BY DEF IInv
<1> QED BY <1>1, Invariance, PTL

(***************************************************************************)
(* On a network that loses and reorders but does not duplicate, a client   *)
(* whose turns have all been answered so far prints the answer to the      *)
(* message just sent, although answers carry no number.                    *)
(***************************************************************************)
THEOREM InStepUntilTimeout == Spec => []OwnAnswerUntilTimeout
<1>1. IInv => OwnAnswerUntilTimeout
  BY DEF IInv
<1> QED BY <1>1, Invariance, PTL

(***************************************************************************)
(* No answer is printed before its message was sent, and none is printed   *)
(* for two messages, whatever was lost, late or out of order.              *)
(***************************************************************************)
THEOREM PrintedOnce == Spec => []AnswersAreNotReused
<1>1. IInv => AnswersAreNotReused
  BY DEF IInv
<1> QED BY <1>1, Invariance, PTL

=============================================================================
