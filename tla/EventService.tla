---------------------------- MODULE EventService ----------------------------
(***************************************************************************)
(* What an event-driven server of m3_event_driven/ promises, connection by *)
(* connection, with no descriptors, slots, event masks or loop position:   *)
(*                                                                         *)
(*   - a connection is turned away only while room others are served,      *)
(*     a number fixed when the server starts;                              *)
(*   - what one connection sent is answered on that connection, once, and  *)
(*     before anything else is received;                                   *)
(*   - a served connection is closed only when it has been quiet for       *)
(*     IdleTimeout, has been reset, or has ended with nothing unread;      *)
(*   - the process ends only through SIGPIPE, while it owes a reply to a   *)
(*     connection that was reset after its client had closed.              *)
(*                                                                         *)
(* StaleEvents = TRUE states the weaker promise of a loop that can act on  *)
(* an event of a connection it has already replaced: any served connection *)
(* may then be closed at any time.  The other promises are kept.           *)
(*                                                                         *)
(* IgnoresFailedSend = TRUE states that of a server which does not look at *)
(* the result of write: an answer may be given up while its connection,    *)
(* already reset, stays in service, and the answer after it may end the    *)
(* process.                                                                *)
(***************************************************************************)
EXTENDS TcpPeers, FiniteSets

CONSTANTS
  MaxClients, IdleTimeout,
  None,          \* no reply is owed
  StaleEvents, IgnoresFailedSend

VARIABLES
  room,          \* connections that can be served at once
  quiet,         \* ticks since a served connection was accepted or heard
  owed,          \* the connection whose data is being answered
  up             \* the server process runs

serviceVars == <<phase, sent, recvd, replies, taken, fin, rst, room, quiet, owed, up>>

Serving == {c \in Conns : phase[c] = "open"}

Init ==
  /\ PeersInit
  /\ room \in 1..MaxClients
  /\ quiet = [c \in Conns |-> 0]
  /\ owed = None
  /\ up = TRUE

\* The connections of D leave service; nothing else about them changes.
Leave(D) ==
  /\ Forget(D)
  /\ quiet' = [c \in Conns |-> IF c \in D THEN 0 ELSE quiet[c]]
  /\ owed' = None
  /\ UNCHANGED <<room, up>>

Admit(c) ==
  /\ phase[c] = "queued"
  /\ owed = None
  /\ Cardinality(Serving) < room
  /\ phase' = [phase EXCEPT ![c] = "open"]
  /\ quiet' = [quiet EXCEPT ![c] = 0]
  /\ UNCHANGED <<sent, recvd, replies, taken, fin, rst, room, owed, up>>

Refuse(c) ==
  /\ phase[c] = "queued"
  /\ owed = None
  /\ Cardinality(Serving) = room
  /\ Leave({c})

Take(c) ==
  /\ phase[c] = "open"
  /\ owed = None
  /\ \E k \in 1..Unread(c) : recvd' = [recvd EXCEPT ![c] = @ + k]
  /\ quiet' = [quiet EXCEPT ![c] = 0]
  /\ owed' = c
  /\ UNCHANGED <<phase, sent, replies, taken, fin, rst, room, up>>

Answer(c) ==
  /\ owed = c
  /\ ~rst[c]
  /\ replies' = [replies EXCEPT ![c] = @ + 1]
  /\ owed' = None
  /\ UNCHANGED <<phase, sent, recvd, taken, fin, rst, room, quiet, up>>

GiveUp(c) ==
  /\ IgnoresFailedSend
  /\ owed = c /\ rst[c]
  /\ owed' = None
  /\ UNCHANGED <<peerVars, room, quiet, up>>

DropQuiet ==
  /\ owed = None
  /\ \E D \in SUBSET {c \in Serving : quiet[c] >= IdleTimeout} : Leave(D)

DropEnded(c) ==
  /\ phase[c] = "open"
  /\ owed \in {None, c}
  /\ rst[c] \/ (fin[c] /\ Unread(c) = 0) \/ StaleEvents
  /\ Leave({c})

Crash ==
  /\ \E c \in Serving : owed = c /\ rst[c] /\ (fin[c] \/ IgnoresFailedSend)
  /\ up' = FALSE
  /\ Forget({c \in Conns : phase[c] # "new"})
  /\ quiet' = [c \in Conns |-> 0]
  /\ owed' = None
  /\ UNCHANGED room

Elapse ==
  /\ quiet' = [c \in Conns |-> IF c \in Serving /\ quiet[c] < IdleTimeout
                                 THEN quiet[c] + 1 ELSE quiet[c]]
  /\ UNCHANGED <<phase, sent, recvd, replies, taken, fin, rst, room, owed, up>>

Next ==
  /\ up
  /\ \/ \E c \in Conns :
          \/ Peer(c) /\ UNCHANGED <<room, quiet, owed, up>>
          \/ Admit(c)
          \/ Refuse(c)
          \/ Take(c)
          \/ Answer(c)
          \/ GiveUp(c)
          \/ DropEnded(c)
     \/ DropQuiet
     \/ Crash
     \/ Elapse

Spec == Init /\ [][Next]_serviceVars

=============================================================================
