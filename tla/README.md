# Verification of pillar1

TLA+ models, TLC checks and TLAPS proofs for the programs of this repository: a
set of TCP and UDP servers written in different styles, their clients, a packet
analyzer and a rule engine for ACL, NAT and routing. Paths below are relative to
the repository.

## The system

| Part | State | Operations | Properties that make it correct |
|---|---|---|---|
| `m3_event_driven/poll_server.c` | `fds[]`, `clients[]`, flags of the last `poll()` | poll, close idle clients, accept one, visit every slot | table and kernel agree; never blocks in `recv()`; silent clients make room; survives any client |
| `m3_event_driven/epoll_server.c` | `clients[]`, epoll set, batch of events | wait, close idle clients, handle the batch (accept, error, read and reply) | table, kernel and epoll set agree; an event reaches the connection it is about; idle check recurs |
| `m3_event_driven/select_server.c` | `clients[]`, `fd_set` | select, close idle clients, accept one, visit | as for poll |
| `src/select_server.c` | `client_sockets[]`, `fd_set` | select, accept one, visit; no idle check | as for poll, and descriptors fit the `fd_set` |
| `src/multi_client.c` | parent's `client_fd`, one child per connection | accept, fork, close; child: receive with time limit, reply | each connection ends with its last copy; no client delays another; children end |
| `src/server.c` | one connection | accept, read and write until it ends, close | what was sent is answered; the next client is served when the present one ends; no client ends the process |
| `src/udp_server.c`, `udp_client.c`, `udp_load_client.c` | sockets, datagrams under way, children | send, wait at most 5 s, answer | waiting ends; answers fit questions; the load test reports completion truthfully |
| `src/client.c`, `load_client.c`, `partial_client.c`, `reset_client.c`, `slow_client.c` (and copies in `m3_event_driven/`) | one socket each; the load client: its children | connect, write, read, close or reset; fork and wait | they end; the load test ends and its children are answered |
| `m5_acl_nat_engine/acl_nat_engine.c` | rule tables, NAT table, port counter | load rules line by line; per packet: inbound NAT, ACL, outbound NAT, route | the rules are those of the file; first match decides; translations are unique and permitted; replies only; longest prefix; table bound |
| `m4_packet_analyzer/packet_analyzer.c` | counters, the present frame | read a frame, count it, print it, print the summary | no read past the captured bytes; counts agree with what is printed |

The TCP servers and clients meet only in the kernel, through the listen queue,
socket buffers and descriptor numbers; the UDP programs through datagrams. The
rule engine and the analyzer are sequential programs over files.

What is hard here: each event loop acts on readiness that was reported *before*
it closed and accepted connections in the same turn, and a closed descriptor
number is the first one the kernel hands out again; sockets are blocking, so one
wrong `recv()` or `send()` stops everybody; descriptors, slots and watches run
out at different moments; SIGPIPE ends four of the servers; the forking server
shares connections between processes; UDP answers may be late; and the engine's
guarantees depend on the order of its four steps and on one counter, and on a
loader that keeps a word from one line to the next. The analyzer decides twice,
in two places, what a frame is.

## Modules

| Module | Models |
|---|---|
| `TcpPeers` | clients and connections (external): bursts written, received, replies written and read, orderly close, reset |
| `TcpHost` | descriptor table of a server process and the effect of accept, recv, send, close, exit (external) |
| `EventService` | what a TCP server promises, per connection, without slots, descriptors or positions |
| `PollServer`, `EpollServer`, `SelectServerM3`, `SelectServer` | the four event loops; each extends `TcpHost` and is checked to implement `EventService` |
| `IterativeServer` | `src/server.c`; extends `TcpHost` with its one descriptor and is checked to implement `EventService` |
| `LoadTest` | the client programs as scripts of calls and the load client with its children, composed with `IterativeServer` |
| `MultiClient` | the forking server; extends `TcpPeers` and keeps the copies of each connection itself |
| `UdpEcho` | the UDP server, client and load client with the network between them |
| `RuleTables` | rules, packets, NAT entries and the tests that compare them |
| `AclNatPolicy` | what the engine promises per packet, without loops or positions |
| `AclNatEngine` | the packet loop of the engine, one table position per step |
| `AclNatProgram`, `MCAclNat` | the rule loader, one line of the file per step, and then the packet loop; sample files and packets for TLC |
| `PacketAnalyzer`, `MCPacketAnalyzer` | the read loop, counters and decoder of the analyzer; sample frames for TLC |
| `PollServerProofs`, `EpollServerProofs`, `SelectServerM3Proofs`, `SelectServerProofs` | proofs about the four event loops |
| `LoadTestProofs` | proofs about `server.c` with its clients |
| `MultiClientProofs`, `UdpEchoProofs` | proofs about the forking server and the UDP programs |
| `PacketProofs` | proofs about the two programs that read packets, the engine with its loader and the analyzer; it extends both, for which the analyzer names its parts apart (`AnalyzerSpec`, `step`) |

In the servers `pc` is the place in the loop body, `slot` the index of the scan,
and every action is the code between two calls that the rest of the world can
observe (or the visit of one slot). `idle` is `time(NULL) - last_active`, cut off
at `IDLE_TIMEOUT`; `Tick` is a second of the server's clock. The addresses and
ports kept for logging, and the texts of messages, are left out: a message is
one burst, and a `recv()` may return several. `owner[f]` is the connection a
descriptor refers to; descriptors count from 1 and stand for those above the
standard streams and the listening socket.

A `send()` or `recv()` that would block is an action that is not enabled: the
process stays where it is, which is what a blocking socket does.

`LoadTest` takes from `TcpPeers` the effect of each call of a client, and from
the client programs which call comes when: a script is the sequence of calls of
one program, `at` the position in it, and a call that fails ends the program
(`Exit`). `client.c` waits at `"type"` for its user. `load_client.c` is `parent`
with its children, forked one at a time; the other clients of the run are
`Strangers`, each with any of the other programs.

In `AclNatProgram` a line is its kind (comment, empty, blank, one of the three
rules, other) and its rule, or `Malformed`. `type` is a variable because the code
does not set it on a line of blanks. Tables are filled until `MaxAcl`, `MaxNat`,
`MaxRoute`; the write after that is the end of the model (`"overrun"`), as it is
in the packet loop. A prefix may be any number: `HostBits` is the shift of
`prefix_mask()` with its count taken modulo the width, as compiled code does.

In `PacketAnalyzer` a frame is the fields that are tested, and `printed` is a
history of what was printed of each, with the number of bytes read for it.

What an environment decides once for a run of a program is a variable that no
action changes: `fdLimit` (RLIMIT_NOFILE), `watchLimit` (descriptors epoll may
watch), `setSize` (FD_SETSIZE, less the descriptors the server was started
with), `mayDuplicate` (the kind of network). TLC starts with each value the
`.cfg` gives, so that one run holds the cases with resources to spare and those
without. When a connection is closed, `Forget` resets its counters: nothing the
server or the client does afterwards depends on them.

A few definitions in each module are marked `Mutant`. No action uses them: they
are plausible mistakes (a missing `close()`, a flag not cleared, a limit off by
one) that each property is known to reject.

## Runs

Bounds are named in the `.cfg` files. The event servers run with three clients,
two slots and at most three descriptors: every hazard of these loops needs one
connection that leaves, one that takes its slot or descriptor, and a third to be
turned away. One client writes up to two messages (the second is the reply that
meets a reset connection); those in `Silent` connect, close and reset at any
moment and write nothing, which is the case that blocks a careless `recv()`. The
idle limit is one or two ticks: before it, at it, and (2) with a receive in
between that starts it anew.

| Run (`.cfg`) | Question | Result |
|---|---|---|
| `MCPoll` | do table and kernel agree, does `recv()` never block, is it an `EventService`, is every client released, with one descriptor and with more than slots | holds |
| `MCPollKill` | does the loop survive a failing `send()` | violated |
| `MCEpoll` | agreement of table, kernel and epoll set, refinement and release, with batches of two events when three may stand, and with one watch and more than slots | holds |
| `MCEpollIdle` | does the idle check recur | violated |
| `MCSelect` | agreement of table and kernel, one stale bit per turn at most, refinement and release, for the M3 select server | holds |
| `MCSelectSrc` | agreement, prompt `recv()`, refinement, release unless starved at `accept()`, for `src/select_server.c`, with a set that ends before the third descriptor and one that does not | holds |
| `MCMulti` | copies of connections, one reply to each receive, release of children and queue, also when `fork()` fails (three clients, two children) | holds |
| `MCUdp` | are answers in step until the first timeout and never printed twice; does the load test end | holds |
| `MCLoadTest` | is `server.c` an `EventService` with room for one; which clients can end it; are the children of the load test answered, and does it end | holds |
| `MCAclNat` | are packets judged by exactly the rules of the file and files refused for cause; uniqueness and permission of translations, replies only, refinement of the policy | holds |
| `MCNatOverrun` | is the NAT table indexed within its bounds | violated |
| `MCPacketAnalyzer` | does the summary agree with the reports; is nothing read past the capture, and are ports those of a transport header | holds |

Liveness of the servers is stated as `<>[]` of "every connection is new or
closed". A connection never leaves "closed" and there are finitely many, so this
is the same as "each one that is queued or open is closed some day".

`EventService` has two strengths. With `StaleEvents = FALSE` (poll and both
select servers) a served client is closed only when it was quiet for the limit,
was reset, or ended with nothing unread. With `StaleEvents = TRUE` (epoll) any
served client may be closed, because an error event of a replaced connection
removes its successor; the run shows that this is all a stale event can do.
`IgnoresFailedSend = TRUE` (`server.c`) allows an answer to be given up while its
connection stays in service, and the process to end on a connection that was
reset without having been closed first. `IterativeServer` instantiates it with
room for one, which nobody is ever refused: others wait in the queue.
`SelectServer` instantiates it with no quiet limit within reach and with a
process that never ends, since that program ignores SIGPIPE.

The engine runs on two-bit addresses: two private ones, a remote host and a
public address, with overlapping rules so that order decides, and two NAT
entries, so that the table can be filled and a third packet tried. The rules
files are all those with up to two lines for each table, and all of up to three
lines from comments, blanks, unknown words, malformed rules and rules with
prefixes out of range, in any order: three lines are enough for a word that is
carried over a skipped line, and for a table of two entries to overflow.

`MCLoadTest` has two children and two other clients, of which one line of
`client.c`, all of `partial_client.c` and so on fit the bound of three messages,
and a queue of two, so that a third client is turned away at `connect()`.

`MCPacketAnalyzer` takes every captured length at which a test changes its answer
and the one below, IP headers of two, five and six words, and captures of two
frames, so that a counter is read after having been increased for another frame.
The proofs lift these bounds, and those of all the other modules they are about.

### What the violated runs show

- **poll_server.c:250** (and epoll_server.c:315, select_server.c:247 of M3): a
  reply to a client that closed and then answered with RST raises SIGPIPE and
  ends the server; lines 252-261 expect an error return.
  `src/select_server.c:55` and `src/multi_client.c:87` ignore the signal.
- **epoll_server.c:254, 278**: the event of a client closed by the idle check of
  the same turn is handled on a new client that was given its descriptor. If it
  reports readable data, `recv()` blocks on the new client, and the check of
  line 184 is not reached again while it is silent.
  The select server of M3 has the same weakness at its line 210, for a bit set
  before the timeout check, once in a turn (`OneStaleBit`); it is why its run
  assumes that clients close.
  `poll_server.c` is not affected, because both removal and reuse clear
  `revents` (lines 42 and 170-194); that is `RecvNeverBlocks`, proved.
- **acl_nat_engine.c:275**: the 101st translated packet writes past `nat_table`.

### What some passing runs show besides

- `server.c` ignores the result of `write()`: the only client program here that
  can end it with SIGPIPE is `partial_client.c`, which sends three times and
  leaves after one answer (`EndedOnlyByPartialClient`). The load test survives
  that too: its children fail, and it ends (`LoadTestEnds`). It can be held for
  ever only by a `client.c` that was accepted before its children and whose user
  does not type (`HeldByKeyboard`).
- A line of blanks after a rule ends the engine with "Invalid ... rule", after an
  unknown word it is passed over (`TakenForRule` in `RefusedForCause`).
- `FlowsAreGenuine` excepts frames whose `ip_hl` is below 5 and later fragments:
  for those the printed ports are bytes of something else, though never bytes
  past the capture.

`src/select_server.c` has no statement that `ReleasedOrStarved` contradicts, but
its second disjunct is real: with as many descriptors as slots or fewer, a
waiting connection makes every turn stop at line 130, for ever. With one
descriptor more (`fdLimit` 3 in the run) `Starved` is never true, and the
property says that every client is released.

## Fairness

- `WF_vars(Server)`: a server is one thread; it takes its next step when that
  step can be taken. This includes a blocked call that can return.
- `WF_vars(Tick)`: clocks advance.
- A client that is sent replies reads them (`PeerRead`), where a reply could
  otherwise block the thread for ever: `MCPoll`, `MCEpollIdle`, `MCMulti`. No
  client need ever write or close there: the time limits of these servers close
  silent clients.
- Clients close some day in `MCSelect`, `MCSelectSrc` and `MCEpoll`; all clients
  of the repository do. Without it a stale bit or event could hold the thread.
- `MCLoadTest`: server, load client and every client go on whenever their call can
  return, `sleep()` ends, and nothing is assumed of who types into `client.c`. The
  kernel need not deliver a RST.
- `MCUdp` assumes nothing of the server and the network: only that clients and
  the parent go on, and that five seconds pass.

## Proofs

Every theorem holds for all values of the constants that satisfy the named
`ASSUME`s, which TLC evaluates in the runs: any number of connections, slots,
descriptors, children, messages, rules, packets and frames. Each module proves
its invariants by one inductive invariant `IInv`, with one lemma per action, and
each refinement by one lemma per action that names the step of the abstract
specification it is.

| Module | Safety proved | Refinement proved |
|---|---|---|
| `PollServerProofs` | `TypeOK`, `TableMatchesKernel`, `RecvNeverBlocks` | `EventService` |
| `EpollServerProofs` | `TypeOK`, `TableMatchesKernel` | `EventService`, with stale events |
| `SelectServerM3Proofs` | `TypeOK`, `TableMatchesKernel`, `OneStaleBit` | `EventService` |
| `SelectServerProofs` (`src/select_server.c`) | `TypeOK`, `TableMatchesKernel`, `RecvNeverBlocks` | `EventService` |
| `LoadTestProofs` | `TypeOK`, `AnsweredUnlessServerEnds`, `EndedOnlyByPartialClient` | `EventService` with room for one |
| `MultiClientProofs` | `TypeOK`, `OpenWhileHeld`, `RepliesMatchReceives` | |
| `UdpEchoProofs` | `TypeOK`, `OwnAnswerUntilTimeout`, `AnswersAreNotReused` | |
| `PacketProofs` (engine and loader) | `TypeOK`, `TranslationsAreUnambiguous`, `TranslationsArePermitted`, `ForwardedInboundIsReply`, `RulesAsWritten`, `RefusedForCause` | `AclNatPolicy`, by the engine and by the whole program |
| `PacketProofs` (analyzer) | `FlowsAreGenuine`, `SummaryMatchesReports` | |

**The event loops.** No property is inductive alone. All four invariants add
that no client has more replies than receives, or one fewer while a reply is due
(`RepliesBounded`, `ReplyIsDue`, for the types of the counters).

- *poll*: `VisitedIsUsed` (the slot being answered is in use) and
  `PollinIsFresh`: a readable flag of a used slot is still true of the connection
  that is in it now. This is the heart: `Poll` establishes it, `Sweep` and
  `AcceptClient` keep it only since they clear the flags of the slots they touch,
  and `FinishSlot` since the table holds every descriptor once. The refinement
  needs `BadIsFresh` besides: a flag for an error that is still to be acted on
  belongs to a connection that was reset, so that a removal is one the service
  allows.
- *`src/select_server.c`*: `BitsAreFresh`: a set bit of a descriptor whose slot is
  still to be visited is true. It rests on what poll does not have: nothing is
  closed between `select()` and the visits, and a new descriptor was not in the
  set. `FdsFitSet` (descriptors kept are below `setSize`) bounds the service by
  the smaller of array and set.
- *M3 select*: its bits may be stale, since idle clients are closed and a client
  is accepted between `select()` and the visits. The refinement needs no
  statement that they are fresh: a bit only leads to a `recv()`, so a client is
  removed when it has ended or was reset, or for being idle. What can be proved of
  the bits is `OneStaleBit`: until the accept none is stale, and among the slots
  still to be visited at most one is, the new client's, which `AcceptClient` may
  give a descriptor whose bit is set. So one `recv()` of a turn at most can wait
  for a client that `select()` did not report.
- *epoll*: here events may be stale, and nothing like the two above holds. What is
  proved is that table, kernel and epoll set agree all the same, and that a stale
  event does no more than the service with `StaleEvents` allows. `WatchesFit`
  (the epoll set is within `watchLimit`) and the three ways of counting what is
  served, by slots, descriptors and watches, show that a client is turned away
  only when there is no room. `FirstSlot`, that a table with a free slot has a
  first one, is by well-founded induction on the set of free slots.

**`server.c` and its clients** (`LoadTestProofs`). The programs are sequences of
calls, so the invariant speaks of positions in them. `EndsAreLast`: nothing ends
a connection but the last call of its client or the end of the server. `InTurn`:
a program other than `partial_client.c` has one message under way at most, hence
if it leaves and the kernel answers with RST, everything it sent has been
answered. `SpentIsLast`: a failed `write()` to such a client was the answer to
its last message, so that a second `write()`, which would raise SIGPIPE, never
comes. `OneServed` and `Counted` tie these to the one descriptor of the server,
and the refinement follows from the same invariant.

**The forking server**. `ParentHolds` (the parent has its copy from `accept()` to
`close()`, and forks once for it) and `ChildrenInStep` (children exist only for
accepted connections, start with nothing received or sent, and take some data at
every receive) make the properties inductive: whichever process closes first, the
connection ends with the last copy, and a waiting child has sent as many replies
as it has made receives. The receives are counted by the history variable
`receives`, which no guard reads: recv() may join messages, so what was taken off
the connection does not say how many replies it was worth.

**UDP**. `InOnePlace`: where the network does not duplicate, a message is a
request under way, or being handled, or an answer under way, or printed, and
never two of these; with `NothingAhead` and `TurnsInOrder` it gives both
properties, however much is lost, late or reordered.

**The rule engine**. The invariant of the engine states what each search has
ruled out so far: no NAT entry, no ACL rule, no NAT rule before position `i`
matches the packet, and `best` is the best route before `i`; translations are
unambiguous because the port counter is above every port in the table. The
invariant of the program (`ProgramInv`) adds the loader's: while it reads, the
engine is at rest; each table holds exactly the rules of the lines read, each in
its place (`ReadSoFar`, with `StatedGrows` for one line more); none of those lines
was malformed; and `type` is the last word among them (`TypeRemembered`, which is
why a refused blank line was one that is taken for a rule). `CidrMatch` stays
closed, so the proofs hold whatever it compares.
The policy lets the rules be set before the first packet (`Configure`), so that
the steps of the loader are steps of the policy.

**The packet analyzer**. `FlowsAreGenuine` is a fact about one frame
(`ReportIsGenuine`, by the outcomes of the tests in turn).
`SummaryMatchesReports` needs `CountsFit`: between `NextFrame` and `Analyze` the
counters of the present frame are one ahead of the reports; and
`BelowIpIsCounted`, that the two places that look at a frame agree on which are
IPv4.

**Model-checked only.** All liveness properties, since they rest on fairness and
ENABLED, which the prover does not handle: `QueuedIsReleased`,
`ReleasedOrStarved` and `LoadTestEnds`. Every safety invariant and every
refinement that a passing run checks is also proved; the types of
`SelectServerM3` and `PacketAnalyzer` are proved only.

## Not modelled

- The characters of addresses, ports and protocol names: what `sscanf` and `atoi`
  make of odd spellings (an octet above 255, a port that is not a number), and
  files that cannot be opened. A packet line with an invalid address, which ends
  the program, is the end of the input. A rule longer than `LINE_SIZE` is two
  lines for `fgets()`, and for the model.
- What the programs do after a write past a table, or past an `fd_set`: unlike
  `src/select_server.c`, the M3 select server calls `FD_SET` without a test, and
  its model is of descriptors below FD_SETSIZE (1024), which the usual limit on
  open files guarantees.
- Whether the shift of `prefix_mask()` by an amount out of range gives the bits a
  rule means: policy and engine share `HostBits`.
- EINTR, and failures of `poll`, `select`, `epoll_wait` themselves, which end
  the M3 servers; wall-clock jumps; the limit of `poll()` against
  RLIMIT_NOFILE; partial `send()`s, which blocking sockets make only on signals.
- A client queued for `accept()` that has been reset stays in the queue, as on
  Linux.
- `client.c` at the end of its input or of its connection goes round its loop with
  an old buffer; the script ends there instead. Set-up of sockets, and bind or
  listen failing.
- Errors of `pcap_next_ex()` are the end of the file, as in the code; TCP flags,
  addresses and layout of the analyzer's output. Captures of other link types than
  Ethernet and datagrams with padding behind them, which the code decodes all the same:
  it never asks for the link type, and only prints `ip_len`.
- The container and scripts: build and environment checks without state.

## Plan

1. (done) `TcpPeers`, `TcpHost`, `EventService`, `PollServer` and its proofs.
2. (done) `EpollServer`, `SelectServerM3` as refinements of the same service.
3. (done) `RuleTables`, `AclNatPolicy`, `AclNatEngine` and the refinement proof.
4. (done) `SelectServer`, `MultiClient`, `UdpEcho`.
5. (done) `IterativeServer`, and `LoadTest` that composes it with the clients.
6. (done) `AclNatProgram`: the rule loader in front of the engine.
7. (done) `PacketAnalyzer` and its proofs.
8. (done) Proofs for the four event loops, `server.c` with its clients, the
   forking server, the UDP programs and the rule loader.

Left for another day: EINTR and failures of `poll`, `select` and `epoll_wait`,
wall-clock jumps, and the spelling of rules and packets.
