# rndz: TLA+ models, model checking and proofs

rndz lets two peers behind firewalls or NATs connect to each other. A *listening*
peer keeps itself registered at a rendezvous server; a *connecting* peer asks the
server for it by identity; the server tells the listening peer (Fsync), which sends
a packet to the connecting peer to open its firewall and answers (Rsync); the server
then gives the connecting peer the address (Redirect). There is a TCP and a UDP
version, and the TCP client exists with threads and with async tasks.

This directory models the TCP and UDP servers, their clients, the threads and tasks
inside the listening clients and the encoding of the messages. It model-checks them
with TLC, shows that both protocols implement one abstract specification of what the
library promises, and proves with TLAPS every invariant that the runs check, and that
both protocols implement that specification. What remains with TLC alone is liveness.

## 1. Inventory

| part | source | state | operations | runs beside it |
|---|---|---|---|---|
| TCP server | `src/tcp/server.rs` | `peers` (identity → connection) behind one mutex; per connection `peer_id`, a bounded channel, a socket | accept, `read_reqs`, `handle_ping/isync/fsync/rsync/bye`, clean-up at the end of `handle_stream` | one task per connection; tasks send into each other's channels |
| TCP client, threads | `src/tcp/client.rs` | `Signal {exit, broken}` with a condition variable; a `sync_channel` between two threads | `connect`, `listen`, `read_loop`, `write_loop`, `shutdown` | per connection: writer, reader, a thread that joins them, a watcher; and the thread of `listen()` |
| TCP client, tasks | `src/tcp/client_async.rs` | two `Notify` (exit, broken), a bounded channel | the same | per connection: reader, writer, joining task; and the task of `listen()` |
| UDP server | `src/udp/server.rs` | `clients` (identity → address, `last_ping`), `next_gc` | receive loop with a timeout, `handle_ping/isync/rsync/bye`, `gc` | one thread; an unreliable network |
| UDP client | `src/udp/client.rs` | `exit`, `failed_servers`, sockets, `svr_sks` | `listen` (one thread), `connect` (rounds over several servers) | the server and the other clients |
| wire format | `src/proto/rndz.rs`; `read_req`, `read_resp`, `write_req`, `send_response`, `send_cmd` | bytes in a stream or a datagram | encode, length prefix, read exactly, decode | writers that die in the middle of a message |
| CLI, examples | `src/main.rs`, `examples`, `build.rs` | none of their own | | |

What is hard, and what must hold there:

* **Tasks of the TCP server.** A task clones an entry of `peers`, unlocks, and uses
  its channel and address after an `.await`. Entries are replaced by reconnecting
  peers while the old connection still has to clean up. Channels are bounded and the
  sends have no timeout. `peer_addr().unwrap()` may panic with the mutex held. Must
  hold: the registry names live connections of the right peer; a clean-up removes
  only its own entry; addresses handed out belong to the peer they name; tasks do not
  wait for each other in a circle; `connect()` ends.
* **Order of the messages.** A peer must not be told to connect to one that it has not
  asked for, or that has not set out to open its firewall; the answer must find its
  destination.
* **Threads and tasks of a listening client.** Condition variable and `Notify` forget
  notifications nobody waits for. Must hold: one connection at a time; a broken
  connection is replaced; `shutdown()` stops the threads.
* **Bytes.** A length of two bytes in front of messages that hold identities of any
  length; a limit of 1500 bytes at the server and in every datagram. Must hold: nothing
  is misread, what fits is accepted, no reader waits for bytes nobody writes.
* **UDP.** Loss, duplication, delay and reordering; an entry goes stale; gc runs only
  after a datagram or a timeout. Must hold: stale entries go in bounded time, fresh
  ones stay, addresses are right, the address `connect()` returns is that of a
  listener that was asked for and has answered.

`PROJECT.json` lists these hazards with their lines.

## 2. Modules

```
                        Rendezvous
                         ↑      ↑          (INSTANCE ... WITH: implemented by)
TcpServer ─EXTENDS─ TcpRendezvous │        TcpListen      TcpAsyncListen
UdpServer ─EXTENDS─ UdpRendezvous ┘        Wire ─EXTENDS─ Framing
```

The theorems about a module M are in `MProofs`, which extends M and, when M extends
another module, the proofs about that one: TcpServerProofs, TcpRendezvousProofs,
UdpServerProofs, UdpRendezvousProofs, TcpListenProofs, TcpAsyncListenProofs, WireProofs,
FramingProofs.

Every `MC<module>` extends its module for TLC (symmetry sets, functions used as
constants, constraints). Names follow the source. Each module holds the mutated forms
of its definitions (marked "Mutant"); the specifications do not use them, each of them
makes one property fail.

**Rendezvous** is what users can rely on, without servers, messages or threads: a call of
`connect()` asks for a peer; a peer *answers* a call that asks for it, which means that it
sets out to send a packet to where the call comes from; the call connects to a peer that has
answered a call of the same identity, or fails. `ImplementsRendezvous` in TcpRendezvous and
in UdpRendezvous gives the mapping: a call is a connection with a target (TCP) or an address
that connects (UDP), `wanted` is its target, `answered` are the attempts to send a packet.

This is weaker than `lib.rs:14-16` ("the listening peer will send a dummy packet to the
connecting peer. This will open the firewall [...] After that, we return the native socket
types"), because the code is: that the packet leaves, and that it goes to the address that
then connects, is not part of it. Section 3 says what happens instead.

**TcpServer.** One step goes from one point where tasks can interfere to the next: an
`.await`, or an unlock that is followed by another lock. `read_reqs` and `handle_cmds`
are two futures of one `select!`, so they alternate within a task, and the end of
either drops the other and runs the clean-up (`HandleStreamEnds`). `Forward` is the
send into another task's channel, which waits for room; `WriteResp` waits for room in
the socket. A panic with the mutex held sets `poisoned`; every later `lock().unwrap()`
panics its task. A connection's number stands for the number `next_id()` gives it and
for the client's address. The clients are the environment: they send any command under
their own identity and close or reset at any moment.

**TcpRendezvous** replaces that environment by the clients of `client.rs`: a listening
client (reader, writer and the channel between them), a connecting client, both of
which can die and start again under the same identity. An identity may do both at once;
its connections then compete for one entry of `peers`. It extends TcpServer, uses its
actions for the server and for every read and write of a socket, and adds `tried`, the
connections whose client a listening peer has set out to send a packet to. Whether the packet
leaves does not change what the program does (`client.rs:206-207` ignores a failed `bind` or
`connect_timeout` and sends the Rsync), so the model does not say.

**TcpListen** has the five kinds of threads of a listening client over several
connections (`gen`): `write_loop`, `read_loop`, the thread that joins them and sets
`broken`, the watcher, the thread of `listen()`. A waiting thread is woken by
`notify_all` or, when `Spurious`, by nothing. `assert!(signal.broken)` failing is a
state of the manager and poisons the mutex. An Fsync can arrive once the first Ping was
written (`pinged`); one whose address does not parse makes `read_loop` return an error, and
the `unwrap()` around it (`client.rs:245`) panics.

**TcpAsyncListen** is the same for `client_async.rs`. `notify_waiters()` reaches only
the tasks inside their `select!`; a `select!` with two ready branches takes either and
forgets the other. Responses arrive once the first Ping was written; an Fsync whose address
does not parse ends `read_loop`.

**UdpServer** is the receive loop. One action is one whole iteration: a datagram or the
timeout, the handler, and gc if due. Time is discrete. Datagrams have no time stamp, so
the network is: any request a client may ever send can arrive at any time, any number of
times or never.

**UdpRendezvous** adds the clients: the thread of `listen()` (ping, poll, Rsync to the
server, then Rsync to the peer) and `connect()` with its rounds, its several servers and the
failure of its set-up, and makes the network explicit (`net`, `mail`: sets of messages that
are never taken out, which gives loss, duplication and reordering). The servers other than
the main one know no target. `heard` are the addresses an Fsync has told a listener; `holes`
those to which the packet was then really sent. Between the two the process may be killed
(`ListenerKilled`), and an error of `send_to` is ignored (`Punch`).

**Wire** is the encoding of `proto/rndz.rs`. The generated code has the same three
functions for every message, which differ in the fields they know; so a message type is a
table of fields, and `Size` (compute_size), `Write` (write_to_with_cached_sizes) and
`Parse` (merge_from) are operators on tables. Varints and length-delimited fields are the
protobuf library's and modelled from their use; like the library's, the value of a varint is
defined for all bytes, the high bits being masked.

**Framing** sends those bytes: over a stream, the length `as u16`, then the message;
`read_exact` on the other side, with the limit of the server; a writer may die anywhere in
a message. Over UDP, into a buffer that cuts off what is longer. A request that was read
leads to the responses the handlers make of it.

## 3. Runs

| run | result | question |
|---|---|---|
| `tcp_server` | holds | registry, addresses and clean-up, under all commands, resets, panics and poisoning |
| `tcp_server_poison` | **violated** | is the Ping of a live client always associated with it? |
| `tcp_rendezvous` | holds | does it implement Rendezvous? answered before redirected, no circular wait, `connect()` always ends |
| `tcp_rendezvous_target` | **violated** | does `connect()` reach the target it was given? |
| `tcp_rendezvous_deadlock` | **violated** | do tasks never wait for each other for good, when peers listen and connect? |
| `tcp_listen` | holds | one connection at a time; a `shutdown()` that returns stops `listen()` and the loops |
| `tcp_listen_reconnect` | **violated** | is a broken connection followed by a reconnection? |
| `tcp_async_listen` | holds | one connection at a time; the two loops end together |
| `tcp_async_drop` | **violated** | do all tasks end when the async Client is dropped? |
| `udp_server` | holds | gc timing, source known, addresses |
| `udp_rendezvous` | holds | does it implement Rendezvous? the address returned is that of a listener that was asked for and has answered |
| `framing` | holds | nothing misread, what fits accepted, no starving reader, answers fit, datagrams whole or dropped |

`tlc -config X.cfg MC<module>` repeats a run; `PROJECT.json` pairs modules and
configurations and says what each shows. `tlapm <module>Proofs.tla` checks the proofs. The
largest runs are `tcp_rendezvous` (0.9 million states) and `framing` (0.4 million), up to four
minutes each; `udp_rendezvous` has 0.13 million.

### Bounds

* `Cap`, `PendCap`, `OutCap` = 1 instead of 10 (channels) and a socket buffer. A smaller
  channel is full sooner, so more tasks wait; nothing depends on the number.
* `tcp_server`: two connections and three requests over all seven commands. A takeover
  needs two connections of one identity, a forward needs two of different identities.
* `tcp_rendezvous`: three connections (listener, connector, and a restart of either) and
  four requests, the shortest complete exchange being Ping, Isync, Rsync.
  `tcp_rendezvous_target` needs four connections: two targets, and two `connect()` of one
  identity; to keep it small its constraint leaves listeners alive.
* `tcp_rendezvous_deadlock`: two identities that both listen and connect, four connections,
  ten requests. The constraint `Facing` keeps TLC on behaviours in which nothing fails and
  requests are written in one order; it leaves out behaviours and adds none, so the
  counterexample is one of the unconstrained model. `Cap` is 1 here and 10 in the code,
  where the two channels have to be filled with ten requests each.
* `tcp_listen_reconnect`: two connections. The constraint `NobodyCalls` keeps TLC on
  behaviours in which no Fsync arrives. Without it the counterexample TLC finds first may be
  another one, in which `read_loop` panics at `client.rs:217` and `broken` is never set.
* `tcp_async_drop`: one connection that does not break (constraint `StaysUp`), a channel of 2.
  Both constraints leave out behaviours and add none.
* `tcp_listen`, `tcp_async_listen`: three connections, so that a reconnection can itself
  break while threads of the first are still ending. A channel of 2: one more than the
  first Ping.
* `udp_server`: Expire = GcPeriod = 2, ReadTimeout = 1 (the ratio of 60, 60 and 30
  seconds), eight units of time: three periods of gc and more than one worst case of
  Expire + GcPeriod + ReadTimeout.
* `udp_rendezvous`: one listener, one connector with two addresses, one other server, two
  rounds, gc at every iteration, so that entries vanish in the middle of an exchange. The
  view leaves out `holes` and the history variables of UdpServer, which no guard and no
  property of the run uses but for their types, the flags of threads that have ended and the
  rounds of calls that are over.
* `framing`: bytes of 104 values instead of 256, the smallest number that holds the tags and
  a continuation bit; lengths wrap around at 200 instead of 65536, the server accepts 104
  bytes instead of 1500. What the argument needs is kept, and is an assumption: no tag is the
  first byte of an acceptable length (10 · 256 > 1500), and a length has room for what the
  server accepts and an address (1500 and some < 65536). Identities have the lengths at which
  something changes: empty, one byte, around one and two bytes of length, at and above the
  limit, and such that a message wraps around to nothing, into its identity, to its end and
  into the nested message. Two requests, so that there is one behind a bad one; a writer that
  dies has written 0 to 3 bytes.

Deadlock is not checked: clients may stop, and the bounds end every behaviour.

### Fairness

Five runs use fairness (`tcp_rendezvous`, the two of TcpListen, the two of TcpAsyncListen),
always weak fairness of what the runtime or the operating system schedules: a task or thread
that can go on does, and timers fire.

* `RLiveSpec`: the least that can be asked. If tasks of the server (its 30-second timeout
  included) or threads of a running client can go on, one of them does at some time
  (`WF(Progress)`); which one, the scheduler is free to choose. It is enough because every
  step of theirs uses something up. Clients need not start, ping again or die.
* `TcpListen!LiveSpec`: each thread. Breaks, Fsyncs, wake-ups and shutdown need not happen.
* `TcpAsyncListen!LiveSpec`: each task, the 10-second timer, and that the server closes a
  connection the client has shut down (`read_reqs` of the server sees its end).
  Responses need not come. The part about the server is an assumption on the environment:
  it holds while the task of the connection can read, and finding 4 is a case in which it
  cannot and the server does not close. `LoopsEndTogether` says nothing of that case.

### Findings

1. **A reset connection can poison the registry** (`server.rs:217`). The address of the
   peer is taken with the mutex held and `unwrap()`ed. After that panic every task that
   locks panics, and no Ping registers anybody until the server is restarted.
   `AddressOfPeer`, `RegistrySound` and `OnlyOwnerLeaves` hold all the same.
2. **A Redirect is not compared with the target** (`client.rs:133`). The late answer to an
   abandoned `connect()` reaches the next one of the same identity, which goes to the earlier
   target. In the trace that target has sent its packet to the address of the earlier call
   only, so its firewall need not let the new one in, against `lib.rs:14-16`. Even when both
   calls have the same target the second may be redirected before a packet was sent to its own
   address: this is why Rendezvous speaks of an earlier call.
3. **A broken connection may stay broken** (`client.rs:302`). `listen()`'s thread waits
   without looking at `broken`. In the trace the first connection breaks and is replaced, the
   second breaks and `broken` is notified before the thread is back at its wait, which then
   never ends. (The panic of `tx.send(req).unwrap()` at `client.rs:217` has the same effect, as
   `broken` is then not set; the run leaves it out.)
4. **Two peers that listen and connect to each other can stop the server's tasks**
   (`server.rs:288`). Each of their two listening connections has an Rsync to forward to the
   other one's channel, which is full. `read_reqs` of both wait for room in their own
   channels, outside the timeout. With identities that either listen or connect this cannot
   happen (`NoCircularWait`), because `handle_isync` registers its connection only after its
   own forward, so nobody can send to a task that still waits to forward an Isync.
5. **A dropped async Client may go on** (`client_async.rs:39`). `notify_waiters()` leaves no
   permit. In the trace the Client is dropped while `read_loop` has not reached its first
   `select!` and `write_loop` is between two of them: the task of `listen()` ends, and the two
   loops ping the server for good.

Two more disagreements with the documentation have no run of their own:

* **UDP sends the packet last, if at all.** `lib.rs:14-16` has the packet first and "After that"
  the socket. `udp/client.rs:328` sends the Rsync to the server first and the packet at line
  331: the Redirect may overtake it, an error of `send_to` is ignored (line 492), and a process
  killed in between never sends it. As in finding 2, an answer to an earlier call may also reach
  a call from another address. `HolePunched` in UdpRendezvous is the claim of `lib.rs`. Added to
  `UdpRendezvous.cfg` (without its `VIEW`, which leaves out `holes`), it is violated in nine
  states: the Redirect arrives while the thread is between lines 328 and 331. In TCP the order
  is right (`client.rs:206` before 209), but a packet that fails is ignored there too.
* **UDP `connect()` needs all servers.** `udp/client.rs:100` says "Try each server until a
  successful connection is established." One server that does not resolve, or for which no
  socket can be bound, makes `connect()` fail before anything is sent (`SetUpFails`,
  `udp/client.rs:409`). Rendezvous lets every call fail, so `ImplementsRendezvous` does not
  object.

What the models also show, and no document denies: an Rsync that comes before `handle_isync`
has registered its connection is discarded, and `connect()` waits for the 30-second timeout.
An Isync of exactly 1500 bytes can be accepted whose Rsync has 1501 bytes and is not
(`AnswerAccepted`). A UDP request that fits may lead to a Fsync or Redirect with an address
that does not, and is dropped (`DatagramReceived`). In the async client a notification of
`broken` without a waiter is lost, as in finding 3. A `shutdown()` on a poisoned signal panics
and stops nothing, and a watcher woken up without cause before it is gone when it comes:
`ShutdownStops` excepts both.

## 4. Proofs

All constants are arbitrary up to the named assumptions in the modules
(`ServerAssumption`, `RendezvousAssumption`, `UdpServerAssumption`,
`UdpRendezvousAssumption`, `ListenAssumption`, `AsyncListenAssumption`, `WireAssumption`,
`FramingAssumption`): capacities and periods of any size, any number of identities,
connections, requests, addresses, servers and rounds, strings of any length. The bounds
(`MaxConns`, `MaxReqs`, `MaxTime`, `MaxGens`, `MaxSent`, `MaxCut`) are constants like the
others. The assumptions on numbers are what the code's own constants satisfy: a byte with
room for the tags and a continuation bit, and the two inequalities of the `framing` run.

**TcpServerProofs**: `TcpTypeCorrect`, `TcpRegistrySound`, `TcpAddressOfPeer`,
`TcpOnlyOwnerLeaves`. None of the properties is inductive alone. `IInv` adds

* `Accepted`: exactly the connections `1..count` have a client and a task;
* `HandlersOK`: what is in a channel, a socket or a handler's local variables. A Ping or
  an Isync comes from the connection's own client, an Fsync carries the address of the
  peer it names, a response with an address names the peer that address belongs to, and
  a handler that waits to forward has a connection to forward to.

The end of a task is where they meet: an entry `peers[i] = c` is found and removed because
`peer_id[c] = i`, which `RegistrySound` carries along from the registration; and an Isync
still being handled registers `c` under the identity of its own client only because of
`HandlersOK`. `TcpOnlyOwnerLeaves` is an action property and follows from `IInv` and one
step of each action that changes `peers`.

**TcpRendezvousProofs**: `TcpRendezvousServed` (`RSpec => Spec`): the clients of `client.rs`
are clients as TcpServer allows them, so all that is proved of the server holds in the
composition, and `IInv` can be used. `TcpAnsweredBeforeRedirect` follows one fact through the
system: *who sends an Rsync was asked for, and has set out to send the packet before*
(`AnsweredFor`). `RInv` says where the Rsync, and what it turns into, may be: in the listening client's channel (`PendOK`), in the socket, in the channel of
the listener's task, in its handler, in the channel of the connecting client's task and in the
socket back (`Served`), and that a peer answers only calls that ask for it (`TriedOK`; an
Fsync on its way carries the address of such a call, `Asks`). `connect()` then reads a
Redirect of a peer that has answered. `TcpRendezvousTypeCorrect` is part of `RInv`.

`TcpNoCircularWait` and `TcpNoDeadlock` have the hypothesis `Disjoint`: no identity both
listens and connects. Without it the run `tcp_rendezvous_deadlock` refutes them (finding 4).
The argument is `OneIsync`: the task of a connecting client has one thing to forward, its
Isync, and is not in the registry before that is done; afterwards only Rsyncs for its own
client reach it, which it writes and does not forward. So a chain of tasks waiting for room
ends after two links.

`TcpRendezvousRefined` (`RSpec => ImplementsRendezvous`): every step is a step of Rendezvous
or leaves its variables alone. The steps that answer need that an Fsync names a call that
asks for its destination, those that end a call that there is an answer: both are in `RInv`.

**TcpListenProofs**: `ListenTypeCorrect`, `ListenOneConnection`. The thread of `listen()`
learns from `signal.broken` alone that a connection has ended. `IInv` says what the flag
stands for (`BrokenJoined`: while it is set, or the thread is reconnecting because of it, the
last connection was joined), what a join stands for (`JoinedEnded`: both loops have returned)
and that earlier connections are joined. That the flag is consumed before the reconnection and
not set again during it is the induction step. Spurious wake-ups are included.

**TcpAsyncListenProofs**: `AsyncTypeCorrect`, `AsyncOneConnection`, with the same invariant;
what the flag was is here the notification, which reaches `listen()`'s task only in its
`select!`, and is never kept for the next connection.

**UdpServerProofs**: `UdpTypeCorrect`, `UdpStaleForgotten`, `UdpFreshKept`,
`UdpSourceKnown`, `UdpAddressOfPeer`. `IInv` adds `Timing` (the server never blocks with
gc overdue, nor longer than ReadTimeout), `EntryOK` (the last gc, at `next_gc - GcPeriod`,
would have removed an entry that was too old then) and `ToldOK` (a peer an Fsync has named
was refreshed then or later). `StaleForgotten` adds up the three periods.

**UdpRendezvousProofs**: `RendezvousImplementsServer` (`USpec => Spec`): with the
variables of UdpServer mapped to themselves, a step of the server under the real clients
and network is a step of UdpServer, and a step of a client stutters. So what is proved of
UdpServer holds in the composition. `RendezvousAnsweredBeforeRedirect`: `UInv` follows the
commitment of the listener through the system: an Isync in the network comes from an address
that asks, an Fsync names one that asks for its destination, an Rsync comes from a listener
that has heard of such an address (`NetOK`, `MailOK`, `Committed`); so does the address in
every Redirect, hence the one `connect()` returns (`ResultOK`). What an address asks for and
what a listener has heard never change, which is why a commitment survives a kill or a packet
that fails. `RendezvousRefined` (`USpec => ImplementsRendezvous`) follows from the same
invariant; `RendezvousTypeCorrect` needs `CInv` besides (rounds are counted up to the last).

**WireProofs**: for every request and every response, `SizeIsLength` (what compute_size
computes is the length of what is written), `RoundTrip` (what is written is parsed to the
message that was written) and `BeginningNotRead` (no proper beginning of it is parsed to a
message with a command). Varints and fields are recursive functions. `RecursionSolved` shows
that a definition by recursion into something smaller has a solution, so the functions satisfy
their equations; `NumberInduction`, from the well-foundedness of the numbers, serves for the
inductions. With the equations, `ScanField` says what the parser finds at the front of bytes
that begin a field, complete or not; the theorems put fields together.

**FramingProofs**: `FramingTypeCorrect`, `FramingNeverMisread`, `FramingFittingAccepted`,
`FramingNeverStarves`, `FramingAnswerAccepted`, `FramingDatagramReceived`. The inductive
invariant `Streams` says of each direction (`Channel`) that one of two things is the case.

* The reader has returned what was written, and nothing too long for it; and all bytes ever
  written are a sequence in which every message has its place (`Layout`), of which the stream
  is what lies behind the messages returned (`Flow`). Only the last message may be cut, and
  then the writer is gone.
* `Astray`, at the server only: the last request returned is one without command, the
  beginning of one whose length wrapped around, and the stream begins with a tag, two bytes at
  least if the writer lives.

A read in the first case goes to the first case (`RoundTrip`) or, if the length wrapped around,
fails or goes to the second (`BeginningNotRead`, with the place of the cut). In the second none
is possible, because a tag is no acceptable first byte of a length. That responses fit in
their lengths (`ResponseFits`) and answers in the server's limit (`AnswerFits`) is arithmetic
on `Size`: swapping the two identities of a request changes its size only by what the length of
the nested message takes, and up to 1500 bytes that is one byte or two. `Datagrams` is the invariant
of the datagrams: each was received as it was sent, or cut and then read as nothing, and
responses are only sent to requests received.

**Only model-checked**: liveness (`ConnectReturns`, `ShutdownStops`, `LoopsEndTogether`),
because the prover has no rules for fairness and `ENABLED`; and the five violations, which are
counterexamples and need no proof.

## 5. Not modelled

* Of the generated protobuf code: getters, setters, reflection and the skipping of fields
  that are not length-delimited. In the protocol modules a message is the fields the handlers
  look at, and one that cannot be parsed is the command "Bad"; Framing shows that what is
  read is what was written.
* Strings that are not UTF-8: identities are Rust strings, and a message is read whole or
  not at all, or ends up without command.
* The command line program, the examples, the build script.
* Binding sockets, socket options, choice of the address family: done once before any
  concurrency. The connection between the two peers after the rendezvous.
* `last_ping` of the TCP server (never read) and `last_pong` of the clients (reported only).
* The failure of the second `try_clone()` in `start_background` (`client.rs:244`), after
  `write_loop` was spawned: that thread writes its Ping and ends, as its channel has no sender,
  but nobody joins it. `StartFails` has the failures before any thread runs.
* The branch for an Fsync whose address does not parse in the UDP client
  (`udp/client.rs:334-336`): the server writes addresses as `SocketAddr` does, which parse.
* Sockets of the UDP Listener after `listen()`: it takes `svr_sks`, so that dropping the
  Listener sends no Bye. UdpServer handles Bye, UdpRendezvous sends none.

## 6. Plan

The modelling is complete up to section 5, and every invariant and refinement that a run checks
is proved. What could still be proved are safety facts behind the liveness properties: that in
the states in which `connect()`, `shutdown()` or the two loops have not come to their end, some
thread or task has a step to take, stated without `ENABLED` as the disjunction of the guards; and
the same for `NoDeadlock` under conditions weaker than `Disjoint`.
