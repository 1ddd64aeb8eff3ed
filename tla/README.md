# Verification of XARXES-P1

XARXES-P1 is a client-server system for registering *controllers*: a C server
(`server_module/`) and a Python client (`client_module/`) that talk UDP. This
directory holds TLA+ models of both, of the two together over a faulty network, of
the bytes they exchange and of the server's life as a process; the TLC
configurations that check them; and the TLAPS proofs about them. Paths below are
relative to `src/`.

## 1. The system

| Component | Where | State it keeps | Operations |
|---|---|---|---|
| Subscription loop | `server.c` main 295-378 | controller and socket in hand, one `argsThread` on its stack | take a datagram; reject, offer a session, or evict; start a thread; exit |
| `controller_handler`, one thread per session | `server.c` 120-260 | its position, tries `s`/`x`, `first` | wait for SUBS_INFO; answer INFO_ACK; HELLO loop; three ways to close |
| Controller table | `data_structures.h` 41-52 | `state`, `random_num`, `udp_port`, `socket_child` per controller | `set_state_controller`, `disconnect_controller`, written by main and handlers without a lock |
| Sockets, ports, draws | `util_functions.c` 120-163 | descriptors, `rand` seed | `assign_udp_port`, `generate_random_number`, `create_udp_socket` |
| Server PDU code | `util_functions.c` 201-508, 550-575 | the text fields of a controller | type, validation, construction; `read_from_buffer`, `write_to_buffer` |
| Server start, command thread, shutdown | `server.c` 20-110, 263-292; `util_functions.c` 19-116 | `ProgramArgs`, `server_config`, the rows of the table, the disposition of SIGINT | arguments, two files, `quit`, `list`, Ctrl+C |
| Server TCP socket | `util_functions.c` 166-196 | - | opened, never used |
| Client subscription | client `util_functions.py` 90-200 | `count`, `n`, `o` | `subscription_start`, `subscription_process` |
| Client hello threads | client `util_functions.py` 44-87 | `s`, `first`, and one flag `common.hello_thread` for all of them | `keep_communication` |
| Client main, exit | `client.py` 22-112 | `common.run_main`, `socket_tcp` | reset, subscribe, spawn, connect by TCP, `exit_server` |
| Client object, socket, PDU | `class_manager.py` | state, random number, server mac, destination port | `set_server_data`, `check_info_ack_data`, `check_hello_recived`, `set_port`, `sendto`, `recvData` |
| Configuration, arguments, printing | both | - | read once; output |

How they interact. A client sends SUBS_REQ to the server's main port. Main looks
the controller up, draws a random number and a port, opens a socket on it, answers
SUBS_ACK and starts a handler thread. SUBS_INFO/INFO_ACK and then a HELLO every
two seconds pass between that handler and the client's hello thread. Inside the
server main and the handlers share the table and the process's descriptors;
inside the client main and the hello threads share the Client object, the socket's
destination port and the flag. Nothing is locked on either side.

What is hard: main resetting a controller while its handler serves it; a handler
still tearing down a session while the next one is offered; a thread that starts
late and reads another controller's position; the order of `disconnect_controller`
and `close`; descriptors lost when a port is busy; a hello thread that sleeps
through the end of its session; bounds nested three deep with a restart that
refills them; a late answer taken for the next one; offsets that differ by one on the two
sides. `PROJECT.json` lists each of these, and the rest, under `hazards`.

What makes each component correct:

- *server*: at most one handler acts for a controller; what a client is told in
  one session stays the same through it; a handler has its own open socket; the
  state walks one cycle; every handler ends.
- *client*: HELLO bears the session's number and goes to its port; the state
  walks one cycle; it gives up only when it may; subscription and shutdown end.
- *both*: what one side sends is what the other expects; two sides that take the
  controller for subscribed mean the same session, whatever the network lost or
  repeated; neither is left alone in a dead one; without faults the client gets in.
- *bytes*: each side finds in a datagram what the other put there, at its own
  offsets and lengths; every byte sent was written.
- *process*: the server opens the files it is told to, knows all of them that is in
  order when it begins to serve, and ends at `quit`.

## 2. The modules

| Module | What it is |
|---|---|
| `Server` | main loop, handler threads, table, descriptors and ports |
| `Registration` | abstract: the life of a controller, in the states `common.py` names |
| `ServerRefinement` | where a controller is in that life, and `ImplementsRegistration` |
| `ServerInvariant`, `ServerProofs` | the inductive invariant `IInv` of `Server`; its proof, and what follows |
| `Client` | main thread, subscription, hello threads, exit |
| `ClientInvariant`, `ClientProofs` | the same for `Client` |
| `System` | `Server` and `Client` composed over the network |
| `SystemProofs` | the composition implements both |
| `Agreement`, `AgreementProofs` | `System` with what each side has told the other; what holds between the two for any number of faults |
| `Pdu` | the bytes of a subscription and its HELLOs |
| `PduProofs` | the offsets of the two sides agree for all lengths |
| `PduTextProofs` | what the text fields are on the other side, for all lengths and contents |
| `ServerProcess` | start, command thread, SIGINT and end of the server |
| `ServerProcessProofs` | what it opens and serves with, for all arguments and files |
| `MCServer`, `MCClient`, `MCSystem`, `MCPdu`, `MCServerProcess` | values and bounds for TLC |

### Server

One action is what a thread does between two accesses to shared state that another
thread can tell apart. `mpc` and `tpc[t]` are control points; they name the code:

- main: `recv` (300) -> `roll` (319) -> `bind` (324-330) -> `ack` (334-346) ->
  `wait` (355) -> `save` (356) -> `spawn` (359-363) -> `recv`, and
  `drop1..drop3` for `disconnect_controller` (368).
- handler: `start` (125) -> `mark` (127) -> `info_call`, `info_recv` (136-165) ->
  `info_ack`, `info_set` (168-177) -> `hello_check` (179) -> `hello_call`,
  `hello_recv` (183) -> `hello_first`, `hello_reply` (193-204), and `drop1..drop3`,
  `close` for the ends of a session (156-158, 221-223, 232-234, 248-250, 254).

The clients are the environment: `MainReceive(m)` and `HandlerReceive(t, m)` take any
datagram of `Datagram` at any time, so loss, duplication, delay, reordering and
senders outside the table are all included. A datagram is its type, its sender and,
where the server reads it, the random number.

The kernel is modelled as far as the code depends on it: `bound[f]` says what
descriptor `f` refers to, `socket` returns the lowest closed one, `bind` fails while a
descriptor or a `recvfrom` under way still holds the port (`InUse`), `close` frees the
number but not a `recvfrom` blocked on it (`sock[t]`), and a socket used before main
has set its timeout blocks for good (`forever[t]`). `seed` is `time(NULL)`: draws in
one second are equal, because every draw calls `srand` first.

Undefined behaviour: `validate_sub_req` writes one past `mac_to_check`; what it hits is
the compiler's choice. In an unoptimised gcc build it is `total_bytes`, and a
registered controller can then be refused. `MainReject` may therefore be taken for any sender.

History variables (no guard reads them): `offered`, the number of the last SUBS_ACK;
`disturbed[c]`, which says that somebody other than `c`'s one handler has touched `c`'s
session (main evicted it, or offered a new one before the last handler had finished, its
last `close` included, or a handler read another position); and `calm`, that no session was ever
disturbed. The invariants of `Server` are about undisturbed sessions. Of disturbed ones, only
the liveness properties, the measure and what `Agreement` says of the two sides hold; `hazards` says which
property, if any, covers each way to disturb one.

`Registration` is the cycle of states `common.py:48-54` documents: WAIT_INFO is the wait for SUBS_INFO,
SUBSCRIBED follows it, SEND_HELLO comes last, and each is left for the next or for DISCONNECTED. The variable
`state` does not walk it, because `server.c:127` writes SUBSCRIBED before the wait begins (`WaitsInWaitInfo` is the
violation). The refinement therefore reads a controller's life off its handler as well: WAIT_INFO until the
handler has answered SUBS_INFO (`Begun`), DISCONNECTED from the decision to disconnect it (`Over`), `state`
otherwise, and DISTURBED for a session the server promises nothing about.

### Client

Main's control points follow `client.py` 80-109 (`sleep`, `top`, `reset`, `look`,
`connect`, `spawn`, `exit`), `subscription_start` (`start`, `restart`, `again`, `result`) and
`subscription_process` (`attempt`, `ack_recv`, `info_send`, `info_recv`,
`subscribed`, `undo_port`, `undo_random`, `judge`); a hello thread's follow
`keep_communication`. `disconnect_client_values` and the change of state after it
are three steps. The environment may answer any request with any `Answer` or let it
time out. A closed socket sends and receives nothing, as in `sendto`/`recvData`.

`tcp` says whether there is a `socket_tcp`. Once in SEND_HELLO main connects, and waits there:
the connection is made, refused (`Connected`: `setup_tcp` catches that), or times out. Nobody
catches a timeout, nor what an answer that cannot be read raises (`"GARBLED"`: an unknown type,
a port that is no number). Either ends the thread it is raised in: main is then in `crashed`, a
hello thread has `ended` and leaves the state as it is. The other threads go on. The locals of
a function are reset when it returns (`Finish`, `Spawn`, `Judge`): nothing reads them again.

`Attempts` is the set of values `n` may draw. `p`, `q`, `t` and `u` only stretch
waits and are left out with all durations.

History variables: `offer`, what the last SUBS_ACK offered; `stale[h]`, that the
session of hello thread `h` has ended; `haunted`, that a stale thread found a valid
state and went on. `HelloBearsOffer`, `GivesUpLast`, `UnhauntedSession` and `Resubscribes` hold until
`haunted`, the others always.

### System

`System` extends `Server` and instantiates `Client` with its variables renamed `c_...`.
Every action is an action of one of the two, with the environment's choice replaced by
the network: `requests[p]` are the datagrams queued at the server's port `p`, `answers`
those in the client's one socket. What a step of the server puts into `out`
becomes an answer (`AnswerOf`), what a step of the client puts into `c_sent` a datagram
at the port the client had then (`DatagramOf`): the two conversions are where the byte
layout of `Pdu` is abstracted.

The network loses (`Lose`), repeats (`Duplicate`), reorders (`Reorder`) and delays. Delay
is a timeout that expires although what was waited for is still to come (`Patient`,
`AnswerToCome`, `RequestToCome`); the answer then stays in the socket and is
read as the answer to the next request. Together they are at most `MaxFaults`. What has no
reader left (a closed socket; a descriptor nobody holds) is dropped by `Undeliverable`,
which is no fault.

Who can still answer is a statement about time: `AnswerToCome` and `RequestToCome`
say that a side which has something to read or a step to take acts before the other
side's timeout of two seconds or more. That is what "a network that answers in time"
means in the properties.

`Agreement` adds three history variables to `System`, sets that only grow and that no step reads: the random
numbers of the INFO_ACKs the server has sent (`confirmed`), of the HELLOs the client has sent (`greeted`), of the
HELLOs the server has sent (`echoed`). With them one can say that a side takes a session for running only if the other has
heard of it, which needs no bound on the faults: `GreetedFirst`, `ConfirmedFirst`, `EchoedFirst`, `GreetsConfirmed`.
`MCSystem` runs `Agreement`.

### Pdu

One client and one controller entry go through a subscription and its HELLOs in the
order nothing disturbs (`Server` and `Client` model every other order); `wire` is the last datagram, a
function from byte offsets to bytes, where `Unset` marks a byte `malloc` returned and
nobody wrote. `read_from_buffer`, `write_to_buffer`, `fill_empty_to_buffer`, `encode_bytes`
and `decode_bytes` keep the code's offsets, lengths and NULs, so that the server reads 13 and 9
bytes where the client reads 12 and 8. `Late` puts a datagram with any other
random number in place of the client's. Undefined behaviour: `NameFrom` (the write past
`mac_to_check`), and `Fresh`, the bytes of arrays read before they are written in
`validate_sub_info`.

### ServerProcess

Main's points are `args`, `server_file`, `controllers_file`, `rows`, `thread`, `signal`, `udp`, `tcp`,
`loop` (`server.c` 263-292), each with its failure. One round of the loop over `argv` is
`ParseArgument`, one of the loop over the rows `ReadRow` or, when only blank lines are left,
`ReadNothing`; `next` is the argument or the line each reads next. The command thread scans and acts
(`command_handler`), also after the end of stdin, where `scanf` leaves the last word.
`disposition` is what SIGINT is set to. The Makefile builds with `-ansi -std=c99`, which gives
`signal` its System V meaning: the handler is called once.

## 3. The runs

| Run | Bounds | What it shows |
|---|---|---|
| `server_sessions` | 2 controllers, 2 handlers, 2 descriptors, 2 ports, 2 seeds, 4 datagrams; symmetric | `TypeOK`, `ExclusiveService`, `RepliesCarryOffer`, `SocketIntact`, the inductive parts `Sessions` and `Sockets`, and the refinement `ImplementsRegistration` |
| `server_drain` | 2 controllers, 2 handlers, 2 descriptors, 4 datagrams, 1 random number besides zero, fair | `HandlersDrain`, `HandlersNear` |
| `client_sessions` | 2 hello threads, 5 answers, 1 random number besides zero, `n = 3`, fair | `TypeOK`, `HelloBearsOffer`, `GivesUpLast`, the inductive part `UnhauntedSession`, `FollowsProtocol`, and `SubscriptionEnds`, `SubscriptionNears`, `QuitEnds`, `Resubscribes` |
| `system` | 1 controller, 2 handlers, 2 hello threads, 2 offers, 1 fault of any kind, `quit` at any point before it | `SystemTypeOK`, `SameSession`, `GreetedFirst`, `ConfirmedFirst`, `EchoedFirst`, `GreetsConfirmed`, `GetsThrough`, `EndInStep` |
| `pdu_session` | arrays of 2 to 6 bytes; names, situations, ports and elements of every length from empty to cut off | `TypeOK`, `AcceptsOffer`, `Agreed`, `FoundIsSender`, `InfoKept`, `EchoBoundary` |
| `process_life` | every list of up to 3 arguments, files that are whole, out of order, too long, with blank lines, empty, missing | `TypeOK`, `OpensNamedFiles`, `LoopReady`, `QuitEnds` |
| `server_args`, `server_close`, `server_retry`, `server_info`, `client_hello`, `process_sigint` | the smallest at which the violation shows; in `client_hello` only the answers it needs (`NotSent`) | see findings |

Why the bounds are enough. Four datagrams complete a session (SUBS_REQ, SUBS_INFO, HELLO)
and disturb it (SUBS_REQ again), or start two sessions and take each one step; timeouts
and clock ticks are not bounded, so a session also expires and the controller comes back
within the bound. Two controllers are what the shared `argsThread`, the shared
descriptors and equal draws need. Two descriptors are few enough to run out.

In `server_drain` the fourth datagram matters: a handler that ended on a bad SUBS_INFO closes the
descriptor of its controller's next session, main opens that number again for the other controller, and the
second handler enters `recvfrom` before main has set the timeout (`server.c:324`, `337`). It waits for
ever, and the handlers of two controllers hold one descriptor. `HandlersDrain` lets a handler stay that waits
without a timeout, and only after some session was disturbed: before that, one would violate it. All draws of the run give the same random
number, which decides only whether a late datagram is valid, and the environment sends valid and invalid ones anyway.

With five answers the client completes a session (SUBS_ACK, INFO_ACK, HELLO), connects, loses it and completes
the subscription of the next while a thread of the first is alive; this is what `KeepsSendingHello` needs, too,
and the case in which `Resubscribes` has to say `haunted`: the first thread's late HELLO sets SEND_HELLO
again while main sleeps. A third hello thread would need a third session. One random number besides zero is enough, since
answers bear zeros as well; of two threads that could be started it is the first (`InOrder`), since they are
alike. `MaxArrivals` and `MaxAnswers` bound only what the
environment sends. In `MCServer` the clock can always tick, so TLC's deadlock check says
nothing there and `HandlersDrain` does; in `MCClient` it means that the client cannot get
stuck before `Ended`.

`MCSystem` bounds the sessions main offers (`MaxOffers`): after two, the client sends no SUBS_REQ any more, as if
its main thread slept, everything under way runs to its end, and so `EndInStep` and `GetsThrough` speak of both sessions and
of the time after them. As long as the network has made no fault, all threads and datagrams interleave freely. After a
fault threads compute faster than datagrams travel: a thread that is not waiting goes first, the server's before the
client's. A hello thread that sleeps in its loop is waiting: the two seconds of `util_functions.py:87` may end before or
after main's second (`client.py:81`), so that a thread of the first session may be alive in the second. What the
priority leaves out is the order of computing steps on different sides after the fault; `MCServer` and `MCClient` interleave
each side's freely. The second changes where the server can tell: before a
SUBS_REQ and while main draws ports. `n = 3` is the least the code draws. With `Backlog = 2` a third
datagram in one socket is dropped, as the kernel does when its buffer is full. With two handlers and two hello
threads, those of a dead session and of the next meet on both sides.

`GetsThrough` speaks of the behaviours without a fault: client and server get into a session and stay there, unless the
client is told to quit or the server exits. `EndInStep` speaks of all: in the end the server has the controller in
SEND_HELLO exactly if the client has a thread that greets it. A client that `KeepsSendingHello` has left in
SEND_HELLO without a thread greets nobody; the server drops it, and the client's own state stays as it is.

In `pdu_session` only the relations between the lengths matter, not their size: the table
holds two controllers with one address and two with one name, a name
may be longer than its array, name and situation may fill the data to the last byte and
exceed them.

`process_life` is checked without deadlock: the process is meant to stop.

Fairness. Each thread is scheduled whenever it can run (`WF` on main's and on every
thread's own steps), which is what the operating system and the Python interpreter do;
a timeout is such a step, because every receive but a `forever` one has one. The clock
ticks. In `Server` and `Client` nothing is assumed about datagrams: the liveness
properties say what happens *once they stop*. With an endless supply of bad datagrams the two
SUBS_INFO and three HELLO tries would still end, but valid HELLOs keep a session alive for ever,
as they should. `SystemFairness` adds that what the network does not lose it
delivers (`ServerMainReceives`, `ServerHandlerReceives`, `ClientReceives`, `Undeliverable`); no
fairness makes it commit a fault, or the client quit. `OthersFairness` is all of it but for the client's main thread:
in `MCSystem` that one is fair except where it is held at the bound (`MainRuns`).

### Findings

Each has a run that ends in a counterexample.

- `ServesItsOwn`: `pthread_create` gets the address of a variable the next session reuses.
- `CloseSectionCloses`: `disconnect_controller` sets the descriptor to -1, then the handler closes -1: the port of
  the session it ended stays bound.
- `RetryFindsSocket`: every failed `bind` loses a descriptor, and the loop has no exit.
- `WaitsInWaitInfo`: the handler writes SUBSCRIBED before it waits for SUBS_INFO (`server.c:127`), which is what
  WAIT_INFO stands for (`common.py:51`).
- `KeepsSendingHello`: one hello thread clears the flag of the next.
- `EndsByDisconnect`: the one call of the SIGINT handler kills its own process before it
  closes anything.

Seen while modelling, and modelled as the code does it, without a run:

- a handler may wait for ever on a descriptor that main has opened anew (`server.c:324` before `337`, above);
- a handler whose client sends no SUBS_INFO returns and leaves the controller SUBSCRIBED, its socket open (`server.c:259`);
- a hello thread that slept through its session's end counts its lost HELLOs into the
  next (`util_functions.py:63`);
- `client.get_current_state` is compared, not called (`util_functions.py:156`), so a
  SUBS_ACK or INFO_ACK that comes at the other's step is not the unexpected answer it should be;
- blank lines of `controllers.dat` count as controllers (`util_functions.c:66`), the result of `create_udp_socket`
  is not looked at (`server.c:291`), nor are those of `fscanf` (`util_functions.c:50`): `LoopReady` is about
  files in order, and silent on these three;
- the server listens on its TCP port and never accepts: once its queue of five is full, the `connect` of
  a client times out and ends the client's main thread (`class_manager.py:334`), while its hello thread
  keeps the session; when that ends, nobody subscribes again. `Resubscribes` exempts it (`crashed`);
- a refused TCP connection is not tried again in that session (`client.py:105`);
- at the end of stdin the command thread repeats its last command (`server.c:102`);
- with name and situation of 80 bytes the client does not recognise the echo of its own HELLO
  (`class_manager.py:181`, `EchoBoundary`).

## 4. The proofs

The seven proof modules are checked by TLAPS for all values of the
constants, under the assumptions the modules name (`TableAssumption`,
`FdAssumption`, `PortAssumption`, `DrawAssumption`; `MacAssumption`, `ZerosAssumption`,
`AttemptsAssumption`; `MeAssumption`, `ClientAssumption`, `SrvUDPAssumption`,
`BoundsAssumption`; `LengthAssumption`, `TextAssumption`; `LineAssumption`, `WordAssumption`,
`ArgvAssumption`, `DiskAssumption`): sets may be of any size, ports and the
special values differ, draws are functions of the seed, files are lists of lines. TLC evaluates each on the
values of the runs.

Server. `ExclusiveService` is not inductive: that one handler serves `c` does not say
why main, about to start another, cannot be at `spawn`. `Sessions` adds, for every
undisturbed `c`, where main may be while it acts for `c` (`MainAlone`), the state each control
point implies (`InStep`, `StateAt`), that WAIT_INFO lasts only until the handler has
started (`WaitShort`), and that the table keeps the number offered (`OfferHeld`). `Placed`
says that the controller a control point works on exists and a try is left.
`TypesStep` proves `TypeOK` and `Placed`, `SessionsStep` proves `Sessions` action by
action, `RepliesStep` the replies; `Invariant` combines them. `Implements` reads the life of a controller
off the point of its one handler (`LifeServed`, `LifeUnserved`, from `Sessions`), shows that a
step moves that of one controller at most and leaves the others alone (`LifeSame`, `LifeDisturb`), and that the move
is one of `Registration` (`CycleStep`, by `MainCycle`, `HandlerCycle`, `ReceiveCycle`, `OfferCycle`, `EvictCycle`).

`SocketIntact` is about the descriptors of one handler, yet any thread's `socket`, `bind` and
`close` can disturb them: `Sockets` therefore speaks of all of them, those in the table
of sessions nobody serves included. No two controllers share a descriptor and no two
descriptors a port (`Apart`), main's new socket is nobody else's until it is in the table
(`MainHolds`), and a handler's is there until it drops it (`HandlerHolds`). `SocketsStep` proves it
action by action, `SocketsIntact` that it implies `SocketIntact`, `HeldApart` that it holds.

Client. `Session` says that at most one hello thread is not stale (`LiveOnce`), that it knows the
state and the Client object still holds the offer (`LiveInStep`), that main is at rest meanwhile,
that the stale ones are about to look at the state (`StaleQuiet`), and which state each of main's
control points implies (`MainInStep`). `HelloBearsOffer`, `GivesUpLast`, `FollowsProtocol` and
`UnhauntedSession` follow.

Termination. TLAPS cannot prove `HandlersDrain` and `SubscriptionEnds`, but it can prove the reason for them: a
measure, a natural number, that every step decreases. `StepsLeft(t)` is the number of steps handler `t` still takes at most if no datagram
comes: 2 for each SUBS_INFO try left, 3 for each HELLO try. `HandlersNear` says that each of its own steps decreases
it and that nothing but a datagram or a new thread increases it: not main, which may reset the controller meanwhile, nor any other
handler. It does not give `HandlersDrain` by itself: a handler blocked without a timeout takes no step. `Nears` proves it from `TypeOK` and the part of `Placed` that says a thread in `recvfrom` has a try left
(`StepNears` for its own steps, `OthersLeave` for the rest). `SubscriptionLeft` is the same for the three nested
loops of `subscription_start`: `LoopLeft(k)`, 3n + 3 steps for each of `k` processes, with 3 for each attempt within a process.
`SubscriptionNearing` needs two facts: a process that runs was still allowed (`Counting`), and an
attempt under way is one of `n` (`Attempting`, `AttemptingStep`). What the model checker adds to this is only that a thread that
can run does run.

System. That a step of `System` is a step of `Server` or of `Client` is not evident:
an answer must be one `Client` expects, with a port and a number of its sets, and a request one of
`Datagram`. `SystemInv` is `SystemTypeOK` (what is queued has the reader's types),
`Placed`, that a port named in a SUBS_ACK was drawn (`PortDrawn`), and the client's `Counting`; from
it `SystemStep` shows `[Next]_vars` and the client's `[Next]` for every action, faults included. `ServerRuns` and
`ClientRuns` are the two implementations, and `ServerKeeps` carries three properties of the
server over. This version of the prover cannot cite a theorem of an instantiated module, so
the client's type lemma is proved again under the renamed variables.

Agreement. The faults have no bound here: a HELLO may come any number of sessions late and any number of times. `OnWire`
says that it was sent all the same: whatever is queued at a port of the server and bears a HELLO's type has a number in
`greeted`, whatever waits for the client one in `confirmed` or `echoed` (`WireStep`; `Lose`, `Reorder` and `Duplicate` put nothing
new on the wire, and what is told stays told). From then on each side is a matter of its own comparisons. `GreetedWith(c, G)`
says of the server that a controller reaches `hello_first` and SEND_HELLO only with a number of the set `G`, and that a
new number is drawn only where no handler serves it (`Sessions`); `GreetedStep` proves it for every step by which no HELLO
with a number outside `G` arrives. `AgreedWith(I, E)` and `AgreedStep` do the same for the client, with
`UnhauntedSession`, now for the renamed variables (`ClientSessionStep`; `ClientKeeps`). `G`, `I` and `E` are constants in these lemmas:
each side is proved without the other, and `ServerHears` and `ClientHears` put the history variables in their place. `GreetsWith` closes the
circle: the client sends HELLO with its number, and that one is confirmed. All of it rests on the random number being compared
(`Matches`, `check_info_ack_data`, `check_hello_recived`), and a number is all these properties speak of: where two sessions draw the same
one, a HELLO of the first counts for the second.

Pdu. `AcceptsOffer` and `Agreed` compare what the two sides cut out of datagrams, so the proof follows
a field from one buffer to the other. `Field(b, at, n, s)` says that `n` bytes of `b` hold `s` and NULs.
`Packed` and `Created` show that `get_packet` and the `create_pdu` functions put the address and the random number
there, whatever the rest; `FieldString` shows that `StringAt`, the reader of both sides, returns `s`, also with one byte
less, as the client reads. `PduInv` then says what the last datagram bears at each point (`OnWire`) and
what both have made of it (`Same`). `Until` and `validate_sub_req` stop at a first byte or row; that there is one (`Least`)
comes from the well-founded order of the numbers. `TextAssumption` says what the files and `generate_random_number`
guarantee: addresses, random numbers and ports are shorter than their arrays and contain no NUL, a name
in the table is not empty, one in `client.cfg` has no comma (it could not stand in `controllers.dat`).

The text of the data (name and situation, port and elements) is longer than an array may be, so it is not a matter
of offsets alone but of what is cut. `TextInv` adds to `PduInv` the data of the last datagram (`Said`), and
keeps `FoundIsSender`, `InfoKept` and `EchoKept` as parts: they speak of fields that later
steps still read. `FoundIsSender` needs the most: whichever of its two values the offset `NameFrom` takes, the first row whose
address and name match is the sender's (`FoundIs`), since a name read one byte early
begins with a NUL and is empty, and no name in the table is. `InfoKept` is as much as holds of port and
elements: `validate_sub_info` reads what it never wrote, so more digits may follow the client's in the
array of the port, and one byte the elements. Of the situation it says nothing; `FoundIsSender` does.

Process. `OpensNamedFiles` speaks of the last option that was taken as one; in the middle of the loop over `argv` this is the last
so far, and what is looked at next has to be an option and not the name after one. `ParseInv` says both, with `OptionIn`
for "the run of `-c` and `-u` right before it pairs up": `NameIsNoOption` and `OptionAfterName` show that
a file name and the argument after it are what the loop takes them for. `RowsInv` does the same for
`controllers.dat`: with fewer rows than lines read, the loop that ends at as many rows as lines has read all of them. `MadeInv` says
what main has made by each point, and that no SIGINT is handled before the handler is installed.

| Theorem | Says |
|---|---|
| `ServerProofs!Invariant`, `ClientProofs!Invariant` | `Spec => []IInv` |
| `TypeCorrect` (both) | `TypeOK` |
| `Exclusive`, `CarryOffer` | `ExclusiveService`, `RepliesCarryOffer` |
| `ServerProofs!InOrder`, `Intact`, `HeldApart` | `Sessions`, `SocketIntact`, `Sockets` |
| `Implements` | `Server` implements `Registration` |
| `BearsOffer`, `GivesUp`, `Follows` | `HelloBearsOffer`, `GivesUpLast`, `FollowsProtocol` |
| `ClientProofs!InOrder` | `UnhauntedSession` |
| `Nears`, `SubscriptionNearing` | `HandlersNear`, `SubscriptionNears` |
| `SystemTypes` | `SystemTypeOK` |
| `ServerRuns`, `ClientRuns` | the composition implements `Server` and `Client` |
| `ServerKeeps` | `RepliesCarryOffer`, `ImplementsRegistration` and `HandlersNear` in the composition |
| `ClientKeeps` | the client's `UnhauntedSession` in the composition |
| `AgreementInvariant` | `AgreementInv` |
| `Greeted`, `Confirmed`, `Echoed`, `Greets` | `GreetedFirst`, `ConfirmedFirst`, `EchoedFirst`, `GreetsConfirmed` |
| `PduProofs!Invariant`, `Accepts`, `Agrees` | `PduInv`, `AcceptsOffer`, `Agreed` |
| `Texts`, `AllWritten` | `TextInv`, `Pdu`'s `TypeOK` |
| `Finds`, `Keeps`, `Echoes` | `FoundIsSender`, `InfoKept`, `EchoBoundary` |
| `Process`, `HandlerOnce` | `ProcessInv`, `ServerProcess`'s `TypeOK` |
| `OpensWhatIsNamed`, `ServesReady` | `OpensNamedFiles`, `LoopReady` |

Only model-checked: the liveness properties (`HandlersDrain`, `SubscriptionEnds`, both `QuitEnds`, `Resubscribes`,
`GetsThrough`, `EndInStep`: liveness under fairness is out of the prover's reach, and only the measures of the first two are
proved); every violation; and
`SameSession`. It is a statement about few faults. With enough of them it is false: an old SUBS_ACK
and its INFO_ACK, both repeated, give the client the session before, while its SUBS_REQ and HELLO_REJ are lost
and the server keeps the new one; random numbers may come again, too. TLC finds no violation with one fault, nor with
two as far as it gets (some million states), so no invariant for all values of `MaxFaults` can be
its reason. What does hold for all of them is `AgreementInv`.

## 5. Not modelled

- the client's arguments and configuration file (`load_args`, `load_config_file`, which loops over its
  arguments with lists cut short at `util_functions.py:243-263`): read once before anything else
  runs, no other actor involved;
- printing, `list` and `stat`; `list` may print a row torn between two sessions;
- lengths of time: `sleep`, and the growing timeout of `subscription_process`;
- several clients in one `System`: `Server` takes any datagram from any of them, and clients
  do not see each other.

## 6. Plan

Done: `Server`, `Registration` and its refinement, `Client`, `System`, `Agreement`, `Pdu`, `ServerProcess`; the
proofs above, of every safety property but `SameSession`. Left, in this order:

1. `Watchdog`, the promise both HELLO loops make (a partner silent for three tries is dropped,
   one that is not is kept), refined by `Server` and `Client`.
2. `SameSession` on a network without faults, where it could have an inductive invariant: what is queued belongs
   to the session of its receiver, or to one that is over.
3. The client's arguments.
