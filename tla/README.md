# The POP3 server's event core: specifications, model checks and proofs

The repository is a POP3 server and client under construction, written in C on
top of a small event library: a *selector* that multiplexes descriptors with
`pselect`, *state machines* driven by its events, *buffers*, *blocking transfers*
and a *parser*. The main program does not use the library yet: it serves one
blocking connection at a time. The guides under `src/ArchivosGuia/` are complete
programs of the same authors' course, among them the SOCKS proxy that the library
was written for. This directory specifies the library and these programs in TLA+,
checks small instances of every specification with TLC, and proves with TLAPS what
holds for all of them. Paths are relative to the repository; `selector.c` and the
like are under `src/server/` unless said otherwise.

## 1. Inventory

| Component | State | Operations | Interacts with |
|---|---|---|---|
| selector, registrations (`selector.c:126-444`) | `fds`, `fd_size`, `max_fd`, `master_r`, `master_w` | `selector_new`, `register`, `unregister_fd`, `set_interest`, `set_interest_key`, growth | callbacks call it while its own loops run |
| selector, dispatch (`selector.c:308-331, 446-579`) | loop cursors, the key on the stack, `slave_r`, `slave_w` | `selector_select`, `selector_destroy` | `pselect`; calls `handle_read`, `_write`, `_block`, `_close` |
| selector, notifications (`selector.c:484-534`) | `resolution_jobs`, `resolution_mutex`, `selector_thread`, the pending signal | `selector_notify_block`, the drain | threads that run blocking jobs |
| selector, utilities (`selector.c:61-102, 581-592`) | the process's signal mask | `selector_init`, `selector_close`, `selector_fd_set_nio` | the C library |
| stm (`stm.c`) | `current`, `states`, `initial`, `max_state` | `stm_init`, `stm_handler_read`, `_write`, `_block`, `_close` | called by a descriptor's handlers, calls the states' callbacks |
| server buffer (`buffer.c`) | `data`, `read`, `write` | write, read, advance, reset | `netutils.c` |
| client buffer (`src/client/buffer.c`) | the same as pointers, `limit` | the same and compaction | a client still to be written |
| netutils (`netutils.c`; the client's copy is identical) | locals of two loops, `errno` | `sock_blocking_write`, `sock_blocking_copy`, `sockaddr_to_human` | sockets, buffers |
| parser engine and POP3 table (`src/parser/`) | current state, two events | `parser_init`, `parser_feed`, `parser_reset`, the three actions | nothing yet; not built |
| main server (`mainServer.c`) | sockets | accept loop, `handle_client` | blocking sockets only |
| guides: blocking echo servers (`tcpEchoServer.c`, `TCPEchoServer-Fork.c`, `tcpServerUtil.c`) | descriptors, `childProcCount` | accept loop, `fork`, `waitpid`, `handleTCPEchoClient` | blocking sockets, child processes |
| guide: echo server with select (`tcpEchoAddrinfo.c`) | `client_socket`, `bufferWrite`, `readfds`, `writefds` | one round: datagram, accept, write, read | `select`, the kernel's descriptors |
| guide: SOCKS proxy (`main(1).c`, `socks5nio(1).c`) | a `struct socks5` per client with a reference count, `pool`, `done` | accept, greeting, connection to the origin, end, signal | callbacks of the selector, a machine per struct |
| arguments, socket utilities, client main, other guides | none that lasts | start-up code, single passes | |

What is hard in each, and what makes it correct:

* **Registrations.** Three representations of the same facts (items, descriptor
  sets, maximum) are updated by hand in each call, and the array grows in
  between. Correct: `pselect` watches exactly the registered descriptors for
  exactly their interests.
* **Dispatch.** Every callback may re-enter the selector: unregister itself or a
  peer, register, grow the array under the caller's pointers, start jobs. Correct:
  each registration's data is released once, an event reaches the registration it
  is about, `selector_destroy` forgets nobody.
* **Notifications.** Threads, a mutex, a list and a signal that merges. Correct:
  no job is lost, repeated or slept over.
* **stm.** Callbacks return the next state; the selector may close the machine at
  any point between handlers. Correct: arrivals and departures pair up, since one
  allocates what the other frees.
* **Buffers and transfers.** Positions move in nested loops while `send` and
  `recv` cut short or fail. Correct: first in, first out, each byte once, and room
  comes back.
* **Parser.** The two events are static, handed out again and again and never
  emptied; the table of classes is one entry short. Correct: what an event holds is
  what its action was handed, and the list has a second event only for the byte
  that made it.
* **Blocking servers.** A stream has no borders between commands, clients leave or
  reset at any point, `fork` and `accept` fail, children end while the parent is
  elsewhere. Correct: replies are those of the stream, descriptors and children are
  given back, and a client waits only for another one.
* **Echo server with select.** One array of entries, three sets of bits and a buffer
  with a position per entry; descriptors and entries are reused from one round to
  the next, and `send` takes a part or fails. Correct: each client gets its own bytes in order, no
  `read` waits, an entry comes free when its client goes.
* **SOCKS proxy.** Two registrations share a struct, `handle_close` of each gives a
  reference back while the program is closing both, structs go through a pool, each
  step of accepting may fail, and a signal may come at any point. Correct: a struct
  is freed or pooled once and never under a registration's hand, open descriptors are
  the registered ones, and a signal ends the process with everything given back.

The hazards of each line of code are listed in `PROJECT.json` with the properties
that answer them.

## 2. The modules

| Module | What it is | Extends or instantiates |
|---|---|---|
| `FdRegistry` | what the selector's registrations promise | |
| `SelectorTable` | the array, sets and maximum | implements `FdRegistry` |
| `Selector` | dispatch and destruction around an open program | extends `SelectorTable` |
| `BlockNotifications` | what blocking jobs are promised, liveness included | |
| `SelectorNotify` | mutex, list and signal, thread switch by thread switch | implements `BlockNotifications` |
| `StateVisits` | what the states of a machine are promised | |
| `Stm` | a machine, its handlers split at each callback | implements `StateVisits` |
| `ByteQueue` | what a buffer promises | |
| `ServerBuffer`, `ClientBuffer` | the operations of the two buffers | implement `ByteQueue` in `Relay` |
| `Relay` | program -> `sock_blocking_write` -> `sock_blocking_copy` -> client, composing both buffers | instantiates the buffers |
| `BlockingServers` | the main server and the two blocking echo servers; which one runs is chosen at the start | |
| `EchoSelect` | the echo server with `select`, a step per entry of each loop | |
| `Proxy` | the proxy's `main` and callbacks over a selector that keeps its promise | composes `FdRegistry` |
| `Parser` | the engine over any definition, and the POP3 definition | |
| `MC...` | instances for TLC: model values, sets and the programs around the selector | extend the module they instantiate |
| `...Proofs` | theorems and proofs | extend the component's module |

Operators keep the names of the C functions and fields. Definitions that start
with the comment "Deliberate defect" are no part of a specification: each is a
plausible mistake in the operation that follows it, and putting it in the
operation's place makes a run fail, which shows that the run's properties can.

**Selector.** A step of `Selector` is what happens between two points where
control passes between the selector and the program. `stack` holds the callbacks
in progress with the locals that the C code will use when control returns:
`handle_iteration` continues with a key that it captured and an item pointer, and
`selector_unregister_fd` clears its item after `handle_close`. `realloc` may move
`fds` in any growth (`moved` in a frame). The program is open: constant `Calls`
says which calls each kind of callback makes and constant `Discipline` which
rules it keeps:

* `fresh descriptors`: a descriptor that the current `pselect` has reported is not
  registered anew before the iteration is over;
* `closing left alone`: no `handle_close` leads to unregistering a descriptor that is
  being closed, itself included;
* `interests have handlers`: `OP_WRITE` is only asked for with a `handle_write`;
* `growth at rest`: a registration that makes `fds` grow is not made from within a
  `handle_close`, nor from within a `handle_read` of a handler that can also write, so
  that nobody comes back to an item that `realloc` has moved;
* `unregister before close`: a descriptor is unregistered before it is closed.

The rules are not in the code: they are what a caller has to do for the properties of
run `selector` to hold, and section 4 shows what goes wrong without them (without
`interests have handlers`, the `assert` at `selector.c:473` fails). The guide's
proxy keeps `growth at rest` by creating its selector with room for 1024 descriptors
(`ArchivosGuia/main(1).c:135`) and because its passive socket, whose `handle_read` is the
one that registers, has no `handle_write`. `DestroyReleasesAll` needs one thing more,
which `Calls` expresses: a `handle_close` registers nothing. In `selector_any_program` no
rule is kept. Nothing else restricts the callbacks: a `handle_close` may unregister its
own descriptor or one that is being closed further down the stack, whose `handle_close`
then runs again, and `selector_unregister_fd` goes on with its item without a second look.
An attachment is registered once, which tells registrations apart.

**Undefined behaviour.** An access outside `fds`, to memory that `realloc` or `free` has
released, `FD_CLR` of -1, a handler called through NULL: anything may follow. The models
record it (`out_of_bounds`, `fault`, statuses `"overrun"`, `crashed`) and go no further,
so what else is claimed is claimed up to that point.

**Notifications.** In `Selector` a thread's `selector_notify_block` is one step
that waits while the drain runs. `SelectorNotify` justifies it: there the mutex,
the two assignments of the push, the signal and the drain are steps of their own,
and together they implement an atomic `Finish` and `Consume`. `malloc` may fail in
`selector_notify_block`, and `pselect` may fail with `SELECTOR_IO`, which skips the drain
(`PselectFails`, at most `MaxErrors` times).

**stm.** `calls` holds the handlers in progress, with the callback each is in.
States are numbered by their index; a callback that may be NULL without harm
stands for one that does nothing. Initial states cover every choice of `initial`,
and of `max_state` as the last index (as `test/stm_test.c` has it) and as the
number of states (as `stm.h:31` has it). The second makes `stm_init` read one entry
past the table (`stm.c:15`): status `"overrun"`.

**Relay.** No program of the repository calls the two transfers, so the three
programs at the ends are as free as the interfaces allow, except that they look at
the room and at the bytes available first, as `assert` in both buffers demands.
`send` and `recv` move any number of bytes they may, or fail. Bytes are numbered
in the order of writing, which makes order, loss and repetition visible.

**Blocking servers.** `Script[c]` is a client's stream as tokens; `recv` returns any
piece of what is under way, so that a command may be split or two joined. `handler[c]`
is where the function that serves `c` is (`handle_client`, `handleTCPEchoClient`), in
the first process or in a child. A send on a connection that was reset may raise
SIGPIPE, whose default action ends the process that sends; none of the programs
handles it. In the echo servers a `send` on a live connection may also take only a part,
which `handleTCPEchoClient` treats as a failure (`EchoSendsShort`). `whole[c]` records
whether each `recv` returned exactly one line.

**Echo server with select.** `place` and `cursor` are where the round is; clients act
between any two steps. Bytes carry their client and their number in its stream.
A client that left may still reset its connection. Descriptors are given from the lowest
free one, as the kernel does. Two things are
left open: how much room the kernel has for a client (any subset of `writefds` may be
ready, and `send` takes any part) and whether a datagram has arrived; of the answer
to it the model keeps only that `handleAddrInfo` may read or write past its buffer
(status `"overrun"`). A failed `send` is seen as a huge `size_t` and moves the position
back by one, as in the code.

**Proxy.** The selector is `FdRegistry`, which section 5 proves that the real one
implements. The file elides `socks5_new` and the states after `HELLO_WRITE` ("....");
they are marked external and do what the rest of the file needs of them: a struct
from the pool or from `malloc` with one reference, a second registration of the same
struct when the origin is connected. `closing` holds what the loop of `socksv5_done`
has yet to close. Not modelled of these files: that `main` returns 1 after a normal
stop, the `addrinfo` of pooled structs, and `d->method`, which the callback leaves
unset.

**Parser.** A transition's condition is a byte, a set of classes or `ANY`; `fed` is a
history of the bytes with the state and the classes they met, against which the two
events are compared. The type of a byte outside the table of 255 is any. A null
action or a definition without its counts ends in `crashed`. `pop3_parser` is what the
compiler makes of it: `parser.h` wants an array of pointers and `pop3_parser.h:62` gives
one of records, so that what the engine takes for the transitions of a state is now a
pointer, now a count (`NotAPointer`).

## 3. What the runs show

| Run | Bounds | Shows |
|---|---|---|
| `selector_notify` | 3 threads, 1 error of `pselect` | no wake-up and no job is lost or repeated; every finished job is consumed even if no descriptor is ever ready; implements `BlockNotifications`; no deadlock |
| `selector_table` | a limit of 7 descriptors (0, 2, 3, 6 and the invalid -1 and 7 are used), sizes 2, 5, 8, 2 attachments | types, agreement of the three representations, implements `FdRegistry` |
| `selector` | descriptors 0, 1, 3 in an array that grows from 2 to 5, 3 attachments, callbacks nested 3 deep, 1 job | with the five rules: released once, all released by destroy, nothing undefined, right key, only reported events |
| `selector_any_program` | the same, depth 2, no rule, nested closes of one descriptor | cursors stay in `fds`; a job reaches its owner if that is still there |
| `stm` | 3 states, one of them without `on_block_ready`, one descriptor | arrivals and departures pair up, implements `StateVisits` |
| `relay` | buffers of 2 and 3, copy array of 2, 4 bytes, 2 failures | order and integrity end to end, a 0 from `sock_blocking_write` means drained, all is delivered unless the copy is cut short, both buffers are queues |
| `blocking_servers` | each of the three programs, a client with two commands, one that only connects, 2 failures | replies are the stream's, which descriptors stay, who can keep whom waiting |
| `echo_select` | 3 clients, 2 entries, 2 bytes | order and sender of the echoes, no read waits, entries and descriptors agree, entries come free |
| `proxy` | 5 descriptors, 2 structs, a pool of 1 | references, pool and descriptors under every failure; ends after a signal |
| `parser` | the test's definition, one with classes and second actions, POP3 (which ends at once), 4 bytes fed | the reused events hold what their actions were handed |

Two more runs end in a counterexample (section 4).

Why the bounds are enough. In `selector_notify` three jobs are needed for one being
pushed, one drained and one waiting for the mutex. In `selector_table` the sizes
cover two growth steps in one behaviour, the clamp at the platform's limit and the descriptor
equal to each size. In `selector` two clients and a passive socket on three
descriptors give every pair of callbacks that unregister or register each other,
depth 3 a `handle_close` within a `handle_close` within a handler, and descriptor 3 makes
`fds` grow under any of them. In `stm` three states give
a jump away, a jump to itself and a jump past a state. In `relay` four bytes through
buffers of two and three wrap every position, fill both and leave a rest to
compact; two failures allow one for a retry and one after it. In
`blocking_servers` a command of two tokens can be cut and two commands joined, and
the second client has to wait for the first; two failures allow an accept and a fork
or two forks. In `echo_select` the third client finds the table full or takes over an
entry and a descriptor, and two bytes let `send` take a part. In `proxy` five
descriptors hold the passive socket and two connections with their origins, and one
of two structs has to be freed rather than pooled. In `parser` four bytes make an
event longer than its room and reset between any two of them. Attachments are
symmetric; descriptors are not, as their order matters to the loops. The runs
with `CHECK_DEADLOCK FALSE` may really stop: the selector after
`selector_destroy` or undefined behaviour, the machine after its close, the relay
when all is delivered, the servers and the proxy when the process has ended or
nobody comes any more, the parser at the bound of its history.

Fairness. `SelectorNotify` assumes that each thread keeps running and nothing of
`pselect` except that it returns when the signal is pending: with silent peers only
the signal ends the wait, which is the case the mechanism exists for. It also assumes that the program
calls `selector_select` again, after an error of `pselect` too; a program whose loop ends on the
first error, as the guide's, gets its jobs consumed only if there is none. `Relay`
assumes that the two transfers and the client's two loops keep running, and that
the program that fills the buffer does not flush an empty buffer for ever
(strong fairness of its other steps). Nothing is assumed of compaction: the
client's buffer gets its room back from `buffer_read_adv`. `BlockingServers` assumes that the
first process and the function that serves a client take a step when they can; a step
that waits for a client is not enabled, and clients may stop at any point.
`EchoSelect` and `Proxy` assume the same of their one process, and of `select` only
that it returns when it has something to return (`Select(FALSE)`, no datagram) or, in the
proxy, whose wait has a timeout, with nothing (`Select({})`): no arrival is taken for
granted. The other modules claim no liveness.

## 4. Where code and documents disagree

Two are runs of their own that end in a counterexample.

* `selector_table_bounds`: `selector_register` grows the array for `fd > fd_size`
  (`selector.c:349`), so `fd = fd_size` uses an item past the end; the other calls do
  not compare at all.
* `echo_pending`: `select` takes the bit of a client that is not ready out of `writefds`
  itself (`ArchivosGuia/tcpEchoAddrinfo.c:187`), and only the client's next message puts
  it back, although the comment at line 300 lets it leave when everything was sent.

These configurations end in a counterexample too; they are kept for the reader and are
none of the listed runs. The first four are programs that drop one rule.

* `MCSelectorGrowth.cfg` (without `growth at rest`): a `handle_read` that registers a larger
  descriptor makes `realloc` move the items under `handle_iteration`, which then
  reads its item in released memory (`selector.c:472`): `StaysDefined` fails.
* `MCSelectorNested.cfg` (without `closing left alone`): a `handle_close` that unregisters a
  descriptor whose `handle_close` is running makes that run again (`selector.c:400`):
  `ClosedOnce` fails.
* `MCSelectorReuse.cfg` (without `fresh descriptors`): a descriptor registered anew by
  its own `handle_read` gets the event, and `handle_write` the data, of the one it replaced
  (`selector.c:461`): `KeyIsCurrent` fails.
* `MCSelectorBadFd.cfg` (without `unregister before close`): the search for closed
  descriptors ends before `max_fd` (`selector.c:557`): `BadDescriptorsReported` fails.
* `MCSelectorJobs.cfg` (all rules kept): a job whose descriptor was reused is notified to
  the new registration, which never started it (`selector.c:493`): `BlockRunsForOwner` fails.
* `MCStmCount.cfg`: `stm.h:31` calls `max_state` the number of states ("cantidad de estados");
  with that value `stm_init` reads the entry after the last (`stm.c:15`). The test uses
  the last index (`test/stm_test.c:76`).
* `MCRelayEmpty.cfg`: `sock_blocking_write` of an empty buffer returns whatever `errno` holds
  (`netutils.c:65-71`), an error by `netutils.h:29`, although nothing failed.
* `MCForkCount.cfg`: a `fork` that failed is counted among the "child processes"
  (`ArchivosGuia/TCPEchoServer-Fork.c:24`, 42).
* `MCRelayCopy.cfg`: `sock_blocking_copy` returns 0 when `recv` fails (`netutils.c:83`).
* `MCForkCleanUp.cfg`: after a `fork` that failed the loop that cleans up may never end, as
  `waitpid` has nobody to wait for and its error ends only the check
  (`ArchivosGuia/TCPEchoServer-Fork.c:44-52`).
* `MCParserClasses.cfg`: the table of "256 elementos" (`src/parser/parser.h:70`) has 255
  (`src/parser/parser.c:85`): `TypesFromTable` fails.
* `MCParserPop3.cfg`: `pop3_parser` has no `states_n`, so the first byte ends in a null pointer
  (`src/parser/parser.c:56`) and not in an event (`src/parser/parser.h:85`).

More were met and have no configuration of their own. A `handle_close` that registers a
descriptor while `selector_destroy` runs: the loop does not come back to a smaller one,
which is then never released (`selector.c:315`; `"register"` among the calls of `close`
shows it). A thread that finishes its job after `selector_destroy` uses the selector and
its list, which were freed (`selector.c:329`, 510; fault `"freed selector"`). `pop3_parser`
has null actions where `src/parser/parser.h:45` demands one ("requerida"), and its `ANY`
entries come first and hide the ones after them. The fields that `test/parser_test.c`
reads of an event are not those of `parser.h`. In the echo server
with `select` a connection beyond `MAX_SOCKETS` is accepted and never looked at again,
and a failed `send` passes for a success. The sequential echo server keeps the
descriptor of every connection that was reset or of which a piece could not be sent whole
(`tcpServerUtil.c:94`; the exception in `DescriptorsReleased`).

## 5. What is proved

All theorems hold for every value of the constants that satisfies the named
assumptions; TLC evaluates those assumptions in every run.

* `SelectorNotifyProofs` (any set of threads): `TypeOK`, `NoLostWakeup`,
  `JobsConserved`, and that every step is a step of `BlockNotifications` or leaves
  it unchanged. The inductive invariant `IInv` adds to the properties: who holds the
  mutex where (`LockInv`), that the list is what its last pusher linked (`LinkInv`),
  that list and cursor have no duplicates and hold exactly the pushed jobs without a
  fate (`ListInv`), and that a non-empty list outside a drain has its wake-up under
  way (`WakeupInv`). Without the link and mutex parts a push could overwrite another.
* `SelectorProofs`, the table (any limit, initial size and descriptors): `TableTypeOK`,
  `WatchesExactly` and the refinement of `FdRegistry`. The invariant `TableInv` adds
  that a used item holds real data and a free one none. The argument: an unregistration
  looks for the new maximum only up to the old one, which is enough because the
  invariant says that no used item is above it.
* `SelectorProofs`, dispatch under any program: `WatchesExactly` at every point
  of every callback, the refinement of `FdRegistry` by a selector at work,
  `SelectorTypeOK`, and `JobReachesItsOwner` (`JobsReachTheirOwners`). `DispatchInv` says
  where the loops' cursors are (`CursorInv`): `i` stays inside `fds` because `fds` never
  shrinks. The argument for the jobs is that a registration stays in one item
  until it is gone, and that a thread got its descriptor from the registration's key.
* `SelectorProofs`, dispatch under the rules. Each theorem assumes only the rules it
  needs:
  * `DataReleasedOnce`: `ReleasedOnce` under `closing left alone`. `CloseInv` says that the
    `handle_close` frames on the stack are for distinct descriptors whose items are still
    used and hold the data in the frame, so that clearing the item on return clears what
    the callback released.
  * `DestroyReleases`: `DestroyReleasesAll` under `closing left alone`, if no `handle_close`
    registers a descriptor. `DestroyInv` says that below the cursor of `selector_destroy`
    an item is free or being closed, and that there is nothing but `handle_close` on the
    stack.
  * `KeysAreCurrent` and `OnlyReportedAreDispatched`: `KeyIsCurrent` and
    `OnlyReportedDispatched` under `fresh descriptors`. `KeyInv` says that between the
    two callbacks of an item the key still has the data of the registration unless the
    descriptor is free; `ReportedInv`, that a reported descriptor from the cursor on is
    free or has the registration that `pselect` reported.
  * `RulesKeepItDefined`: `StaysDefined` under the first four rules. `RuledInv` adds
    that no item that its caller looks at again has moved (`ComeBackInv`), and that a
    handler without `handle_write` has no `OP_WRITE` and was not reported writable
    (`WritersInv`).
* `StmProofs` (any table of states; one descriptor, no nested unregistration):
  `VisitsBalanced` and the refinement of `StateVisits`. The invariant `StmInv` adds
  that at most one handler is in progress and what its frame looks like at each
  callback; `StmTypeOK` follows from it too.
* `ProxyProofs` (any number of descriptors, any structs and pool): `ProxyTypeOK`,
  `ReferencesCounted`, `DescriptorsOwned`. The invariant `IInv` counts a struct's
  references as the descriptors among its own two that are registered with it
  (`LiveInv`), and says that what is left to close is what is left of the
  registrations of one struct (`ClosingInv`) while all others are whole (`WholeInv`).
  Without the last two parts the second round of `socksv5_done` could meet a descriptor
  that the first one's release had given to somebody else.
* `BlockingServersProofs` (any clients, scripts and failures): `BlockingTypeOK`,
  `ChildrenCounted` as long as no `fork` has failed (with failures, `ForksCounted`: it is too
  large by their number), `DescriptorsReleased`, `RepliesFaithful`. The invariant adds who
  serves whom: a new
  or waiting client has no process and no descriptor, a child serves its own client.
  The count of children stays right because no client has two processes, so that a
  step that adds or removes one changes the cardinality by one. For the replies the
  invariant `StreamInv` says that a handler that is about to receive has dealt with all
  it got, and that, as long as every `recv` returned one line, what was dealt with ends
  at the end of a line. The lemma on pieces (`CommandOfLine`) then says that taking the
  line ends off leaves the line itself, and the one on counting (`OneMoreAnswer`) that its
  answer comes where the line has its place among those that are not empty.
* `EchoSelectProofs` (any clients, entries, listening sockets and sizes): `EchoTypeOK`,
  `EchoInOrder`, `SlotsConsistent`, `ReadsReady`. The invariant says what an entry holds:
  the bytes read last from the client that owns its descriptor, of which those before
  the position are the last ones echoed (`ContentInv`); that a client in a backlog has
  nothing yet (`BacklogInv`); and that what `select` reported stays so of the connection
  that has the descriptor until it is looked at (`ReadyInv`). The kernel's choice of the
  lowest free descriptor is a least element of a set of numbers; that there is one free is
  a pigeon-hole argument over the clients.
* `RelayProofs` (buffers, copy array, bytes and failures of any number): `RelayTypeOK`,
  `InOrder`, `WriteReports` and the refinement of `ByteQueue` by both buffers
  (`BuffersAreQueues`). The invariant adds that a buffer holds bytes, not garbage,
  between its positions and that the copy receives only into an empty array. A step then
  cuts a first part off one place and puts it at the end of the place before it; that
  this leaves the concatenation of all six places as it is is a lemma on sequences
  (`MoveOn`), and that a move, a reset or a compaction in an array is a queue operation is
  a lemma on what lies between two positions (`WindowPut`, `WindowTake`, `WindowMove`).
* `ParserProofs` (any definitions, bytes, classes and room in the events):
  `EventsExact`. The reference definition counts: the bytes that an action was handed are
  at places of the history, and each belongs in the event at its rank among them. A byte
  more takes the next rank and leaves the others (`RankOfOld`, `RankOfNew`), and goes
  into the event if there is room (`HoldsMore`). The first transition of the loop in
  `parser_feed` is a least number (`RunsTaken`). The assumption is that a definition's
  transitions lead to states it has.

Only model-checked: liveness (`EveryJobConsumed`, `AllDelivered`, `WaitsForAnotherOnly`,
`LeaversReleased`, `TerminatesAfterSignal` and the fairness half of `ImplementsPromise`),
which the prover does not reach. That `next_capacity`
returns more than its argument and at most `FD_SETSIZE + 1`, the code's own
assertion at `selector.c:182`, follows from a recursive count of bits and from powers of two,
which needs induction over data and facts on exponentiation that the provers lack; it is
part of `TableAssumption` and evaluated by TLC for the
limits of the runs.

## 6. What is not modelled

* `selector_init`, `selector_close`, `selector_error`, `selector_fd_set_nio`: straight
  calls to the C library. That the signal is blocked outside `pselect` from
  `selector_init` on is assumed.
* Failed calls (`SELECTOR_IARGS`, `SELECTOR_FDINUSE`, `SELECTOR_ENOMEM`) change nothing
  and are stuttering steps; in `selector_notify_block` a failed `malloc` is a step (`NotifyFails`).
* The `timespec` of `selector_select`: a timeout is a `pselect` that reports nothing.
* `sockaddr_to_human`, `args.c`, `socketUtils.c`, `src/client/main.c` (empty) and the
  `foo.dot` drawings: formatting, or straight sequences of calls that exit on any error.
* The guides `tcpEchoClient.c`, `tcpClientUtil.c`, `udpEchoClient.c`, `udpEchoServer.c`,
  `addrinfo.c`, `util.c` and `logger.c`: single passes without state that a second step
  could find wrong. `TCPEchoSelect original.c` is an earlier form of the loop that
  `EchoSelect` models.
* What the proxy's file elides (above), and real addresses, names and time-outs of
  connections everywhere.

## 7. What is done and what is left

1. (done) Selector: promises, table, dispatch, notifications; proofs.
2. (done) State machines; proofs.
3. (done) Buffers and transfers, composed in `Relay`; proofs.
4. (done) Parser, blocking servers, echo server with `select`; proofs.
5. (done) The proxy over the selector's promise; proofs.
6. (done) Proofs for `Selector` under the rules.
7. (left) The proxy over `Selector` and `Stm` themselves instead of their promises.
