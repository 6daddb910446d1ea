# lepton in TLA+

Specifications of the stateful parts of lepton, a C++20 low-latency network
framework: what they do, the properties model-checked with TLC on small
instances, and the theorems proved with TLAPS for all instances. Paths are
relative to the repository (`include/lepton/...`, `src/...`).

## The system

A process owns one or more **event loops**, one per core, that share nothing. A
loop busy-polls its sockets or waits on a poller (epoll, kqueue, F-Stack), and
runs a user *step hook* in every iteration. On a loop live **sessions**, which
are `Pollable`s: WebSocket clients and HTTP clients, over a **stream** that is
plain TCP or TLS. Sessions take their buffers from a **buffer pool** that
threads may share. **EventLoopThread** puts a loop and a pool on a thread of
their own, with a handshake at start and an ordered teardown at stop.

The **example programs** show the intended architecture: the reactor on one core
hands messages through a single-producer ring to a consumer on another, and a
third drains the **logger**.

Two kinds of concurrency follow. Threads meet in the pool's lock-free stack, in
the start/stop protocol and in the ring. Everything else runs on one thread, but re-enters:
`on_ready()` calls the application back in the middle of parsing a frame, and
the application may send, close, connect, add or remove sessions there.

| Part | Source | Modules |
| --- | --- | --- |
| Buffer pool (POSIX) | `base/buffer_pool.h` | `BufferPool`, `Pool`, `BufferPoolProofs` |
| Event loop: table and `step()` | `net/event_loop.h` | `EventLoop`, `Erase`, `EventLoopProofs` |
| Event loop thread, `run()`, `stop()` | `net/event_loop_thread.h`, `src/net/event_loop_thread.cpp`, `init.h` | `EventLoopThread`, `EventLoopThreadProofs` |
| WebSocket session | `net/ws_session.h`, `net/detail/ws_session_impl.h` | `WsSession`, `WsSessionProofs` |
| HTTP client | `net/http_client.h`, `net/detail/http_client_impl.h` | `HttpClient`, `HttpClientProofs` |
| TLS stream | `net/security/tls_stream.h`, `src/net/security/tls_stream.cpp` | `TlsStream`, `TlsStreamProofs` |
| Frame codec | `net/detail/ws_frame.h`, `net/detail/ws_mask.h`, `base/hw_endian.h` | `WsFrame` |
| HTTP messages | `net/http.h` | `Http` |
| Socket, system calls, poller | `net/tcp_socket.h`, `net/detail/sys_api.h`, `net/detail/poller.h` | `TcpSocket` |
| The byte path through all of them | both `*_impl.h`, `base/io_buffer.h`, `net/event_loop.h` | `Wire` |
| Message ring | `examples/best_practice_example.cpp` | `SpscRing`, `Fifo` |
| Logger | `base/logger.h`, `src/base/logger.cpp` | `Logger` |
| Example programs | `examples/best_practice_example.cpp`, `multi_threaded_busy_poll_example.cpp`, `fstack_busy_poll_example.cpp` | `Pipeline`, `PipelineProofs` |

`SequenceLemmas` has what the proofs share. `MC*` modules hold the instances that
TLC runs. `PROJECT.json` has the line by line map from definitions to code, the
inventory of all components, the hazards and the findings.

## The modules

**BufferPool.** A Treiber stack whose head word packs a 32-bit version and an
index, with intrusive links. One step is one access to shared memory: load of
the head, read of the link, compare-and-swap (which may fail spuriously), write
of the link, update of `available_`. A caller may write any value into the first
word of a buffer it holds (`UserWrite`), the word in which `acquire()` of another
thread may be reading a link. `stack` and `age` are history variables: the free
buffers, and the number of swaps since a thread obtained its head word. The
version is modulo `VerMod`, the counter modulo `SizeMod`.

**Pool** is what the pool promises: a LIFO stack with an atomic `Get` and `Put`.

**EventLoop.** The table `sessions_` with its nulled slots, the poller's tokens
and the current batch. `Add`, `Remove`, `Destroy` and `Create` may happen in the
step hook and inside every `on_ready()`; a destroyed address may be reused.
`busyPoll` is a variable that never changes, so one run covers both modes. `Erase`
is the erase-remove of the nulled slots, a recursive function rather than
`SelectSeq`, because the prover can unfold it.

**EventLoopThread.** The owner (`start()`, `stop()`, and `EventLoop::stop()` called
directly) and the loop thread (initialise, build pool and loop, `run()`, first
step with its store and notify, step hook, shutdown hook, unwinding), each with
a program counter, over POSIX or F-Stack. `Stops` says who may stop the loop.

**WsSession.** `stk` is what is left of the running handler, innermost frame
first. An API call or `on_ready()` starts with an empty stack; callbacks are
frames, in which the API may be called any number of times, one call after the
other, and callbacks inside these calls up to `MaxNest` deep. Buffers are
counted in `owned` (history) and compared with what the session holds. Frames
are their kinds; the receive buffer is a sequence of kinds, with "junk" for a
length that has wrapped. Deadlines are off, armed or due. A rigid variable
`setup` chooses transport, timeouts, what the peer sends and what callbacks
call, so that one run covers several configurations. "keepAlive" means that both
the ping interval and the pong timeout are set.

**HttpClient.** In the same manner. Responses are "cur" or "old", depending on
whether they answer the request last accepted; `outcome` is the history of that
request. In poller mode `watch` is what the poller watches the descriptor for.
`on_ready()` may come whenever the descriptor is watched; edges are not modelled.

**TlsStream.** One step per call of OpenSSL or of the socket. Outgoing ciphertext
is numbered in units, in the order in which OpenSSL makes it, so that loss,
duplication and order can be stated; incoming ciphertext is records, perhaps
with a part of one at the end. OpenSSL itself is external: handshake flights,
`SSL_read` over control records, data, close_notify and garbage, a memory BIO
that is never full. It may lack memory (`oom`). When `poll_open()` cannot flush its
last flight it answers Failed but stays in Handshaking, so the owner may call it
again on an SSL object whose handshake is done (`HandshakeDone`).

**WsFrame, Http, TcpSocket, Wire.** The first three are operators, translated from
the functions of the same names, on sequences of cells. A cell is a byte of the
stream or, in HTTP, a line without its CR LF; the decoders read numbers exactly
where the code reads bytes, so a decoder that loses its place reads the wrong
number. Widths are scaled (a length digit counts to `Base`, the codes 126 and 127
are `Short` and the next). `Wire` composes them: `c` is one connection, from the
kernel's queues over `TcpSocket` and the poller's ready list to `recv_`, `frag_`
and the pending ring of a session, or the two buffers of a client. A handler is a
function from `c` to `c`; a handler that reads after it writes is two steps, so
that bytes may arrive in between. The kernel delivers one byte at a time and
opens the send buffer by any amount in `Grants`; the peer may end or reset the
connection. `job`, which never changes, is what the peer says and the application
sends; what a correct endpoint would make of it (`Expected`, `Masked`) is defined
next to the properties, from RFC 6455 and RFC 9112 rather than from the code. A
malformed chunk size, a status line of one word and a masked frame of a server
have no correct outcome but an error, which the code does not raise: `Expected`
ends before them, and `Delivered` leaves open what follows (`Untold`). In two places
the definition follows the code: an unreadable status is 502, and a session without
an expected accept value takes any complete response for an upgrade.
Timers, callbacks that call back and the pool are in `WsSession` and `HttpClient`;
the bytes are here.

**SpscRing, Logger, Pipeline, Fifo.** `SpscRing` has free-running indices modulo
`Wrap` and each side's old copy of the other's; `Logger` has the one backend of the
process and whether records are still queued. `Pipeline` is the threads of three
programs over both, with one program counter per thread: who spawns and joins
whom, step and shutdown hooks (the join, the report, the end of the session, the
end of the pool and the return of `run()` are steps of their own), early returns,
the destructors at the end of `main`, and a network stack under `run()` that may end the process. `Fifo` is
what the ring promises.

How the others would compose: `WsSession` and `HttpClient` see a transport with the
three phases of `TlsStream` and `TcpSocket`, and a pool that may be empty at any
`acquire()`; `EventLoop` sees pollables that may do anything `WsSession` does.
Each module allows its neighbours at least what the code of the neighbours does.

## The runs

`tlc -config X.cfg M` in this directory. Passing runs:

| Run | Instance | States | What it shows |
| --- | --- | --- | --- |
| `pool` | 2 threads, 2 buffers, 4 versions, at most 3 swaps inside a window | 19,028 | No buffer has two owners; no stale swap succeeds; counter exact up to calls under way; nothing leaks; implements `Pool`; lock-free |
| `ws_session` | 3 setups, ring of 2, callbacks 2 deep | 1.23 M | Buffer balance, Open means connected, no over-consumption, upgrade request first, views valid |
| `ws_live` | 3 setups, one without keepalive | 104,994 | Connecting ends, silent peers are noticed, Closing ends, reconnecting goes on |
| `thread` | F-Stack, all three ways to stop | 285 | The start handshake, order and number of teardowns, both calls return |
| `loop` | 3 addresses, batches of 2, table of 4, both modes | 45,398 | Walk in bounds, nothing dangling, nobody called in the pass it was added in, everybody called again |
| `http` | 4 setups, callbacks 3 deep | 3,480 | Buffer balance, one outcome per request and the right response, poller interest follows the cache, timeouts end requests and connects |
| `tls` | 3 setups, chunk of 3 units, mark of 2 records, 5 units | 154,931 | Nothing lost, doubled or (below a chunk) reordered, every SSL object freed, data gets through both ways |
| `wire` | 66 jobs, buffers of 26 cells, ring of 2, send buffer of 9 | 165,485 | Delivered is what the peer said, sent is what was accepted, a connection is given up only for a reason, no descriptor leaks, Open means upgraded, nothing stays in the kernel |
| `pipeline` | 3 programs, ring of 2 with indices modulo 4, 4 messages | 72,104 | The ring is a bounded queue, reports are final, exits are clean, records are written, programs end |

Type invariants are a conjunct of one invariant of their module (`IInv`,
`BufferBalance`, `TeardownOrder`, `InBounds`, `NoLoss`).

Runs in which TLC refutes what a comment or header says:

| Run | What the code does |
| --- | --- |
| `thread_restart` | After the loop was stopped from its step hook, `start()` passes its `running_` check and assigns to a joinable `std::thread`: `std::terminate` |
| `tls_reorder` | `pump_out()` puts the unsent tail of a chunk at the end of `wbio_`, behind later ciphertext, when `wbio_` held more than one chunk |
| `tls_eof` | The end of TCP without close_notify is left to `SSL_read()`, which sees only an empty memory BIO: `read()` answers -EAGAIN for ever |

Conditional properties mark where the code stops being right.
`NoUnderflowUnlessReconnected` and `UpgradeFirst` exclude callbacks that call
`connect()`, which replaces `recv_` under `parse_frames()`. `ViewValid` excludes them
too. It lets callbacks send and close: the view of a whole frame survives both,
because a teardown keeps `recv_`; the view of a reassembled message survives until
one of these calls ends the connection, which releases `frag_` under the callback,
although `ws_session.h:54` promises the view for the whole call. `CloseTearsDown` is
about sessions with keepalive; in the setup without it the unconditional formula
fails, because a peer that says nothing keeps the session in Closing. `OneOutcome` of HttpClient allows a dropped request only to applications
that connect over one in flight, and the crash in `try_complete()` only to them
and to applications that may call `close()` and `connect()` in a callback (`Reopens`);
`ResponseMatches` is about peers that send nothing unasked;
`InOrderUnlessBursts` is about owners that keep unsent ciphertext below a chunk;
`NoSslLeak` is about owners that close before they connect again; `BothWaysMove` asks
that a unit of ciphertext reaches the socket while the connection is up;
`Delivered` ends at what the code should have refused; `Drains` is
about descriptors the poller knows, which in poller mode a second connection's is
not; `LogsWritten` leaves out the F-Stack example, whose logger ends with
`g_running`.

### Bounds

- *Pool.* Two buffers and two threads are enough for the head index to come back
  over a different stack (one thread loads; the other takes both and returns the
  first), which takes three swaps: `MaxOvertake = 3 < VerMod = 4` reaches that
  and wraps the version. The theorems hold for every number of both.
- *Sessions.* A ring of two can be empty, partly full and full. Two levels of
  callbacks let a callback run inside the effects of another. Backoff of 1 up to
  2 has the doubling and the cap.
- *Thread.* The state is small; restarts make it cyclic, not larger. The POSIX
  variant is covered by the theorems and by `thread_restart`.
- *Loop.* Three addresses: the one being called, one before and one behind it. The
  table of four has room for a nulled slot and a reuse.
- *TLS.* A chunk of three leaves room for two units in one write and the
  close_notify; five units exceed a chunk, which only the bursting owner does.
  Two records above the mark let one `SSL_read` pass a control record.
- *Wire.* With `Base = 3` and `Short = 4`, lengths 0 to 3, 4 to 8 and from 9 take the
  three encodings, and 26 cells hold two frames of the first kind or one of the
  last with the next behind it, so that compaction matters, and just hold a
  chunked response of two chunks, so that the decoder moves the second one. Every job has a path
  of its own: fragments with control frames between them, each violation of the
  framing, messages that exceed `recv_` and `frag_`, upgrade responses with
  another status, no or two accept lines, chunked bodies that contain CR LF, with
  trailers, malformed, too long. As bytes arrive one at a time and reads may come
  after any of them, every cut of the stream is covered. A send buffer of 9 that
  reopens by 1 or 7 stops writes inside headers, keys and payloads. Lanes of 8
  and 4 leave a tail in the mask loop.
- *Pipeline.* A ring of two is empty, partly full and full; `Wrap` is twice that, so
  four messages take the indices round once.

### Fairness

Handlers that have begun run to their end and callbacks return (weak fairness of
`Step`): they are straight-line code on a thread that is scheduled. `on_ready()`
is called in every iteration of a busy-polling loop whatever the hook does, and
time passes (strong fairness of `OnReady` and of each deadline). In the pool a
weak compare-and-swap that could succeed over and over does so some time; in the
thread both threads are scheduled and `ff_run` returns after `ff_stop_run()`. For
TLS the owner goes on reading and a full socket has room again some time. In
`Wire` the loop runs and the kernel delivers and drains (weak); `send()` and
`request()` come from the step hook, which has its turn between two handlers in
every iteration, so what would block is tried again (strong). In `Pipeline` every
thread keeps its core; nothing is assumed of the peer.
Deadlock is not checked where a destroyed session, a terminated or crashed
process, or an owner that makes no more calls may really stop.

## The theorems

`tlapm M.tla` checks them; assumptions are the named `ASSUME`s on constants.

**BufferPoolProofs** (any finite set of threads, any number of buffers, versions
and counter values). `PoolInvariant` is
`IInv == TypeOK /\ Exclusive /\ FreeOnce /\ LinksOK /\ WindowOK`. None of the
first four is inductive: whether a swap is right depends on what the swapping
thread loaded some time ago. `WindowOK` says what every open window may rely on:
the head's version is the loaded one plus `age`, modulo `VerMod`, and while `age`
is 0 the head is the loaded word and the link read is the right one. As `age`
stays below `VerMod`, an equal head word means `age = 0` (lemma `NoABA`), which
is all the two successful swaps need. The step proofs have one lemma per action
with an effect on shared state; failed swaps share `ReloadIInv`, returns
`ReturnIInv`. `PoolNoLeak` and `PoolRefinement` follow step by step from the
invariant: loads, links and counters stutter, the successful swaps are `Put` and
`Get`, and a load of an empty head is the `Get` that fails.
`PoolAvailableExact` is inductive relative to `IInv`: every step that changes the
stack changes the number of calls between their swap and their count by one, and
counting commutes with wrapping modulo `SizeMod` (lemma `CountWraps`).
The assumption that matters is `NoFullTurn == MaxOvertake < VerMod`: fewer than
2^32 swaps by others while one thread is between its load and its swap. The code
relies on it and cannot enforce it; in the model it is a guard on swaps.

**EventLoopThreadProofs** (POSIX and F-Stack, any way to stop).
`ThreadInvariant` adds to the types `Handshake` (where the loop thread can be
while the owner is where) and `Owned` (what exists at each point of the loop
thread). `ThreadStoreAlive`, `ThreadStopHeard`, `ThreadHookHasPool`,
`ThreadShutdownOnce`, `ThreadTeardownOrder` and `ThreadQuiesced` are consequences.

**EventLoopProofs** (any set of pollables, batches and tables of any size, both
modes). `LoopInv` adds three things to the types. `Control` says where the walk is
and that its limit is no more than what it walks. `Table`: slots hold registered
pollables, each once, or null, and in busy-poll mode what was added during the
pass lies behind the limit. `Batch`: what is left of a batch is registered and was
not added since the batch was taken. `NoDangling` speaks only of the part of
the batch that is left; that `remove()` scrubs exactly that part, while a walk in
busy-poll mode relies on the table instead, needs all three. `LoopInBounds`,
`LoopNoDangling` and the action property `LoopFreshWaits` follow.

**WsSessionProofs** (any ring of two slots or more, any backoff, both transports,
any peer, callbacks that make any number of calls, nested to any depth). `SessionOpenConnected` is inductive by
itself: whatever closes the transport or takes the buffer also leaves the state.
The other four are not. A handler that is interrupted by a callback goes on
afterwards with what it knew before, so `WsInv` says which frames can be behind
which on the call stack (`StackInv`, with the table `Below`) and what every frame
on it, at any depth, still relies on (`AgreeInv`): a frame being consumed is at the
head of `recv_`, an upgrade request about to be queued finds room in the ring,
nothing of an open session runs before the upgrade, and an `on_message` that has
made calls still has its frame there, or its `frag_` unless the connection is gone. `DataInv` has the books of the
buffers and what holds between two connections. The proof has a lemma per handler;
those that end in a callback share lemmas for pushing and popping frames.
The assumption is `MaxPending >= 2`; the code has 32 (`ws_session.h:124`). It is
needed: `send_upgrade_request()` ignores a full ring, and with one slot a Ping
that a stale `check_keepalive()` queues while Connecting would leave the request no
room and lose its buffer (TLC shows that as well).

**HttpClientProofs** (any peer, both modes, callbacks that make any number of calls,
nested to any depth).
`HttpInv` ties the call stack to the state (`StackInv`, `PlaceInv`), the buffers to
what the pool gave (`BooksInv`), the history of the request to the state
(`OutcomeInv`: a request is open exactly while the state is Sending or Receiving
and `try_complete()` has not delivered it), the bytes under way to the request
(`WireInv`) and `write_armed_` to both (`WatchInv`). Each of the four properties
alone fails to be inductive at the callbacks: what is true when `on_error` or
`on_response` returns depends on what it called. `HttpBufferBalance`,
`HttpResponseMatches`, `HttpOneOutcome` and `HttpInterestExact` follow.

**TlsStreamProofs** (any sizes of chunk, read and mark, any number of units).
`TlsInv` lists the shapes a call stack can have (`StackInv`), says how phase, socket
and SSL object belong together (`PhaseInv`), where every unit of ciphertext is
(`FlowInv`: on the socket, in the hands of `pump_out()` or in `wbio_`, counted and as a
set, hence once) and in which order (`OrderInv`). `OrderInv` shows why the order
holds below a chunk: whenever `pump_out()` has a chunk in its hands `wbio_` is empty, so
that putting the tail back at the end puts it at the front. `StreamNoLoss`,
`StreamInOrder` and `StreamNoSslLeak` follow. `StreamNoLoss` is also about the owners
whose ciphertext `tls_reorder` shows out of order: it is permuted, never lost.

**PipelineProofs** (any number `N` of slots, any `Wrap` that `N` divides, any
number of messages; all three programs). `PipelineRing` is the inductive
invariant `RingInv`: going up from `rCache` one meets `r`, `wCache` and `w`, all
within `N` slots, and a side holds a slot only if its own copy shows it.
`SlotExclusive` alone says nothing of the copies, which are what `alloc()` and
`peek()` decide by, so it is not inductive; it follows from `RingInv` because
indices less than `N` apart fall into different slots. `PipelineData` adds what
each side knows of the slot it holds. From both, `PipelineFifo` shows step by step
that the ring implements `Fifo`: `Commit` is `Put`, a failed `alloc()` is `Refuse`,
`Use` is `Look`, `Release` is `Take`, all other steps stutter. The assumption is
`RingConstants`; that `N` divides the wrap is what makes slots follow on each other
when an index wraps (lemma `SlotWraps`). Accesses are sequentially consistent.
`PipelineProgram` is a second invariant, `ProgInv`, about the programs around the
ring: by where `main` is, who has been started and joined (`ThreadInv`), that the report
comes after the join (`ReportInv`), what is alive, and that the session goes before
the pool and both before `run()` returns (`AliveInv`), and how far the logger's
thread is (`LogInv`). `PipelineReportFinal`, `PipelineCleanExit` and
`PipelineLogsWritten` follow; each is a statement about the end of `main` that depends
on every early return having passed the right joins.

**SequenceLemmas.** Pushing and popping frames of a call stack whose nesting is given
by a table; concatenation, prefixes and suffixes; and that `Erase` returns a
subsequence of its argument without `x` (that it drops nothing else is not needed
for safety; `EveryoneServed` depends on it and is model-checked). That one is an
induction over data; it is proved from the well-foundedness of the natural numbers,
by looking at the least length for which it fails (lemma `Least`).

All inductive invariants were first checked with TLC on the instances of the runs.
The proofs take about an hour in all, most of it `WsSessionProofs` and
`TlsStreamProofs`.

Only model-checked: all liveness (`LockFree`, `SilenceEnds`, `CloseTearsDown`,
`Reconnects`, `CallsReturn`, `EveryoneServed`, `TimeoutsEnd`, `BothWaysMove`, `Drains`,
`Terminates`), because fairness and ENABLED are outside the prover; and the byte path
(`Delivered`, `SentExact`, `FailsForReason`, `NoFdLeak`, `OpenUpgraded`), whose codecs are
recursive operators and whose properties say what a recursive decoder computes for
every input. Every other safety property that a run shows to hold is a theorem.

## What else was seen

Behaviour of the code that no run is about, mostly because no document says
otherwise; the hazards in `PROJECT.json` give the lines.

- `close()` of a WebSocket session flushes its Close frame while still Open, so the
  teardown that `flush_pending()` does in Closing is passed over; with keepalive off
  and a silent peer the session stays in Closing, although `ws_session.h:103` says
  "sends Close frame, then tears down". After a flush that failed, `close()` sets
  Closing on a transport that is closed.
- In poller mode a session reads once per edge. Bytes it leaves in the kernel are
  found only because `flush_pending()` modifies the poller entry at its end even if
  nothing changed; the mutant of `Drains` shows what an optimisation there would do.
- `http.h:353` calls a malformed chunk size "a terminal error"; the client sees a
  complete response with its own status and an empty body. A status line without a
  space is passed over and the code looked for in the lines below. A masked frame
  from a server is delivered with its payload still masked. With no expected accept value
  any complete response, of any status, opens the session (`ws_session.h:91` says
  only "accept header is not verified").
- `init_logger()` without a sink throws and leaves the backend worker acquired. The
  F-Stack example may lose the last records.
- A callback of `on_state(Open)` whose `send()` fails tears the session down; frames
  that came with the upgrade response are dispatched all the same, so `on_message`
  may follow `on_state(Failed)`.
- `start()` may return before the loop thread's `notify_one()` on the atomic in
  its frame. The store before it is safe (`ThreadStoreAlive`).
- After `ff_run` has cleaned up, `init()` still says the environment is there.
- In poller mode nulled slots are never swept, so the table grows; a reconnected
  WebSocket session or HTTP client is not added to the poller again, because
  `registered_` is still set, although `http_client.h:72` says "Open (or re-open)";
  an application that connects inside `on_error` while the pool is empty recurses
  without bound; a first `connect()` that
  fails at once does not register the session, so it does not reconnect.
- `connect()` of HttpClient with a request in flight drops the request without a
  callback, and inside `on_response`, alone or after `close()`, it replaces the buffer
  that is consumed afterwards; an idle client does not notice the end of its connection.
- `TlsStream::write()` never answers -EAGAIN for a full socket; `wbio_` grows. A
  `read()` that answers -EAGAIN may leave complete records behind, for which an
  edge-triggered poller gives no further event. A stream connected again without
  `close()` leaks its SSL object, and a failed `SSL_new` is followed by a
  handshake on null.

## Not modelled

- The F-Stack branch of the pool (rte_mempool), weak memory: accesses are
  sequentially consistent in the model, while the code uses acquire and release
  orders on one word, and plain accesses for links.
- The spelling of HTTP lines (white space, letter case, digits), base64, hashes and
  the generator of mask keys: data, of which the modules keep the outcome. Numbers
  in `Http` are natural numbers: the code's are 64 bits wide, and lengths near
  2^64, where its sums wrap, are not enumerated.
- Endpoints, TlsContext, socket options, kqueue, the clock's calibration: I/O and
  configuration.
- `Wire` with TLS underneath, or with two connections on one loop; the
  single-threaded examples, and the statistics the others print.
- Move operations of TlsStream; `check_timeouts()` called from inside a callback.

## Open ends

In the order in which they seem worth doing: an abstract `Stream` that `TcpSocket`
and `TlsStream` both implement, for `Wire` to rest on; the second connection in
poller mode, once the code adds it to the poller; a proof that `WsSession` keeps
`OpenUpgraded`, with the parser as its outcome.
