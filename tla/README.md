# TLA+ models of redis-py-sansio

This directory holds TLA+ models of the I/O layer of the sans-I/O Redis
client in `src/`. TLC checks them. `PROJECT.json` lists the components, the
runs, the mutants that show each property can fail, the map from every
definition to the source lines it translates, the findings and the hazards.

## The system

The repository is a snapshot taken partway through a migration. Modules under
`src/redis/` import their protocol, operator and pool base from
`src/sansredis/`.

| Part | Source | What it does |
|---|---|---|
| RESP writer | `redis/sansio/writer.py` | packs a command or a pipeline into bytes |
| RESP reader | `redis/sansio/_reader.py`, `sansredis/sansio/reader.py` | incremental parser: `feed` bytes, `gets` one value or nothing |
| Operator | `sansredis/sansio/operator.py` | owns one reader and one writer; `receive_data`, `iterparse`, `read_response` (normalises replies, MULTI/EXEC) |
| Protocol config | `sansredis/sansio/protocol.py` | holds the operator, socket/pool/client info, the on-connect routine (HELLO or AUTH + SELECT) and health-check timing |
| asyncio driver | `redis/io/aio.py` | `AsyncIORedisConnection` (connect, on_connect, disconnect, read_response with timeout) over `RedisAsyncIOProtocol` (a FIFO of futures, `data_received`, `connection_lost`) |
| asyncio pool | `redis/io/aio.py`, `sansredis/io/base.py` | `free` deque, `inuse` set, `acquiring` counter, Condition; `acquire`, `release`, `fill`, `_drop_closed`, a lock-free fast path `_get_conn` |
| threaded driver and pool | `redis/io/sio.py` | the same API over blocking sockets: a reader thread per connection and a lock-based pool |
| clients | `redis/client/*`, `sansredis/clients/aio.py` | route commands to the pool; pipelines pin a connection while WATCH is active |
| command builders, callbacks | `*/sansio/commands/**`, `*/sansio/callbacks/**` | argument marshalling and reply reshaping |

The parts interact along one path. A client task builds a command, and the
writer packs it. The pool's fast path hands out a free connection without
moving it to `inuse`, so several tasks use one connection. `send_command`
writes the payload and appends a future to the connection's FIFO. Then the
event loop calls `data_received`. That feeds the operator's reader, and each
parsed value pops the head future. Every connection of a pool is built from
the same protocol object, so they all hold one operator and one reader.

## Modules

### AsyncConnection (`redis/io/aio.py`, the driver)

Model of one connection object or several, used by several tasks.

State:

- `state`, `exc` and `waiters` are the protocol's `_state`, `_exc` and
  `_waiters`.
- `tr` is the transport: none, open, closing or closed.
- `lost` is a `connection_lost` call that the loop has scheduled but not yet
  run.
- `lock` is `_connectlock`.
- `buf` is the shared reader's buffer.
- `wire` and `inbound` are the network in each direction.
- `pc`, `n`, `conn` and `got` record where each task is, how many requests
  it sent, which connection it used and what its last call returned.

Data is abstracted to the request a reply answers. A reply arrives whole, or
as a head and a tail in two reads (`SplitReplies`).

Every action is one stretch of code between two suspension points, because
the loop runs one callback or task step at a time:

- `send_command` has three outcomes: `SendWrite`, `SendClosing` (a
  `ConnectionClosed` event, then `.reply`) and `SendRaise`.
- `data_received` is `DataReceived`. The loop over `iterparse` and
  `_get_fut` is the recursive operator `Drain`:
  - a parsed value with no waiter marks the protocol `InvalidResponse`;
  - a value for a cancelled future raises `InvalidStateError` out of the
    callback, and the transport is then closed (`lost = "fatal"`).
- The read timeout is `Timeout`. The future is cancelled and its waiter
  stays in the FIFO.
- The other operations are `Disconnect`, `ConnectionLost`, `ConnectBegin`,
  `ConnectOpen` (`connection_made`), `ConnectFail`, `HandshakeWrite` (HELLO),
  `HandshakeFail` and `ConnectReady`.

`Server` and `PeerClose` are the environment:

- the server answers in write order;
- a peer may close the socket (EOF) or the socket may fail (OSError).

Properties:

- `FIFOMatch`: on an open connection, the FIFO equals the requests whose
  replies are still to be read, in stream order.
- `ReplyAlignment`: a task is only ever handed the reply to its own last
  request.
- `AwaitEnds` (liveness): every task awaiting a reply or the HELLO reply is
  eventually resumed.

Fairness (`FairSpec`) is weak fairness on `Server`, `DataReceived` and
`ConnectionLost`. An event loop runs every ready callback, and a live server
answers what it was sent. No task step is assumed fair, because nothing in
the code forces a task to send.

### ConnectionPool (`redis/io/aio.py` pool on `sansredis/io/base.py`)

State:

- `free` is the deque, a sequence whose appends drop the left end when it
  is full (`maxlen`).
- `inuse` is the set of checked-out connections.
- `acquiring` counts connections being made.
- `gcPending` counts `iterconn` generators abandoned by a failed
  `connect()`. Their `finally: acquiring -= 1` runs only when the
  generator is collected, which is the `Collect` action.
- `status` says whether each connection object `is_connected`.
- `holder` and `waitq` are the Condition's lock and its waiters.
- `wakeups` counts scheduled `_wakeup()` tasks.
- `pc`, `phase` and `conn` are each task's position, its `iterconn` loop
  and its connection.

Connection ids are reused once nothing refers to the old object, so ids
bound nothing about the history.

`fill()` resumed at any point is the operator `FillFrom`:

1. `_drop_closed`, translated literally as `DropLoop`, including its
   `rotate(1)`.
2. The `iterconn` loop decision (`Decide`).
3. Then one of three outcomes:
   - a new connection and an await of its `connect()`;
   - the end of fill, which schedules a `_wakeup`; inside acquire this
     is followed by the checkout (`Checkout`);
   - a `Condition.wait()`.

The other actions are `Acquire`, `AcquireEnter`, `Woken`,
`ExecuteCommand` (the `_get_conn` fast path, `GetLoop`), `FastDone`,
`FillPool` (`await pool`), `ConnectDone`, `ConnectFail`, `Collect`,
`Release`, `Wakeup`, `PoolDisconnect` and `PoolDisconnectDone`.
`ServerClose` is the environment.

Properties:

- `NoOrphan` has two parts:
  - every open connection is in `free`, in `inuse`, or held by a task;
  - every connection in `inuse` is held by a task that will release it.
  If `size()` is miscounted, the bounded deque drops a live connection
  silently. An `inuse` entry without a holder lowers `max_connections`
  for good.
- `ExclusiveUse`: acquire never hands one connection to two tasks.
- `AcquireConnected` (action property): acquire returns only a connected
  connection.
- `WaiterWakes`: a task in `Condition.wait()` is woken again.

A woken waiter can lose the lock to a newly arriving acquire, and the
connection with it, so it is not true that every acquire ends. That is
starvation under a lock with no fairness between a woken waiter and a new
caller, which the code does not promise to prevent, so no run asks it.

`FairSpec` assumptions:

- Strong fairness on taking the Condition's lock (`AcquireEnter`,
  `Woken`), because asyncio's lock queues its waiters FIFO.
- Strong fairness on `Wakeup`, which also needs the lock.
- Weak fairness on the end of `connect()` (bounded by `connect_timeout`),
  on `Release` (the context manager releases), on `FastDone`, on the end
  of `disconnect()` and on `Collect`.
- The environment's faults (failed connects and server closes together)
  are bounded by `MaxFaults`, so liveness is judged once faults stop.
- `MaxWakeups` caps the count of pending `_wakeup()` tasks. Further ones
  are merged into the cap.

### Writer and WriterRegistry (`redis/sansio/writer.py`, the encoder)

`Writer` holds the encoder as pure operators over tagged Python values.
`PyValue(type, v)` is a value of a class. Bytes on the wire are a pair:
the content, and how it was encoded (a codec, ASCII text, or raw).
`Accented` stands for a one-character non-ASCII text, whose bytes depend on
the codec.

- `Valid` is `Writer._valid`. `bool` is not in it, because `encode` tests
  the exact class.
- `Converter(encoding, errors)` is the str converter `_get_str_encoder`
  builds, named by its configuration. `DefaultConverter` is the class's
  initial entry, `val.encode()`.
- `Encode` is `Writer.encode`. It raises `DataError` for an invalid class.
  With `encoding_errors` set, the str converter calls
  `val.encode(val, encoding, errors)`, which raises `TypeError`. int and
  float become their text, and bytes-like values pass unchanged. A bulk
  records whether `len(barg)` counts its bytes, which fails for a
  memoryview of items wider than one byte.
- `PackWith` is `_pack_command`: the header, then each token encoded and
  framed. The first token that raises ends the call.
- `Unframe` is the reference decoder of spec 4.A. It rejects a bulk whose
  header does not count its bytes. `Unpack` gives the decoded tokens.

`WriterRegistry` is the stateful part. `_converters` is a class attribute,
and `Writer.__init__` rewrites its str entry. So the variable `conv` is
one table shared by every writer, and `writers` holds each writer's own
configuration. `NewWriter(e, r)` is a construction, and `Pack(w, verb,
modifiers)` is `pack_command` on writer `w`. A Writer is built for every
protocol's operator (`protocol.py:58`) and again for a pre-6.0 handshake
(`protocol.py:159`).

Property:

- `ArgumentsRoundTrip`: every packed command decodes to its arguments,
  each str in the packing writer's own encoding. Only a value of an
  unsupported class is refused, with `DataError` (spec 3, 4.A, 8).

### Codec (`sansredis/sansio/operator.py`, the reply normalisation)

The operator's pipeline normalisation is pure, so the model has pure
operators beside a reference definition written from spec 4.B. The only
variable, `input`, is one parsed pipeline reply, and `ReadResponse` chooses
it. So the property is checked on every input.

- `PackCommand` is `RedisOperator.pack_command` on the operator's writer,
  which `Protocol` and `Commands` use. The writer is built from
  `ClientInfo`, whose encoding is `None` unless set, so strings are sent
  with `val.encode()`.
- `ReadPipelined` is `_read_pipelined_response` and its four cases, with
  `SanityCheck`, `ResponseOrExc` and `IterResponses`. `SpecPipelined` is the
  reference normalisation.
- An outcome says what the caller of the driver receives:
  - a result (`fut.set_result`);
  - an exception (a returned exception goes to `fut.set_exception`);
  - nothing, when the operator raises: the exception escapes
    `data_received` after the waiter was popped (`Escape`).
- Reply values are model values. Callbacks and `parse_error` keep the
  reply they are given.

Property:

- `TransactionMatchesSpec`: a MULTI/EXEC pipeline is normalised as the
  design says. Spec 4.B leaves one case open: what `(true, false)` does
  with a MULTI error. The reference reads it as the code does: the error
  is put first in the replies.

### SyncConnection (`redis/io/sio.py`, the threaded driver)

The driver is the same as the asyncio one, but over blocking sockets and
threads. Each `connection_made` starts a reader thread (`read_forever`).
Client threads call `send_command` and block in `future.result(timeout)`.

State:

- `state`, `exc` and `waiters` are the protocol's fields.
- `fut` is each request's `Future`.
- `attached` is `self.connection is not None`.
- `tr` is the current socket, the one `self._transport` names.
- `reader` and `chunk` are each reader thread and the bytes its last
  `recv` returned.

Actions:

- `send_command` is two actions, `Send` (`sendall`) and `AppendWaiter`,
  because another thread can run between them.
- `Recv` and `Feed` split a reader's loop between `recv` and
  `receive_data`, for the same reason. `Feed` includes `_read_response`:
  it returns early when no waiter is queued, and otherwise it runs `Drain`.
- The other actions are `Resolved`, `Timeout`, `Connect` (under
  `_connectlock`), `HelloSend`/`HelloAppend` (the HELLO future that
  `on_connect` never reads), `DisconnectBegin` and `DisconnectEnd` (which
  waits for the current reader to end).
- `Server` and `PeerClose` are the environment.

Property: `ReplyAlignment` says a thread is only handed the reply to its
own last command. It holds for one thread on one connection. In that case
a timed-out waiter stays queued and absorbs its late reply. With two
threads, `sendall` and `append` interleave and it fails. With a reconnect,
two reader threads share the socket and it fails (`sync_reconnect`).

### ThreadedPool (`redis/io/sio.py`, the threaded pool)

`SyncIORedisConnectionPool` runs the asyncio pool's algorithm under a
`threading.Condition`. Its `acquire` holds the Condition across `fill()`
just as the asyncio one does, so the module `EXTENDS ConnectionPool` and
reuses those actions. The difference is `release()`, which takes no lock.
A thread can be preempted between `inuse.remove(connection)` and
`free.append(connection)`. So `release` is two actions, `ReleaseRemove`
and `ReleaseAppend`, with a program counter `"releasing"` between them.

### ClientPipeline (`redis/client/base.py`, `redis/client/sio.py`)

This module composes the threaded client's pipelines with `ThreadedPool`.
A task is a client thread. A thread without a pipeline uses the pool
directly (`PlainUse`, then the pool's own steps in `PoolStep`). A thread
with a pipeline has these actions:

- `OpenPipeline`: `pipeline(transaction=...)`. When used as a context
  manager this is also `fill()`, because `pre_fill` is true.
- `Watch`: acquire and pin a connection. It is guarded by
  `explicit_transaction`, which the default `transaction=True` already
  sets.
- `Multi` and `PipeExecute`. Without a pin, `PipeExecute` is the pool's
  fast path or a checkout.
- `Reset`: clear `self.connection`, then `_do_release_connection`, which
  is `ReleasePinned`. UNWATCH runs first. A `ConnectionError` from it is
  caught; a `RedisTimeoutError` propagates before `pool.release`.
- `ExitPipeline`: `SyncIORedis.__exit__`, which disconnects the pinned
  connection and does not tell the pool.

Variables `pipe`, `explicit` and `pin` are the pipeline object, its
`explicit_transaction`, and whether the thread's checkout is the pinned
`self.connection`.

The command stack is not modelled. Every pipelined command raises in
`extend_pipeline`: `PipelinedCommands.commands` is `None`, and a `Command`
is not iterable. So `execute_command`, `unwatch` and `discard` change
nothing.

Constants:

- `Pipelines` lets threads open pipelines.
- `Timeouts` is whether `socket_timeout` is set, so that a read can time
  out.

The property is the pool's `NoOrphan`.

### Protocol (`sansredis/sansio/protocol.py`, `on_connect`, `check_health`)

The upkeep a driver runs on its own is modelled as pure operators, as in
Codec; the module `EXTENDS Codec` to reuse its packing and its reference
decoder. The single `input` variable is one connect scenario or one
sequence of health checks.

Connect scenarios (`ConnectInputs`):

- the driver (asyncio or threaded);
- whether the server version is known;
- the server version;
- RESP version, user, password, client name and database;
- the server's answer to the init command.

The operators:

- `GetOnConnectRoutine` builds the init command (HELLO at 6.0 or above,
  AUTH below) and the stack (SELECT). Below 6.0 with a client name,
  `SetNameRaises`: the CLIENT SETNAME command is built without
  `callback` and `callback_kwargs`, which the `kw_only` attrs class
  requires, so the routine raises `TypeError` before it packs anything.
  The stack therefore holds at most one command, and its `make_pipeline`
  branch is never taken.
- `OnConnect` and `Connect` are what `on_connect`/`connect` write and
  raise. `connect()` disconnects only on a `RedisError`, so the
  `TypeError` leaves the connection open.
- `HealthPings` folds `CheckHealth` over the calls, from
  `next_health_check = inf`. When a check is due, `check_health` hands
  `get_health_check`'s Command to `send_command` without packing it. On a
  connected protocol this raises `AttributeError` (`event.payload`, or
  `.reply` of `ConnectionClosed`). The handler catches only
  `ConnectionError` and `TimeoutError`, so the error escapes. On a lost
  protocol `send_command` raises `ConnectionError`, and the retry after
  `disconnect()` raises again. So no PING is written, and
  `set_next_health_check` and `check_health_response` are never reached.
  A call is therefore on a connection that is `connected` or `lost`.

`SpecConnect` and `SpecHealthPings` are the reference definitions from
spec 4.C and 4.D. `UpkeepMatchesSpec` says they agree; it is one conjunct of
`Commands`' property `EmittedCommandsMatchSpec`.

### Commands (`*/sansio/commands/core/*.py`, the command builders)

`Commands` `EXTENDS Protocol`. Each of the 52 builders that check their
arguments or build optional clauses is a pure operator from its keyword
arguments to an outcome. The outcome is either a raised error
(`DataError`, or `ValueError` for `stralgo`'s uncaught `int()`), or the
tokens the server reads back. Those tokens come from `Send`, which runs
the command through `make_command` and the writer's frame (`Codec`).

Every builder has a reference (`Spec<name>`). It is written from the Redis
syntax its docstring links to, and from the constraints its docstring or
its own error messages state. A reference says:

- `stated`: the call breaks a stated constraint, so the builder must raise
  `DataError`;
- `invalid`: the server refuses the call, so the builder may raise or
  send it;
- the positional tokens, the option clauses and the trailing tokens the
  call means.

`Meaning` is a generic option parser driven by a per-command `Grammar`,
which gives each keyword's arity. It reads the sent tokens as the server
would. `Agrees` compares the options by keyword, in any order, ignoring
the clauses that are the server's default.

Data abstraction:

- Names, members and keys are fixed strings.
- Integers are TLA+ integers, sent as their decimal `Text`.
- `None` is `NoVal`, and an argument that is not an int is `NotInt`.
- A signed ACL argument is a record of its sign and its name. So
  `startswith` and `[1:]` act on the sign.

The input sets (`KeyInputs` … `HashInputs`) give every argument a small
domain. Each domain holds the value the check tests, a value on each side
of it and `None`.

### ReplyChannel (the abstract connection) and the refinement

`ReplyChannel` is what one connection promises its callers (spec 4.D):

- a command written is answered in write order;
- a caller still waiting gets the reply to its own last command;
- a caller may give up (a timeout) or have a call refused without writing.

Actions: `Request`, `Answer(k)` (the k oldest replies arrive together),
`GiveUp` and `Refuse`.

`AsyncConnection` instantiates it for one connection `ChanConn`:

- `queue <- waiters[ChanConn]`;
- `awaiting` is true for a task in `"await"` or `"hello"` on `ChanConn`;
- `Failures` is the driver's error outcomes.

`ChannelRefinement == Channel!ChanSpec` is a `PROPERTY` of
`driver_single`. Every driver step is therefore one of these:

- a tail append of waiters;
- a head removal that serves exactly the tasks whose requests were
  answered;
- a give-up;
- a refusal;
- a stutter.

`SyncConnection` instantiates it the same way, for its one connection:

- `queue` is `waiters` without the HELLO request, followed by the
  requests of threads between `sendall` and `waiters.append`
  (`Unqueued`): they are written, so they are already in the channel's
  write order;
- `awaiting` is true for a thread in `"append"` or `"wait"` whose future
  is unresolved;
- `got` is a resolved future not yet read, or the thread's last outcome
  (`ChanGot`).

`ChannelRefinement` is a `PROPERTY` of `sync_single`, which has one client
thread. With two threads the driver already breaks `ReplyAlignment`.
`on_connect` runs in the first caller's thread, and a second thread's
command can be written between HELLO's `sendall` and its append. HELLO's
reply then resolves the second thread's future. This is the same fault
that `sync_reconnect` reports.

## Runs

| Run | Bounds | Expect | Shows |
|---|---|---|---|
| `driver_single` | 2 tasks, 1 connection, 3 requests each, 1 connect, split replies, timeouts | pass | `FIFOMatch` and `ReplyAlignment` hold on one connection through timeouts, late replies, peer close, disconnect and a failed handshake; `ChannelRefinement`: the driver implements `ReplyChannel` (about 65k states) |
| `driver_multi` | 2 tasks, 2 connections, 2 connects each, split replies | violation | `ReplyAlignment`: one socket's half reply is completed by the other socket's bytes in the shared reader. With `Conns = {c1}`, the waiters of the old socket take the replies of the new one after a reconnect |
| `driver_lost_waiters` | 2 tasks, 1 connection, no timeout, `FairSpec` | violation | `AwaitEnds`: after the socket closes, a task awaiting HELLO or a reply is never resumed |
| `pool_safety` | 3 tasks, max 2, min 1, 2 faults, disconnects | pass | `TypeOK`, `NoOrphan` and `ExclusiveUse` hold (about 160k states with task and id symmetry) |
| `pool_drop_closed` | 3 tasks, max 3, min 2 | violation | `AcquireConnected`: with `free = [live, closed, closed]`, `_drop_closed` leaves one closed connection and acquire returns it |
| `pool_liveness` | 2 tasks, max 1, 2 faults, disconnects, `FairSpec` | pass | `WaiterWakes`: a waiter always wakes again, partly because every `fill()` schedules a `_wakeup()` |
| `pool_threaded` | 2 client threads, max 1, min 0, pipelines, socket timeouts | violation | `NoOrphan` (`MCClientPipeline`). Shortest trace: `reset()`'s UNWATCH times out and the pinned connection stays in `inuse` with no holder. With `Timeouts = FALSE`: a pipeline's context exit disconnects its pinned connection without releasing it. With `Pipelines = FALSE`: a thread preempted inside `release()` lets another's `fill()` make a second connection, and the bounded deque drops the first while it is open |
| `writer_encoding` | `MCWriterRegistry`: 2 writers, each with encoding None, utf-8 or latin-1 and encoding_errors None or strict; SET with 0-2 arguments from ASCII and non-ASCII str, int, float, bytes, bytearray, byte and word memoryviews, bool and None | violation | `ArgumentsRoundTrip`, three divergences: (1) a memoryview of format `I` is framed with its item count as `$len`, so the stream misframes; (2) with `encoding_errors` set (BaseRedis's default is `strict`) every str, the verb included, raises `TypeError`; (3) after `Writer(encoding="latin-1")` an earlier writer sends non-ASCII text in latin-1. Each was confirmed by TLC with the arguments and configurations restricted to that case. With none of them possible (encodings None and utf-8, no errors mode, no word memoryview) the property holds |
| `codec_transaction` | replies to pipelines of 1-2 commands, every reply kind | violation | `TransactionMatchesSpec`: on EXEC nil, `WatchError` escapes `data_received`; an ack error raises `TypeError`; `(True, True)` pairs commands with their `QUEUED` acks. Each was confirmed by TLC on an input restricted to that case |
| `sync_single` | 1 thread, 1 connect, 3 commands, split replies, timeouts | pass | `ReplyAlignment` holds through timeouts, replies buffered before their waiter, `InvalidResponse`, peer close and disconnect; `ChannelRefinement`: the threaded driver implements `ReplyChannel` (about 5.8k states) |
| `commands` | `MCCommands`: the upkeep inputs (servers 5.0.7 and 6.0.0, every combination of RESP version, user, password, name, db and init answer; intervals 0 and 2, up to 3 checks at times 1..4) and every builder call over its domain | violation | `EmittedCommandsMatchSpec`. Upkeep (`UpkeepMatchesSpec`), five divergences: (1) `on_connect` returns after the init command, so the stack (SELECT) is never sent when there is an init; (2) below 6.0 a client name makes `get_on_connect_routine` raise `TypeError` after INFO was sent, so neither AUTH nor SELECT is sent and the connection stays open; (3) a rejected AUTH raises `AuthenticationError`, which is not a `RedisError`, so `connect()` does not disconnect and the connection stays up; (4) the threaded `on_connect` returns the init future unread, so a rejection never raises; (5) `check_health` sends its Command unpacked and raises before writing anything, so no PING is ever sent. Builders (`BuildersMatchSyntax`), eight more: `getex` counts equal expiry values once, so `exat=1, pxat=1` is sent; `zadd` sends GT with LT, and raises on `nx=True, gt=False`; `_geosearchgeneric` drops a longitude, radius or count of 0; `client_kill_filter` with only `skipme` kills every client; `client_list` joins the ids into one argument; `acl_genpass` never sends `bits`; `migrate` with no keys is sent; `lcs(minmatchlen=None)`, allowed by its `Optional[int]` annotation, passes the `!= 0` test and raises `DataError` in the writer. Each was confirmed with `Kinds` set to that builder and `INVARIANT BuildersMatchSyntax`. The other 44 builders agree with their references |
| `sync_reconnect` | as above, 2 connects | violation | `ReplyAlignment`: HELLO's reply arrives before its waiter, `InvalidResponse` loses the next reply, the reconnect leaves the first reader running, and the two readers' chunks misparse into the thread's reply |

Why the bounds are enough:

- Two tasks is the least that lets one task's reply go to another.
- Three requests let a task time out, send again and see its late reply
  arrive.
- One connect per connection keeps reconnection out of the passing run.
  Reconnection is part of `driver_multi`.
- In `pool_threaded`, `max_connections = 1` makes a single extra
  connection overflow the deque or exhaust the pool, and two threads are
  the least for one to release while the other acquires.
- In `commands`, the two versions lie on both sides of 6.0.0, where the
  routine switches from AUTH to HELLO. Four clock readings and three calls
  with interval 2 let a check fall before, at and after `next + interval`.
  A builder's domains hold 0 to 2 repeated arguments. That is the least
  that tells one argument from a joined or a dropped one. Integer domains
  hold 0, which is where a truthiness test differs from `is not None`.
- The `_drop_closed` bug needs three free connections with the middle
  ones closed. With `max_connections = 2` every order is pruned correctly,
  so `pool_drop_closed` uses max 3. Its min of 2 is below max, because with
  min = max fill replaces the dropped connections before acquire pops.
- In `codec_transaction`, two commands is the least that lets one reply
  be paired with the wrong command.
- In `writer_encoding`, two writers is the least for one to rewrite the
  other's converter, and two arguments let an invalid one follow a valid
  one. The value classes are every class of `Writer._valid` plus two that
  are not.
- In `pool_safety`, two tasks can fill concurrently (`await pool` runs
  without the lock) while a third acquires. That is the least needed to
  test the `acquiring` accounting.

Deadlock checking is on in `pool_safety` and in the violation runs
`codec_transaction`, `writer_encoding`, `commands` and `pool_threaded`. In
the codec and commands runs a new input can always be chosen, and a writer
can always pack again. It is off in the driver runs
(`driver_*`, `sync_*`) and in the pool's liveness runs. Each task sends a
bounded number of requests, so the system stops. It also stops when a task hangs on a future
nobody resolves, and `driver_lost_waiters` covers that hang as a liveness
violation. `TaskSymmetry` is used only in the safety runs.

## Plan (next modules)

Done so far: the asyncio and threaded drivers, both pools, the codec, the
on-connect routine and health check, the threaded client's pipelines
over the threaded pool, and the 52 command builders that check their arguments or build optional clauses. `driver_single` and
`sync_single` check the refinement of `AsyncConnection` and of
`SyncConnection` to `ReplyChannel`.

Still open:

1. A liveness property for the threaded pool. With a leaked `inuse` entry
   and `max_connections = 1`, every later `acquire()` waits forever.
2. The asyncio client (`sansredis/clients/aio.py`). It imports a module
   the repository does not have, and its method resolution order makes
   `BaseRedis.execute_command` shadow the pipeline's.
3. The spec's release of a WATCH-pinned connection at `execute()`, which
   the code does not do (see the hazards in `PROJECT.json`).

All twelve runs are in use:

- `pool_starvation` was dropped, because the code does not promise
  fairness between a woken waiter and a new caller.
- The two multi-connection driver runs were merged into `driver_multi`,
  which asks one question.

A new question either adds properties to a passing run of a module it
composes with, or takes the place of a run.

## Not modelled

- The builders that forward their arguments unchanged to
  `execute_command`. They have no control of their own.
- What `shutdown` does with the result of `execute_command` (driver I/O).
- The response callbacks. They reshape replies and have no state.
- The `redis/sansio/commands` package does not import as shipped.
  `core/acl.py` imports `redis.sansio.callbacks.generic`, which does not
  exist, and `core/__init__.py` imports modules (`management`, `script`,
  `zset` and others) that exist only under `sansredis`. The builders are modelled as written.
- The pipeline's command stack: every pipelined command fails in
  `extend_pipeline`, so it is always empty.
- The health check is never called by the pools or the clients. `Protocol`
  checks its schedule on its own.
- `Writer._pack_pipeline`. Its only caller is the on-connect routine's
  `make_pipeline` branch, which needs a pre-6.0 client name, and that
  raises first.
- `set_next_health_check` and `check_health_response`: `check_health`
  raises before it reaches them.
- `sansredis/io/sio.py` cannot run: it calls a method the operator does not
  have.
- The RESP parser itself is not in the repository (`_parser`, hiredis).
  `Parse` models only its framing.
- TLS, the socket options and the benchmark harness are out of scope.
