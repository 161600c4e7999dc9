# TLA+ models of alilua

alilua is a web server: a supervisor forks worker processes, each worker runs
one event loop, and every request is a Lua script (`process()` of `core.lua`)
that runs in a pooled Lua thread and suspends whenever it has to wait. This
directory holds TLA+ models of the server's own logic, the TLC configurations
that check them on small instances, and TLAPS proofs of what matters most for
every size of the instance. Paths are relative to the repository; `network.c`
without a directory is `src/network.c`.

    tlc -config Connection.cfg    MCConnection      # one run
    tlapm Connection_proofs.tla                     # one proof module

## 1. The system

| Component | State it keeps | Operations | Talks to |
| --- | --- | --- | --- |
| Client connections (`worker.c`, `network.c`) | one `epdata_t` per client: status (WAIT, READ, PROCESS, SEND), the registered callback, socket, thread, keep-alive, body left to read, timer | accept, read header / body, refuse, start the script, time out, end the request, close | event loop (callbacks), thread pool, gauges, script |
| Response output (`lua-ext.c`, `network.c`) | output queued in `epdata_t.iov`, `header_sended`, `response_sendfile_fd`, `next_proc` | header, echo, flush, sendfile, die/`__end`, `network_be_end`, `network_be_write` | connection, script (suspends it) |
| Script life cycle (`core.lua`, `worker.c`, `lua-ext.c`) | the coroutine of the request | start, call a library function, yield, resume, end, raise | connection, thread pool, coevent |
| Lua thread pool (`lua-threads.c`) | linked list of idle threads, count of threads, globals noted per coroutine | `new_lua_thread`, `release_lua_thread`, `reinit_lua_thread_env`, `l_env_newindex` | accept, `worker_process`, `close_client`, `network_end_process` |
| Server status (`network-util.c`, `worker.c`) | `serv_status` of each worker, its last published copy, the sums in shared memory | count, `sync_serv_status` once a second, exit handler, report | all workers, through shared memory |
| Shared cache YAC (`deps/yac`, `lua-ext-cache.c`) | slots and value segments in shared memory | add/update, find, delete, flush | all workers, without locks |
| Virtual hosts (`vhost.c`, `host-route.lua`) | two ordered linked lists of names | insert, lookup | `worker_process` |
| URI router (`lua-router.c`, `route.lua`) | compiled patterns, cache of existing files, `lua_routed` | `router`, `fs access` | script |
| Code cache and require (`core.lua`, `lua-require.c`) | loaded chunks with their expiry | loadfile, loadtemplate, require | all scripts of a worker |
| Request body fields (`core.lua`) | `__body_buf` and friends, globals of the script | `next_post_field`, `read_post_field_chunk` | script, `read_request_body` |
| Websockets (`websocket.c`, `core.lua`) | frame state of a connection, watcher thread | upgrade, read frame, send, check close | connection, thread pool |
| Supervisor, option parsing (`main.c`) | the children | fork, restart | submodule `merry`, not in the repository |
| Compression, string and client libraries | none that outlives a call | | |

**How they interact.** A worker is single threaded. The event loop calls the
one callback that is registered for a socket; timers call `timeout_handle`. A
callback runs to its end, except that it may resume a Lua thread: the script
then executes until it yields in a library call (flush, echo of much data,
read_request_body, any coevent call) or returns, and only then does the loop
continue. What is shared between requests of a worker is therefore touched
between two yields at a time, but a request that has yielded finds everything
changed when it goes on. Workers share only the status sums and the cache.

**What is hard.**

* The client, its timer and its script act on the same `epdata_t` in any order:
  the client leaves while the script sleeps, the timer ends a request whose
  script is suspended, the end of the response has to wait for the end of the
  request body, the script ends after the socket was closed.
* The functions that finish a request call one another: `network_be_end` returns
  to the event loop to discard a body and is called again, calls itself through
  `network_send_error`, and ends in `network_end_process` or `close_client`.
  The gauges and the thread have to be given back exactly once on every path.
* A thread is reused by requests of different clients: what one leaves in it
  (a suspended script, globals) meets the next.
* Everything is bounded: the thread pool, the buffers, the cache slots.

**What makes each component correct.**

* Connections: the callback fits the status; every gauge is the number of
  connections it counts; every request ends; a connection whose client left is
  freed.
* Scripts: one at a time; a suspended script belongs to a connection that is
  doing what it waits for; a request in PROCESS has a script that goes on.
* Thread pool: every thread is idle in the list once, or owned by one
  connection; the list is a FIFO queue; idle threads have finished their script
  and carry no globals of it.
* Server status: published sums are the sums of what the workers count, minus
  nothing that was lost, also when workers exit or die.
* YAC: a reader gets a value that was stored under the key it asked for.
* Virtual hosts: a lookup is answered from the last configuration without an
  error, by an exact name before a wildcard before `*`, whatever the order in
  which Lua listed them and however often it was reloaded.
* Router, code cache, require: a script is refused only what it did itself, runs
  with its own globals, and gets code and modules of its own host that are not
  long out of date.
* Websockets: messages reach the handler whole and in order; whoever waits for a
  send is resumed; the connection ends when its client left, and is counted out.
  (Long messages are not right, see section 6.)

## 2. Modules

| Module | Models | State |
| --- | --- | --- |
| `Connection` | connections, output, script life cycle, thread pool as a queue, gauges | written |
| `MCConnection`, `Connection*.cfg` | its TLC instances | written |
| `Connection_proofs` | its theorems on callbacks, gauges and the pool | written |
| `ConnectionScripts_proofs` | its theorems on scripts | written |
| `ConnectionPool_proofs` | it uses the pool as `ThreadPool` specifies | written |
| `ThreadPool` | abstract: what the rest may rely on of the pool | written |
| `LuaThreads` | the linked list and the tracking of globals of `lua-threads.c`; implements `ThreadPool` | written |
| `MCLuaThreads`, `LuaThreads*.cfg` | its TLC instances | written |
| `LuaThreads_proofs` | its theorems and the refinement | written |
| `ServStatus`, `MCServStatus`, `ServStatus.cfg` | `sync_serv_status`, exit handler, workers that are killed and restarted | written |
| `ServStatus_proofs` | its theorems | written |
| `VhostTable` | abstract: which rule answers for a host | written |
| `Vhosts` | the linked list of `vhost.c`, its loading, reloading and lookup; implements `VhostTable` | written |
| `MCVhosts`, `Vhosts*.cfg` | its TLC instances | written |
| `Vhosts_proofs` | its theorems and the refinement | written |
| `Require` | `require` of `lua-require.c`, for a caller that says who requires | written |
| `Scripts` | several requests of a worker and what their scripts share: `lua_routed`, `package.path`, the chunks of `loadfile`; composed with `Require` | written |
| `MCScripts`, `Scripts*.cfg`, `RequireNested.cfg` | their TLC instances | written |
| `Scripts_proofs` | the theorems about both | written |
| `Websocket` | upgrade, frames, sends, the two coroutines and every way to end | written |
| `MCWebsocket`, `Websocket*.cfg` | its TLC instances | written |
| `Websocket_proofs` | its theorems | written |

### 2.1 `Connection`

`epd` is a function from connection slots to the fields of `epdata_t` that
control depends on, `wk` the worker's globals (three gauges of `serv_status`,
the list of idle threads and the threads made), `co` where each Lua thread
stands, `run` the connection whose script executes (`NoConn` in `epoll_wait`),
`exiting` the answer of `check_process_for_exit()`.

An action is what the worker does between two returns to the event loop, or one
library call of the executing script. The C functions that end by calling one
another are operators `Op(c, e, k)` over the connection `e` and the gauges `k`
as the caller leaves them; each of them fixes `epd'` and `wk'`, so that a whole
chain of calls, early returns included, is one step, as it is in the program:

    ReadOnClear -> BeEnd -> SendError / StartSend -> EndProcess -> CloseClient

| Action | Code |
| --- | --- |
| `Accept`, `SslAccept` | `be_accept`, `be_ssl_accept`, `_be_ssl_accept` |
| `ReadSome`, `ReadEnd`, `ReadRefused`, `ReadRequest` | `network_be_read`: part of a header, end of file, 411/413, a whole header (with `Expect` and the status page) |
| `ReadOnProcessing`, `ReadOnClear`, `ReadRequestBody` | the other three read callbacks |
| `WriteDone`, `WriteFail`, `WriteNothing` | `network_be_write`: all sent, an error, nothing to send |
| `TimeoutHandle` | `timeout_handle` |
| `Header`, `Echo`, `EchoMore`, `Flush`, `SendFile`, `LuaReadRequestBody`, `End` | the script's library calls |
| `Sleep`, `Wake` | a coevent call (a timer, a socket, a query) and its return |
| `Throw` | an error that `process()` does not catch |
| `BeginExit` | `check_process_for_exit()` becomes true |

`WorkerProcess` answers before it takes a thread only if the SSL certificate of the
client is refused (`badcert`, `worker.c:190`) or no thread is to be had; a request
that is malformed (`badrequest`) has been given one by then, and keeps it.

Abstractions: a body is a number of pieces; output is one of nothing, a header,
some body, a file, a missing file; what is written partially stays with the
same callback and is the same state. `Sleep` stands for every library call that
yields without the connection's knowledge. External parts (the submodules
`coevent` and `merry`: event loop, timers, coroutine resume) are modelled from
their use: a socket has one callback, registering one on NULL does nothing, a
dead coroutine is not resumed.

### 2.2 `LuaThreads` and `ThreadPool`

`LuaThreads` has the list as it is in memory: `head`, `tail`, `next` and `L` in
allocated cells, with `malloc` free to return any unused cell. `env` is what a
thread has in its table of globals, `gk` the names noted for the thread and for
coroutines made in it. `ThreadPool` is the promise: a FIFO queue, and a thread
is made only when the queue is empty; a worker begins with the threads that
`init_lua_threads` made. `Connection` uses the queue (its `Available`,
`NewLuaThread`, `Release`), which is justified by `PoolSpec` and the theorem
`PoolIsThreadPool`.

### 2.3 `ServStatus`

Each worker counts in `serv`, remembers in `tmp` what it has published, and adds
the difference to `shm` once a second. One gauge stands for the four that
`sync_serv_status` treats alike, one total for the three that are added and
started again, and `sec` is the ring of five seconds. `now` is kept modulo 5,
which is all the ring uses; `now > last_sync` is membership in `due`, which the
next second sets. `Exit` is `on_exit_handler`, which publishes whether due or not
because it first sets `now` ten seconds on; `Crash` is a process that dies
without it. `gone`, `accepted` and `asked` are auxiliary and record what the sums
should be. The lock around the sums makes a publication one step. `MaxAsked` bounds
the requests of a slot: once one has that many, no worker gets another until the
slot is cleared.

### 2.4 `Vhosts` and `VhostTable`

`node` is the memory of the `vhost_conf_t` cells (`Free` until `malloc` returns
them), `head` and `last` are `vhost_conf_head` and `last_vcf`; names are
sequences of characters because the lookup compares their ends. A cell is never
freed: a host that left the configuration stays with `mtype` -1.

| Action | Code |
| --- | --- |
| `Timeout` | `timeout_handle` and the start of `update_vhost_routes`: every cell of the list is marked removed, `lua_next` will list `todo` |
| `LoadEntry`, `Advance` | `get_vhost_conf` for an entry of `host_route`, one cell per step |
| `Update`, `Insert` | the rest of the loop: a known cell, or a new one that becomes the first, the head, the tail or the last but one |
| `Ask`, `Advance`, `Answer` | `get_vhost_root` for the host of a request |
| `Edit` | somebody writes the file (external) |

Which entry Lua lists next is left open, so every order is tried, and another one
at each reload. `order` is auxiliary: the cells of the list, first first.
`VhostTable` says what the rest of a worker may rely on: an exact name answers
before a wildcard, and `*` only if nothing else covers the host. `TableSpec` is the
refinement, with the rules of the last load that are in the list as the table
(`Live`).

A wildcard inserted while `*` is alone in the list is lost (section 6): its cell stays
allocated and linked to nothing but the `prev` of `*`. A server may start with any
configuration, so this happens in the model as it does in the code. `ListIsWhole` says
that no other cell is lost, and `TableIsLoaded` when a rule may be missing: it is a
wildcard, and `lone` says that no name but `*` was in the list when the load began.
With an exact name in it every rule is found or inserted, those lost before included.
`EveryRuleAnswers` states what one would expect, and is refuted.

### 2.5 `Scripts` and `Require`

A request is what `process()` of `core.lua` runs: the route file of its host,
which may call `router()`, `dofile()`, `dotemplate()` and `require()`, wait, go on
and end. `cur` is the request whose script executes; another one starts only when
it waits or ends. `disk` has the versions of each file with the time of the edit
and the modification time it shows, which may be an old one.

| Action | Code |
| --- | --- |
| `Start` | `worker_process`: `package.path`, `lua_routed`; `process()`: the route file through `loadfile` |
| `Router`, `RouterRefuses` | `router()` of `core.lua` and `lua_f_router` |
| `DoFile`, `ReturnFromPage` | `dofile`, `dotemplate` over `loadfile`, `loadtemplate` (`LoadFile`: the entry of the cache, and its comparison with the file) |
| `ReadFile`, `StatFile` | the rest of `loadfile` and `loadtemplate`: the file is read; its time is asked for, the chunk stored and called |
| `RequireOf` = `Call`, `Finish`, `Fail` | `lua_f_package_require` up to the chunk of the module, after it, and its error |
| `Sleep`, `Resume`, `End` | any call that yields, its return, the end of the script |
| `Tick`, `Edit`, `Delete` | external: time, and somebody who changes files |

`cache` is `__CodeCache`, `load` the file that is being loaded. The editor is another
process: `Edit` and `Delete` come at any moment, so a file may change between
`ReadFile` and `StatFile`. Time passes only between scripts, because a script sees
the time the event loop last set. A frame of a request records the version of the chunk
and whose globals it has; `Reset` is `setfenv`, which changes them for every
frame that executes the same chunk, of any request. `Require` keeps `_LOADED`,
the times per hash slot in `Word` values, and the static buffer with the key:
`nest` is the stack of modules under execution, each with its own key on the C
stack, while the key that is written to is the buffer's.

### 2.6 `Websocket`

`ws` is the `epdata_t` with its `websocket_pt`: `life` (upgraded or not, closed by
the watcher, cut by `close_client`), status, callback, `busy`, `ended`, the bytes
of a frame half read. A frame of the client is two pieces, its header and the
rest; they arrive apart, together, and with pieces of the next frame. `long` has the
frames of 64 KiB or more: the code takes their length, which it never converts from
network order, for 0, so that the header alone is a frame (`Lengths`); the rest is then
read as headers, which may say anything up to `Far`, more than is ever received.

| Action | Code |
| --- | --- |
| `LeaveEarly`, `Upgrade` | the client leaves before `websocket_accept`; `websocket_accept` of `core.lua`, `network_be_end` |
| `BeRead`, `ReadNoMore`, `ReadEnd` | a turn of the loop of `websocket_be_read`, its end, the end of the stream |
| `WriteDone`, `WriteFail` | `websocket_be_write` |
| `Answered`, `TimeoutHandle` | `timeout_handle` and the 400 it sends in the middle of a frame |
| `MainCall`, `MainEnd` | the coroutine that called `websocket_accept`: `websocket_send`, `die`, its end, which looks at freed memory after `close_client` |
| `WatcherLoop`, `CheckClose` | the coroutine that repeats `loop()` and `check_websocket_close` |
| `ClientSend`, `ClientLeave`, `BeginExit` | the client, the end of the worker (external) |

`BeRead` is one step per message because the handler is called in the middle of
the loop and may itself send; `again` says that the loop goes on although another
callback is registered. The coroutines make one call per step, so that anything
may happen between two of them. `mixed` and `burst` are auxiliary: they record
that a send began with a frame half read, or that a `recv` went past the end of
a frame. A use of freed memory sets `stale` and ends the behaviour: nothing is
claimed of what follows it.

## 3. Runs

| Run | Question | Instance | Distinct states |
| --- | --- | --- | --- |
| `conn_all` | everything clients, timers and scripts can do, in competition for a thread: `TypeOK`, `CallbackFits`, `OneScript`, `ThreadsConserved`, `SendingIsCounted`, `GaugesDriftOneWay` | 2 clients, 1 thread, body of 2 pieces, 2 calls, every move | 822,682 |
| `conn_polite` | clients that only come and go: `ReadingIsCounted`, `ActiveIsCounted`, `PoolThreadsIdle`, `SuspendedIsServed`, `ProcessHasScript` | 2 clients, 2 threads (1 made at start), body 1, 2 calls | 46,785 |
| `conn_live` | every request ends, every left connection is freed: `Served`, `GoneIsFreed` | 1 client, 1 thread, body 2, 3 calls | 14,457 |
| `threads` | the list and the noted globals: `TypeOK`, `ListIsChain`, `ListedOnce`, `EveryGlobalNoted`, `PoolSpec`, `EndLeavesClean` | 3 threads, 3 cells, one noted and one unnoted name | 19,013 |
| `status` | the published sums: `TypeOK`, `GaugeIsSum`, `RingIsSum`, `TotalIsSum`, `RateNotOver`, `Published` | 2 workers, 2 starts, 2 connections, 1 request | 224,096 |
| `vhosts` | the list of hosts over reloads: `TypeOK`, `ListIsWhole`, `ListInOrder`, `TableIsLoaded`, `TableSpec` | 4 rules, 5 cells, 2 edits | 451,588 |
| `scripts` | what scripts share: `TypeOK`, `RoutedOnce`, `OwnGlobals`, `CodeFresh`, `ModuleRight` | 2 requests, 2 hosts, 2 files and 1 module each, 2 starts of 2 calls, 1 edit | 1,674,276 |
| `websocket` | one websocket from upgrade to end: `TypeOK`, `GaugesFollow`, `FramesWhole`, `SendGoesOn`, `GoneIsClosed` | 2 frames, long or not, and a close frame, 1 call after the upgrade | 1,268,282 |
| `conn_at_work` | refutes `PoolThreadsIdle` with timers | 2 clients, 1 thread | violation |
| `conn_writev` | refutes `WorkerNotStuck` | 1 client | violation |
| `require_nested` | refutes `ReturnedIsLoaded` | 1 request, 2 modules, one requires the other | violation |
| `vhosts_lost` | refutes `EveryRuleAnswers` | as `vhosts` | violation |

**Bounds and why they are enough.** `MaxBody` counts body pieces: 0, 1 and 2
tell apart "no body", "the last piece" and "more to come". `MaxOps` is the
number of library calls of one script: two calls give every ordered pair of
them with every event between, and the third of `conn_live` lets a script flush,
wait for the body and write again. Two clients are enough for a thread to change
hands and for a slot to be taken again; one thread makes them compete, two let
both scripts be suspended at once. The gauges may drift without limit where the
code miscounts; `MaxDrift` stops the two actions that let them (`ReadRefused`,
the double count of `ReadRequestBody`) after two. Three list cells are the
smallest list with a head, a middle and a tail. In `status` two connections
let a gauge rise twice and fall between two publications, and two starts give
either two workers at once or one that ends and starts again; `MaxJump = 1`
excludes turns of the event loop longer than a second, with which `RateNotOver`
fails. `Moves` says what clients,
timers and scripts may do: `conn_all` has all of them; `conn_polite` and
`conn_live` leave out those for which the property is known to fail, and the
properties' comments say which.

In `vhosts` the four rules are `*`, a wildcard, a longer one that it covers and an
exact name that both cover: the smallest set in which every precedence and every
place of insertion occurs; two edits let a host go and come back. The first
configuration is `*` and a wildcard (as in `host-route.lua`), `*` and an exact name, two
wildcards, or none. A lost cell is never used again, so each reload may lose more:
five cells are one more than there are rules, and `Room` lets a load begin only if
`malloc` has a cell for each host that may need one. In `scripts` two
requests interleave at each wait; a second of life is the shortest expiry, and
`MaxClock = 4` leaves time to load, edit, let the entry expire and find it stale a
second later; the edit comes between two requests, under a suspended one, or while the
file is loaded. In `websocket` two frames can be whole, halved, or received with one
another, either may be long, and one call lets the main coroutine send, short or long,
after the upgrade and go on or end when it is resumed. What more edits or calls could do
is left to the theorems, which have every bound.

The runs of `Scripts` disable the deadlock check because starts are bounded, `websocket`
because a connection ends. `status` disables it because starts are bounded and all workers
may have ended. `conn_all`, `conn_polite`, `conn_live` disable the deadlock check:
a worker really stops in `WriteNothing` (its loop never ends) and, when the
moves exclude timers, may wait for ever. Symmetry is used among connections,
in `LuaThreads` among threads and among cells, in `vhosts` among cells and in
`scripts` among requests, only in runs without liveness properties.

**Fairness** (`FairSpec`). Weak fairness of `Script(c)`: scripts make finitely
many calls and Lua executes until the next one. Of `Wake(c)`: a coevent call
returns, as each has a timeout. Of `TimeoutHandle(c)`: `add_timeout` arms a
timer with each connection and `update_timeout` re-arms it with progress, so one
that stays armed expires. Nothing is assumed of clients: they may stop reading
or writing at any point. `conn_live` leaves out write errors and uncaught
errors: section 6 says why `Served` fails with them. In `ServStatus` weak fairness
of `Clock` and `Sync`: time passes, and the event loop calls
`other_simple_jobs` in each turn, at most 10 ms after the last.

In `Websocket` weak fairness of the watcher (its calls return, its sleep of a
second ends), of the end of the loop of `websocket_be_read` (`recv` on a drained
socket says so), of `ReadEnd`, and, once the client has left, of the write
callback: the kernel then reports the socket. None of the timer, the client, or
scripts that go on after `websocket_accept`.

Every property is accompanied by a definition marked `Wrong:` next to the one it
alters, a plausible slip in the code that the property notices.

## 4. Proofs

`Connection_proofs` proves for any number of connections and threads and for any
bounds: `TypeCorrect`, `CallbacksFit`, `WritingGaugeIsExact`, `GaugesErrOneWay`,
`NoThreadLost`; `ReadingGaugeIsExact` if no request is refused while its header is
read (`oversize` and `nolength` are not in `Moves`) and `ActiveGaugeIsExact` if no
client stops in the middle of a body its script waits for (`bodyeof`). These are the
moves with which the gauges are known to drift (section 6), and no other has to be
left out: both hold with timeouts, write errors and errors of scripts. The invariant
`IInv` is the conjunction of what these theorems say: no part
is inductive alone, since a gauge is right after a step only if the callback that
ran fitted the status, and a thread is released once only if the status says
whose it is. The
argument is the same for each action: `Good(c, e, k)` says that
if connection `c` became `e` and the gauges became `k`, all would still be in
order. The functions that finish a request turn a good pair into a good outcome
(`CloseClientOutcome`, `EndProcessOutcome`, `BeEndOutcome`, ...), so that an
action is proved by showing that the pair it hands to the last call is good.
`CountSplit` reduces a gauge to "the others, plus this one", which is where
finite sets enter. Assumptions: `Conns` is finite, `NoConn` and `NoThread` are
not in the sets, the initial pool lists a thread once.

`ConnectionScripts_proofs` extends that module with where each script stands.
`OneScriptAtATime` (`OneScript`) holds with every move. `ReleasedThreadsAreIdle`
(`PoolThreadsIdle`), `SuspendedScriptsAreServed` (`SuspendedIsServed`) and
`WorkHasScript` (`ProcessHasScript`) assume that no timer, write error or uncaught
error cuts a script short; `conn_at_work` shows that the first fails otherwise.
The three need one another: a thread may be released because its script has ended,
which is known from the status and the header state of its connection (`Suits`), which
are right only if a suspended script is resumed by the callback it waits for.
`SInv` adds that a flush or a wait for the body has a thread (`Attached`), that
`next_proc` belongs to a send (`Sequenced`), and that a sleeping script has a
connection in STEP_PROCESS. Each of the actions is one of five kinds (`Quiet`,
`Starts`, `GoesOn`, `Leaves`, `Stuck`); what the kinds keep is proved once.

`ConnectionPool_proofs` proves `PoolIsThreadPool`: `Connection` with its `wk.pool` and
`wk.made` implements `ThreadPool`, with every move. As `LuaThreads` implements it
too (`ListIsQueue`), what `Connection` assumes of the pool is what the linked list
does. Every action gives back the thread of its connection at most (`Gives`) or takes
one (`Takes`); the case to exclude is `worker_process` answering a dead thread that it
has just taken, which ends nothing because the header of that request is not yet sent
and its socket is open (`SendErrorKeeps`).

`LuaThreads_proofs` proves `TypeCorrect`, `ListNeverBreaks`, `ThreadsListedOnce`,
`GlobalsAreNoted`, `EndOfRequestCleans` (a request that ends through
`network_end_process` leaves no noted global in its thread) and the refinement
`ListIsQueue` (`Spec => PoolSpec`). The
links alone do not say which cells are reached from `lua_thread_head`, and a
recursive definition of the reachable cells would be beyond the prover, so the
module carries the auxiliary variable `order`, the cells in the order they were
released. It is never read by the code's actions; `ListIsChain` ties it to
`head`, `tail` and `next` in every state, and the abstract queue is `L` along
`order`.

`Websocket_proofs` proves `GaugesAreRight` and `SendsGoOn` for any number of frames
and calls. Its `IInv` is built like that of `Connection`: `Good(e, k)` relates the
socket and the gauges it would leave. `GaugesFollow` needs the strengthening
`Callback`, which says what the registered callback implies: only a websocket
that is busy writes; one that reads is not busy; a timer that stays armed on a
closed socket finds it neither reading nor sending. `SendGoesOn` needs that, and
that a main coroutine can only wait for a payload it started itself. The steps of
the loop in `websocket_be_read` compose three lemmas, one for each function it
calls: `BeReadGood`, `CompleteGood`, `CallsGood`.

`TypeCorrect` and `FramesAreWhole` (`FramesWhole`) of the same module add an invariant
`FInv` on the bytes: the client's pieces form one stream, the reader stands at a frame
boundary (`Between`), behind a header (`Inside`) or behind a close frame (`Closed`),
and what has not been received is exactly the rest of the stream (`Pending`). A `recv`
past the end of a frame, and a send begun inside one, set `burst` and `mixed`, after
which nothing is claimed. Once a long message was given (`Lost`) the reader may be
anywhere, and only the messages before it are claimed, which nothing takes back. That
a callback for writing has an empty buffer (`Fresh`) is what keeps a frame from being
read under a send.

`Vhosts_proofs` proves `TypeCorrect`, `ListStaysWhole` (`ListIsWhole`),
`ListStaysInOrder` (`ListInOrder`), `LastLoadAnswers` (`TableIsLoaded`) and the
refinement `TableIsKept` (`Spec => TableSpec`) for any rules, roots, cells and files.
`IInv` adds to them what holds in the middle of a load: of the configuration the
hosts not in `todo` are loaded or lost (`IsLoaded`), `last_vcf` is the end of the list
(`LastRight`), a walk has passed only cells that do not match (`WalkRight`), and a list
with no name but `*` was such a list when the load began, or empty (`LoneRight`).
`ListInsert` and `OrderInsert` say once what linking a cell in at a place
does; the four ways of `Insert` only show that theirs is such a place
(`InsertKeeps`), and `LostKeeps` is the case in which it is none. `FirstIsBest` is the
refinement: every rule of `Live` that covers the host has a cell, the one found is the
first of them, and the order of the list makes the first the best. Nothing is assumed
of the first configuration. Assumptions: names are not empty and only `*` has length 1, hosts
that are asked for do not begin with `*`, `Null` is no cell, and the contents of the
file are configurations.

`Scripts_proofs` is about `Scripts` and `Require` together, for any number of requests,
hosts and modules. `TypeCorrect`, `RouterRoutesOnce` (`RoutedOnce`),
`ChunksSeeOwnGlobals` (`OwnGlobals`) and `ChunksAreFresh` (`CodeFresh`) follow from an
`IInv` that says of each request that, before it first waits, `lua_routed` and
`package.path` are its own and its fresh frames have its globals (`Fit`), and of each
entry of the code cache that a version it missed came after the last comparison
with the file, unless a modification time hides it that is no later than the one noted
(`Sound`). Between `ReadFile` and `StatFile` that is known of the file being loaded
because no time passes: what was written since it was read was written now
(`LoadOK`).
`FlatReturnsLoaded` proves `ReturnedIsLoaded`, which `require_nested` refutes, for
modules that require no others: the static buffer then holds the name that was asked
for. `ModulesAreRight` (`ModuleRight`) has a second invariant `MInv`: what is kept under a
name is the newest version or runs out less than a lifetime after the newest came
(`Held`), and the times of the slots are not in the future (`Dated`). Its hypothesis
`Undisturbed` is the deviations of section 6, each left out: modules that require
others, two names with one hash slot, a `require` after a wait, and 16 bits of time
that start again.

`ServStatus_proofs` proves `TypeCorrect`, `GaugeAddsUp` (`GaugeIsSum`), `RingAddsUp`
(`RingIsSum`), `TotalAddsUp` (`TotalIsSum`) for any finite set of workers, and
`RateNeverOver` (`RateNotOver`) if no turn of an event loop takes more than a second.
The three sums are inductive together with the types and with `Idle`: a process that
does not run has counted nothing, so that a restarted one enters the sums at zero. The
sums are folds of the community modules over a set of workers. That a fold adds its
terms needs induction over the set, which is done by sets instead of predicates:
a set of subsets that has the empty one and, with a subset, every one that is larger
by one element, has all (`AddingInduction`, from the library's well-founded
minimum). An additive function on the subsets exists (`AdditiveExists`), the fold
equals it (`FoldIsSum`), and so the sum changes by what its term changes
(`SumChanges`). `RateNotOver` needs `Rates`: what a worker counts and what it has
published for a slot are no more than its requests there, except in the slot of a
second that began and is not synced, which still has those of five seconds before.

Assumptions on the constants are the named `ASSUME`s of the modules: bounds are
natural numbers (`BoundsAssumption`), `None` is not the sentinel of `require`
(`ValuesAssumption`), the set of workers is finite (`WorkersAssumption`).

Every invariant and action property of a passing run is also a theorem; those with
hypotheses have them in their statement (`ASSUME ... PROVE`). Only model-checked:
liveness (`Served`, `GoneIsFreed`, `Published`, `GoneIsClosed`), since fairness and
ENABLED are out of the prover's reach. The four violations are traces and have
nothing to prove.

## 5. Not modelled

Running out of memory; child coroutines in `Connection` (they are in `LuaThreads`,
where their globals matter); positions in buffers, chunk framing and gzip;
logging. The Lua client libraries, the vendored C libraries and the supervisor,
which is in an absent submodule; `network_send_status` only reads.

* The shared cache (YAC) is third-party code that lets processes race on purpose
  and detects the result by a checksum. What a reader may see is a question about
  memory orders and hash collisions, and the checksum would have to be assumed.
* The caches of file lookups (`cached_access`) and of addresses: one table each
  whose slots are overwritten. `Router` may find a page or not at any time.
* Which rule `router()` selects: the first hundred rules, the one with the most
  groups, then the longest, after a prefix test that respects case although the
  expression does not. It is a pure function of a regular expression engine.
* The parser of multipart bodies (`read_post_field_chunk`): it works on bytes.
* In `Websocket`: an upgrade before the body of the request is read, headers that
  arrive split, frames of 4 GiB or more (whose length becomes another wrong one), and
  TLS (websocket frames are received and sent on the bare socket). A script that echoes
  something before `websocket_accept` is left out too: `network_be_end` then counts a
  sender and registers `network_be_write` for what is queued (`network.c:590-702`),
  after which `websocket.c:396` sets STEP_WAIT and the frame callback.
* In `Scripts`: files that do not compile, and a code cache with lifetime 0.

## 6. What the models show to be wrong

* **A thread is given away at work** (`conn_at_work`). `timeout_handle`
  (`worker.c:152`) sets STEP_WAIT and closes a connection in STEP_SEND although
  its script is suspended in `flush` or `echo`. `close_client` releases the
  thread; its own check for that case ("at working!!!", `worker.c:112`) looks at
  a status that was just overwritten. The next request of that thread resumes
  the old script in the name of another client. A read timeout inside
  `read_request_body` and a write error of the first flush have the same effect.
* **A worker can hang** (`conn_writev`). `flush()` after `header()` with nothing
  echoed starts a send of no bytes; `writev` returns 0 and the loop of
  `network_be_write` (`network.c:1282`) never ends.
* **A module that requires another is lost** (`require_nested`). `cache_name` points
  into a static buffer (`lua-require.c:30`). The inner `require` overwrites it, so
  the outer module is stored under the inner name; under its own name stays the
  sentinel, and the next `require` of it fails with "loop or previous error" until
  the slot expires.
* **A virtual host is lost** (`vhosts_lost`). If Lua lists `*` before a wildcard and
  nothing else is in the list, the wildcard is put before `*` but the head is not
  moved (`vhost.c:199`): no lookup finds it and `*` answers, as for the `*` and `*z.com`
  of `host-route.lua:9-10`. Each reload loses it again, in a new cell, until an exact
  name joins the list.
* **An edit is never seen** (no run of its own: `CodeFresh` excepts it). `loadfile` reads a file and then asks for
  its time (`core.lua:458`, 467; `loadtemplate` 502, 506). A file written between the
  two is noted with its own time and the old chunk, which is called until a still newer
  file comes.
* **Long messages are broken** (no run of its own: `FramesWhole` excepts them). The 64-bit length of a frame of
  64 KiB or more is copied in network byte order and cut to an `int`
  (`websocket.c:111`, 119). It becomes 0, the handler gets an empty message, and the
  payload is read as the next frames.

Properties hold with the following deviations, which their comments name: a
request refused while its header is read stays counted as Reading
(`network.c:911`); a client that stops before any byte of an awaited body is
counted out twice (`lua-ext.c:701`); a script that raises an uncaught error
after it was resumed is never answered; after a write error of the first flush
`send_then_send` flushes again and again; `close_client` without
`network_end_process` leaves a request's globals in the thread (`EndLeavesClean`
says nothing of it), and so do names with an underscore among their first
two characters, long names, and child coroutines; a worker that exits leaves its
ring of requests per second in the sums (`RingIsSum` counts it under `gone`),
and requests that arrive in a second before its first `sync_serv_status` are
cleared away uncounted.

In the list of hosts: `auto-reload-vhost-conf` below 10, which the
configuration file says disables reloading, is not multiplied by 1000
(`vhost.c:135`), so the file is loaded every few milliseconds once a timer exists;
and a reload writes over the root a suspended request points to (`vhost.c:315`).

Between scripts: `RoutedOnce`, `OwnGlobals` and `ModuleRight` hold until a script
first waits. After a wait `lua_routed`, the globals of a chunk that another
request has loaded meanwhile and `package.path` are those of that request. A
module expires per hash slot, so that two modules may share a time; the time is
kept in 16 bits and a module loaded shortly before they start again does not
expire for hours; while the file of an expired module is missing, the first
`require` raises an error and the next returns the old module. An entry of the
code cache whose file is gone is compared with nil once it is old, which ends the
script (`core.lua:451`).

In websockets: a long message sent by `loop()` suspends the watcher for ever, as
only the main coroutine is resumed (`websocket.c:252`); after a write error the
socket is closed but not marked as ended and stays busy, so the watcher never
ends (218); a long message sent while a frame is half read leaves the Reading
gauge counted and corrupts the frame (87), and one sent by the handler lets the
loop go on receiving under it (185); what a `recv` brings after the end of a frame
is dropped (159); the timer frees the connection under the watcher
(`worker.c:165`); the watcher gives itself back to the pool, not the thread of the
connection (442); an upgrade while the worker exits uses a freed connection
(389), and so does the end of the main script after the timer closed it
(`lua-ext.c:534`); `websocket_send` reads `epd->websocket` before it checks that there is one
(497).

## 7. Plan

Written: every module of section 2. Next: the header of a response apart from its
body in `Connection`, for the early answers that are sent without one
(`network.c:1014`), with its theorem.
