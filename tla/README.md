# A TLA+ model of FastRAPI

FastRAPI is a Python web framework whose server, router, dependency injection
and WebSockets are written in Rust (`src/src/`, tokio + axum + PyO3). This
directory holds TLA+ modules translated from that code, TLC configurations that
model-check them, and theorems about them checked by TLAPS. `PROJECT.json` lists
the components, the runs, the source lines of every definition, the hazards of the
code and the theorems. Paths below are relative to `src/src/`.

The repository's `README.md`, `examples/` and the Python tests (`tests/`) were used to
learn what the code should do; every definition is translated from the Rust source.

## 1. Inventory

| Component | State it keeps | Operations | What makes it correct |
|---|---|---|---|
| WebSocket connection (`http/websocket.rs`) | two bounded mpsc channels, `is_connected`, the socket | `handle_connection`, `socket_pump`, `send_*`, `close`, `receive_*` | each direction is FIFO without loss or duplicate; every waiting call ends with the connection; nothing after a close |
| Rate limiter (`engine/server/rate_limit.rs`) | `RATE_LIMITS`, a concurrent map of windows | `is_rate_limited` | what any second can admit; a refusal is the client's own doing |
| Router registry (`ffi/decorators/*`) | `frozen`, `route_entries`, `sub_routers`, `cached_flat` of each router | decorators (created, then applied), `include_router`, `nest`, `freeze`, `flatten`, `openapi` | a frozen tree stays as it is and can be walked; documents describe what is served |
| Routing table and dispatch (`routing/router.rs`, `engine/server/routes.rs`, `dispatch.rs`) | axum's router, `FrozenRouter` | `build_router`, `resolve`, `dispatch`, `dispatch_path` | the handler that answers was declared for the request; literals before parameters; order is irrelevant |
| Dependency injection (`routing/dependencies.rs`) | `flat_plan`, `visited`, `results_registry` | `parse_dependencies`, `execute_dependencies*` | arguments come from the right callable, computed before; cached ones are called once |
| Handler execution (`ffi/py_handlers.rs`) | the future of each request, its jobs on the blocking pool or the loop | ten `run_py_handler` modes | a request is answered or dropped; errors end the plan |
| Background tasks (`engine/background.rs`) | the list in `PyBackgroundTasks` | `add_task`, `execute_all` | run after the handler, once it returned, all of them |
| Server lifecycle (`engine/server/serve.rs`, `lifecycle.rs`) | the server thread's progress, the asyncio loop, the entered lifespan | `serve`, startup and shutdown phases, `stop_background_asyncio_loop` | requests only between startup and shutdown; hooks in pairs; the server returns |
| Reload supervisor (`engine/server/reload.rs`) | the child process, the watcher's channel | watch, spawn, stop, drain, check, receive | one child at a time; which edits reach it; what ends the supervisor |
| Parameters, validation, payload (`ffi/pydantic.rs`, `routing/params.rs`, `routing/types.rs`, `engine/server/payload.rs`) | none across requests | signature parsing; extraction from path, query, headers, body | every parameter gets its own source's value, or 422 |
| Responses and streams (`http/responses.rs`, `types/response.rs`, `ffi/py_handlers.rs`, `engine/server/routes.rs`) | cached responses, iterators of streams | conversion, precomputing, streaming | a result is converted alike on every way a route is served and on every thread; errors and closed connections have a reason; chunks complete and in order |
| Request object (`http/request.rs`, `ffi/datastructures.rs`) | the body cell, the position in an upload | `body`, `json`, `read`, `seek` | the body is read once |
| Middleware (`http/middleware/*`) | configuration of tower layers, a list of Python callables | `execute_py_middlewares`, the layers `build_router` adds | the first callable that answers is the answer |
| Static files and frontend (`engine/server/files.rs`, `http/staticfiles.rs`) | none | path checks, file reads | nothing outside the directory |
| OpenAPI (`utils/openapi.rs`) | none | `build_openapi_spec` | modelled as far as it freezes and flattens routers |
| Security helpers, metrics, JSON, exceptions, status codes | none, or one recorder of an external crate | conversions | pure functions |

How they interact:

- Python declares routes on `PyAPIRouter`s (under the GIL). `serve` calls
  `build_router`, which freezes and flattens the tree and splits the flat routes in
  two tables: endpoints of axum, and the `FrozenRouter` that the fallback uses.
- When a decorator is applied, `parse_dependencies` walks the handler's `Depends`
  and stores a flat plan with the handler.
- `serve` starts two threads: one runs the asyncio loop, the other the tokio runtime
  with the startup phase, axum, the graceful shutdown and the shutdown phase.
- A request is a tokio future. It passes the limiter, then executes its plan as jobs
  on the runtime thread, the blocking pool or the asyncio loop, and awaits each. A
  timeout layer or the client's departure drops the future but not the job.
- What a handler returned is converted to a response by one of four ways that
  `build_router` chose when it built the tables, on the thread of `serve`, of the
  request or of the blocking pool, which decides what a panic of the conversion becomes;
  a stream is then pulled from its iterator chunk by chunk while the graceful shutdown
  waits for it.
- With `reload=True` the process is a supervisor instead: it runs the program as a
  child and replaces it when the watcher of the file system reports a change.
- A WebSocket is a tokio task that runs `select!` over the pump and the handler's
  coroutine, with two bounded channels between the pump and the Python tasks.

What is hard in it: the interleavings of the pump, the channels and several asyncio
tasks; futures dropped at an await while their job goes on; the order of shutdown
(drain, stop the loop, hooks); decorators that are created before a freeze and
applied after it; two routing tables that must agree; cycles and sharing in the graph
of dependencies; the boundary between two windows of the limiter; events of the file
system that race with the restart they cause; four ways to convert one result. `hazards` in
`PROJECT.json` lists each at its line, with the properties that watch it.

## 2. Modules

| Module | Models | Built on |
|---|---|---|
| `Duplex` | abstract: what a WebSocket promises to both ends | |
| `WebSocket`, `MCWebSocket`, `WebSocketProofs` | one connection | implements `Duplex`; `Selection` |
| `RateLimit`, `MCRateLimit`, `RateLimitProofs` | the limiter | |
| `RouterRegistry`, `MCRouterRegistry` | routers and decorators | |
| `Dispatch`, `MCDispatch` | the two tables and a request | `Selection` |
| `RoutingProofs` | proofs of `RouterRegistry` and `Dispatch` | both, `SelectionProofs` |
| `Dependencies`, `MCDependencies` | `Depends` | |
| `Binding`, `MCBinding` | signatures, payloads and arguments | `Selection` |
| `ArgumentsProofs` | proofs of `Dependencies` and `Binding` | both, `SelectionProofs` |
| `Lifecycle` | `serve` with a set of open requests; also the abstract specification of `Execution` | |
| `Execution`, `MCExecution` | requests, jobs, streamed bodies, background tasks | composed with `Lifecycle` |
| `ExecutionProofs` | proofs of `Lifecycle` and `Execution` | |
| `Selection`, `SelectionProofs` | the elements of a sequence that are in a set, in their order; induction | |
| `Responses`, `MCResponses`, `ResponsesProofs` | what the client is sent for a result | |
| `Reload`, `MCReload`, `ReloadProofs` | `serve(reload=True)` | |

Each module has one action per operation of the code. Definitions headed by a comment
"Mutant" are deliberate mistakes: each property is shown to fail when one of them
replaces the definition it belongs to.

### WebSocket

`toPython` and `toRust` are the channels, `pump` says whether `socket_pump` waits in
its `select!` or holds a message inside one of the branches (pushing it to the
application or writing it to the socket); while it holds one it serves nothing else.
`conn` is the progress of `handle_connection`. A call of an asyncio task is in two
steps, its start and its completion; `sendQueue` is tokio's FIFO queue for channel
permits and `recvQueue` the queue for the mutex around the receiver. The socket is
external: two bounded buffers and a peer that sends, reads, closes or vanishes.
Text and binary messages are one kind (a receive of the wrong type consumes the
message and raises).

`Duplex` is the abstract specification: two FIFO channels and a cut, at which each
direction loses a suffix. The refinement maps the message the pump holds, and the
frames it has not read yet, to messages in flight (`Inbound`, `Outbound` and `Abstract`
in `WebSocket`); pings, which the pump answers itself, are no messages there.

### RateLimit

The three steps of `is_rate_limited` are three actions: `Enter` (the entry's guard
locks the map's shard and creates the bucket), `Lock` (the bucket's mutex, then the
clock is read), `Decide` (the window is reset, compared and counted). The clock ticks
between any two of them. `admitted` is a history of the instants of admission, on
which the properties are stated.

### RouterRegistry

A decorator is created (`CreateDecorator`, where the flag is read and its callbacks
are flattened) and applied later (`ApplyDecorator`, where the route is pushed).
`Reach` is the set of routers the depth-first walk pops; `Walk` is the list it
returns, as a recursive function on the depth. `alive` becomes FALSE when a walk does
not end (a cycle: there is no visited set and the GIL is never released).

### Dispatch

A path is a sequence of segments and whether a slash ends it. All segments have one
width, so a byte range of a path is a range of segments: that is enough to see an
offset that was measured in one path and applied to another. `Exact` says which
routes become endpoints of axum; `Static` and `Pattern` are the two parts of
`FrozenRouter`; `Answered` is the whole way of a request. What axum and matchit do
(405 when a path has endpoints but none for the method, literals before parameters,
HEAD answered by GET) is external and modelled from how the code uses them. Websockets
with parameters, static mounts, the frontend's files and the layers are left out.

### Dependencies

The recursion of `extract_and_flatten` is an explicit stack: `Reuse` is the early
return for a callable in `visited`, `Descend` a recursive call, `Return` the push of
the node, `Overflow` the end of the thread's stack (nothing detects a cycle).
`Parsed` pops the handler's node. Then one request after another executes the plan.
Scopes, and what a dependency takes from the request, are left out.

### Binding

`Parse` is `parse_parameter_spec`, `Signature` the part of `parse_route_metadata` that
keeps or skips a parameter. A request is lists of named texts, one for each place, and
a body; a text only says whether it converts and whether it keeps a constraint. An
argument is the place it was taken from, so that the properties can tell whose it is.
`Receive` to `Extract` is the body up to `extract_payload`; `Bind` is one turn of the
loop of `apply_request_data`, `BindMember` and `BindField` one of the loops over the
body; every refusal is the early return at its place. The annotation `UploadFile | None`
("upload?") has no `__name__`: `parse_parameter_spec` goes by its text and finds an upload
for the body, `is_file_param` asks for `__name__` only and finds no file. Which dependency gives what is in
`Dependencies`; here `plan` only has the names the dependency plan takes.

### Lifecycle and Execution

`Lifecycle` is the server thread as a program counter (`phase`), its hooks, the
asyncio loop's thread, and the requests as a set. `Execution` refines a request into
its plan of jobs (`PlanOf`, from `assign_execution_mode`); `Continue` submits the next
job when the last returned, `Answer` responds, `Drop` is a timeout or disconnect,
possible only while the future awaits (not while a job runs inline). Every step of
`Execution` is a step of `Lifecycle` or leaves its variables alone, which
`ImplementsLifecycle` proves. Background tasks of a sync handler are spawned in its
job, those of an async handler by the future, after the await: hence only the latter
are lost when the request is dropped. Whether there is a `lifespan=` and what
`sync_to_threadpool` is are variables that no step changes, so one run has all of them.

A `StreamingResponse` continues its request: `StartStream` converts it (and panics where
there are no task locals, which for an async handler loses its background tasks; the
outcome "error" stands for whatever the client is then sent, which `Responses` tells
apart, and the process goes on, as in a build that unwinds),
`PullSync` is one turn of the loop over `__next__`, `Ask`, `Produce` and `Deliver` one
over `__anext__`, whose coroutine runs on the loop's thread; `Leave` is the client that
goes. The iterator is external: it gives text or bytes (a chunk), another value, which
is skipped, or its end.

### Responses

One route of one handler. `Handler` is what the decorator kept of its annotation,
`response_class`, `response_model`, `status_code`, `cache_response` and mode; a result
is its class, its status and whether its content can be read. A body is what it shows:
the JSON, text or HTML of the response, `error` for the detail of an exception, `name`
for the text that `str()` gives of an object. `ByType` is `convert_response_by_type`,
`Specialized` the way of `str` before it, `Fast` the way of
`render_no_request_json_response`, `AutoResponse` that of a middleware's answer. `Build`
is the part of `build_router` that calls a cached handler, `Replay` and `Call` a
request, `Refuse` a Python middleware that answers itself. Headers, media types and
redirects to an address that is no header value are left out.

Every conversion has its thread: that of `serve` ("main", where `build_router` runs), the
request's own task, or the blocking pool (`Place`: middlewares, and sync handlers under
`sync_to_threadpool`). The one for which it matters is that of a stream, which asks
pyo3-async-runtimes for the locals of the current asyncio task and unwraps the answer
(`http/responses.rs:615`). `locals` is the set of threads that have them: that is decided
outside the repository, so every set is allowed. Without them the conversion panics
(`Panicked`), and `Caught` and `Survives` say what follows: a job of the pool is answered
500 by the error of its `JoinHandle` (`ffi/py_handlers.rs:330, 403, 484`,
`http/middleware/mod.rs:138`), `CatchPanicLayer` answers 500 for a panic of the task
(`engine/server/routes.rs:437`), without it the connection is closed with no answer, on
the main thread `build_router` does not return, and in a build with `panic = "abort"`,
as the release profile has it (`Cargo.toml:60`), the process ends.

### Reload

`pc` is the supervisor: its steps are those of the loop in `run_reload_supervisor`, with
`stop_child`, `spawn_reload_child` and every turn of the drain as steps of their own,
because the watcher sends between any two. `notices` are events the file system has and
the watcher has not read, `queue` the channel. A child reads its files one at a time
(`Load`); `copy` says whether what it has read of a file is current or old: numbers for
the versions would say no more, since only the last one counts. `lost` is a history of
the files the child runs an old version of and whose event was drained. `reportsReads`
tells the platforms whose watcher reports the reading of a file from those that do not.
Paths are sequences of names; what a glob matches is a constant.

## 3. Runs

| Run | Configuration | What it shows |
|---|---|---|
| `websocket` | three tasks: the handler sends and closes, one sends and receives, one only receives; queues and buffers of 1; 2 frames, 2 sends | `ImplementsDuplex`, `CloseIsLast`; what the client is sent is a prefix of what was accepted; every call ends with the connection; the outbound queue drains, under which assumptions; a vanished peer is noticed |
| `websocket_echo` | violation | see Findings |
| `rate_limit` | 2 threads, 2 clients, limits 0 and 2, 2 ticks a second, 4 ticks | `SlidingBound`, `RefusalJustified`, the inductive `WindowInv` |
| `registry` | 3 routers, one of them webhooks; 2 entries, 2 mounts, 2 serves | freezing is closed and acyclic; documents agree with routes; the first serve is current |
| `registry_frozen` | violation | see Findings |
| `dispatch` | every list of at most 2 of 14 declarations, 15 paths, 4 methods, with and without `root_path` and `redirect_slashes` | who answers, with which arguments, in whatever order of declarations, and why no one does |
| `dependencies` | every graph of a handler and 3 callables, at most 2 parameters each, one cycle; stack of 6 | the plan and what the handler is given |
| `execution` | a sync handler on the pool, a sync one inline that streams, an async one with a sync and an async dependency, an async one that streams, each beside a simple async one; with and without `lifespan=`; 2 background tasks, 2 chunks, 1+2 hooks | tasks follow their handler and run; bodies are complete, and nothing is asked of an iterator whose client has left; requests stay within the lifespan and end; hooks are paired; the server returns; the loop stops |
| `binding` | 16 signatures, 3 configurations of limits, 2 112 requests: values at every place, bodies of every kind | what a handler is called with, or why it is refused; no argument over the limit of the parameter it was sent for |
| `reload` | two files, one in an ignored directory; 2 edits, each with one event or two, of one file or both; 1 fault; 3 events under way | one child at a time; a stale server is explained; what ends the supervisor; edits reach the server |
| `responses` | 264 handlers under 8 settings, any of the three threads with task locals, every class of result, codes that are treated alike left out | every way and every thread converts alike, a response object on the fast way and a stream without task locals apart; every server error and every closed connection has a reason |
| `responses_kept` | violation | see Findings |

Bounds. They are constants of the modules and appear as guards: `MaxFrames`,
`MaxSends`, `MaxClock`, `MaxEntries`, `MaxMounts`, `MaxServes`, `MaxRoutes`,
`MaxDepth`, `MaxTasks`, `MaxChunks`, `MaxEdits`, `MaxFaults`, `MaxNotices`. Channels of
one message make full and empty channels the
normal case, which a thousand messages would only delay; two senders and two
receivers are what it takes to queue for a permit and for the lock. Four ticks hold
two windows and the boundary between them. Three routers hold a chain, a diamond with
two mounts and a cycle. Two routes hold every conflict of a pair, which is what the
two tables resolve; properties about three or more reduce to pairs. In `binding` sizes
are 1 to 4 and limits 1 to 3, so that every limit is met and passed, and the signatures
are the ones in which two rules claim one parameter. Two background
tasks make order matter, and of two chunks one can be under way while the other was
sent. Two edits are the one that restarts the server and the one that races with that
restart; three events are both of an edit and one more. The properties proved below hold
without these bounds.

`CHECK_DEADLOCK FALSE` is in every configuration but that of `binding`: a finished
connection, an exhausted
clock, a crashed parser and a process that has ended really stop.

Fairness. `WebSocket!Fairness`: tokio polls a future that is ready, so a step that
stays possible is taken (weak fairness); `select!` tries its branches in random order,
so the two branches of the pump get strong fairness. Nothing is assumed of the client
or of the application: where a property needs a client that reads or a task that
keeps receiving, the premise is in the property itself (`ClientKeepsReading`,
`SomeTaskKeepsReceiving`). The premise asks for a task that *only* receives, because
one that also sends can wait for room in the outbound queue while the pump waits for
that same task to receive: the two then wait for each other until the connection ends.
`Execution!Fairness`: threads run, the application's code returns or raises, and the
blocking pool is first in first out. Requests, signals, drops and the end of the
process are never forced. An iterator is assumed to end, as the handler is assumed to
return: one that does not holds the graceful shutdown for ever.
`Reload!Fairness`: the supervisor, the thread of the watcher and the child that reads
its files go on; edits, faults and the end of the watcher are never forced.

Type invariants. Those of all modules are proved, most as a part of an inductive
invariant, and none is listed in a configuration.

## 4. Theorems

`tlapm` checks every proof; each assumes only the ASSUME of its module (the types of
the constants; in the registry also that there are finitely many routers, in
`WebSocket` finitely many tasks, and in `Binding` that the parameters of a handler have
different names, as Python demands, and that the values that stand for "no limit" and
"no name" are not limits or names). Every safety property of a passing run is the
statement of a theorem.

`SelectionProofs` is what the others share. The induction theorems of the library take
a predicate as a parameter; here `Induction` is stated with a set, from the
library's well-foundedness of `<`, and so what a recursive function yields can
be proved after all: `Unfolds` shows that the function behind `Only` exists,
`OnlyType`, `OnlyAppend`, `OnlyTail`, `OnlyHas` and `OnlyHasNoMore` what it selects.
That is why the models use `Only` and not `SelectSeq`. `Recursion` is the same for any
function whose values are each made from the one before, given as a function and not as
an operator; `FlattenSeq` and `Walk` are instances.

- `WebSocketProofs`: `TypeInvariance`, `CloseInvariance`, `DeliveryInOrder`, for any
  tasks and capacities. Types need that no task waits twice (`QueueInv`): then a call
  that completes leaves the one queue it is in. `CloseInv` follows a close message from
  the socket through the pump and the channel to the application: wherever it is, it is
  the last thing there and nothing is left behind it. `Accounted` splits what was
  accepted into what was delivered, what the pump has in hand and what the channel
  holds; the prefix is not inductive without it. `ConnectionIsDuplex` proves that the
  connection implements `Duplex`: initial states map to initial states, and every step
  to one of a channel, to the cut or to a stutter. A ping leaves both sides alone
  because `Only` drops it; a message that moves from the socket to the pump's hand to
  the channel stays at its place of the abstract channel.
- `RateLimitProofs`: `TypeCorrect`, `WindowCorrect`, `SlidingCorrect`,
  `RefusalCorrect`. The inductive invariant is `WindowInv`: one thread in a shard,
  which has seen no instant older than its key records, and the `count` of a window
  splits the history of its key in admissions inside the window, admissions before it,
  and, one full limit further back, admissions a whole second before it. Neither bound
  is inductive without that split.
- `RoutingProofs`, of the registry: `FreezingIsClosed`, `FreezingIsAcyclic`,
  `PublishingIsServing`, `FirstServeCorrect`. A frozen router's mounts never change and
  are frozen, so what it reaches never changes; what was walked once to its end has no
  cycle and never gets one. `FlatteningIsWhole` is about what such a walk yields: below a
  router without a cycle every step down leaves fewer routers to reach (`FewerBelow`), so
  a walk as deep as there are routers is the whole walk (`WalkIsWhole`): the depth that
  the model gives to `Walk`, and the code does not, loses nothing.
  `RegistryTypesAreRight` types the lists.
- `RoutingProofs`, of a request: `AnswersAreOwnRoutes`, `StaticAlwaysBeatsParams`,
  `ArgumentsAreFromPath`, `UnservedAlwaysExplained` and `OrderNeverMatters`, for any
  routes, paths and methods. `DispatchInv` says that every answer is `Answered` of the
  routes that were built and the request, so the theorems are about that function:
  its cases (`AnswerCases`, `FallbackCases`), what each of the two tables can hold
  for a path, and that `Before`, the order in which matchit prefers patterns, leaves one
  winner (`PatternIsOne`). `OrderNeverMatters` needs the most: a permutation of the
  routes permutes every index (`ResolveShuffled`, `OutcomeShuffled`).
- `ExecutionProofs`, of `Lifecycle`: `LifecycleInvariance` (the phases in order), and
  from it `RequestsStayWithinLifespan` and `HooksArePaired`, for any number of requests
  and hooks.
- `ExecutionProofs`, of `Execution`: `ExecutionTypeOK`, `TasksFollowTheirHandler`,
  `ChunksReachTheirClient` (any applications, iterators and bounds; its part about the
  steps, that nothing is asked of an iterator once the future is gone, is `EndedIsNotPulled`),
  `ImplementsLifecycle` (initial states to initial states, each step to a step or a
  stutter) and, through it, `ExecutionWithinLifespan`.
- `ArgumentsProofs`, of `Dependencies`: `PlanInvariance`, `InjectionsAreRight`,
  `CachedDependenciesAreShared`, for every graph, cyclic ones included. The invariant
  `PlanInv` says what the stack has collected for each call (`SubsRight`), that each
  call waits in its caller's next parameter (`Links`), what `visited` means
  (`VisitedRight`, `Remembered`, `Unvisited`), and `Nested`: a function that appears
  twice in the stack has got further in the lower call. A call that returns has all its
  parameters, so by `Nested` its function is nowhere below, so `visited` is not written
  for a function that is still being visited, so a cached callable has one node.
  `UncachedAreFresh` counts users: a node or a call that has not returned
  (`FreshInv`); a node that is not cached is in no `visited`, so only the call that
  descended to it can use it. `HandlerIsGivenItsOwn` follows the topmost call
  (`TopInvariance`): the nodes at the top level are those that the handler's own
  parameters made, one for each, and a request has those it has executed, each once
  (`GivenAsExecuted`). `TypesAreRight` is `TypeOK`.
- `ArgumentsProofs`, of `Binding`: `EveryArgumentIsRight`, `EveryRefusalIsExplained`,
  `LimitsAreKept`, `BindingTypesAreRight`, for any signatures, limits and requests, all
  from `BindingInvariance`. `BindInv` is inductive because it speaks of the parameters
  the loops have passed (`Progress`): each has an argument that suits it, and a later
  one never takes its name, since names differ (`GiveFacts`). The loop over the body
  begins where the other has passed every other parameter. `Within` is what
  `extract_payload` let through, at the moment when it is used; that multer's limit for a
  name is the one of the last parameter that answers to it (`LimitOfClaimant`) makes it the
  limit of `LimitsHold`, with no assumption on the names; `Explained` is the reason
  of a 422, which stays true after the refusal because nothing it reads changes.
- `ReloadProofs`: `ReloadInvariance`, `OneChildAtATime`, `StaleIsExplained`,
  `SupervisorEndsForCause`, for any files, settings and bounds. `StaleExplained` is
  inductive only with what `SupervisorInv` says of each step (who runs, and that nothing
  was lost before the drain): an event is lost only where `Drain` reads the state of the
  very child it was meant for.
- `ResponsesProofs`: `ResponsesInvariance`, `ConversionIsAlike`, `ErrorsAreExplained`,
  for any handlers and results and whichever threads have task locals. The invariant adds
  that the response kept by `build_router` is already one of those the handler accounts for.

Only model-checked: liveness, which is out of reach of the prover, as is ENABLED
(`CallsEndWithConnection`, `OutboundWaitsForBacklogOnly`, `OutboundDrains`,
`VanishedPeerNoticed`, `RequestsFinish`, `TasksRun`, `InterruptedServerReturns`,
`LoopStopsWithServer`, `ReloadsSettle`).

## 5. Findings

- `websocket_echo`: `send_text` and `close` return once the message is queued, and
  `select!` drops the pump as soon as the handler returns (`http/websocket.rs:67`): the
  echo handler of the tests can end before its reply is written.
- `registry_frozen`: the flag is read when a decorator is created, not when it is
  applied (`ffi/decorators/init.rs:219`): a frozen router still gets routes.
- `responses_kept`: a sync handler without parameters is answered by
  `render_no_request_json_response` (`engine/server/routes.rs:585`), which does not know
  response objects: the `JSONResponse` it returns is sent as the JSON string of its
  `str()`, with the status of the route. With the annotation `PlainTextResponse` it is
  answered 500 (`ffi/py_handlers.rs:46`).

Two more disagreements with `README.md`, which the properties name in their comments:

- `README.md:79-98` has `@app.post("/echo") def echo(data)` answer with the JSON body it
  is sent. A parameter with neither annotation nor Param class is a query parameter
  (`routing/params.rs:181`), so that request is answered 422. The signature is one of the
  run `binding`; `RefusalExplained` says where the code looks for the argument, and
  passes because the query lacks it.
- `README.md:339` lists `StreamingResponse` with "Full support (async & sync generators)".
  A stream converted on a thread without task locals panics, with the outcomes listed
  under Responses (`http/responses.rs:615`). `ConvertedAlike` and `ErrorsExplained` have
  that as an exception of its own; which threads lack the locals is not decided in this
  repository.

Other facts the models show and no document contradicts:

- Where two parameters of a form answer to one name, one by its alias and one by its own
  name, multer keeps the limit set last (`engine/server/payload.rs:180-184`): a text may
  be as long as a file, or a file is held to the limit of a text. `LimitsHold` states the
  limit of the last one for both.
- `UploadFile | None` makes a parameter of the body whose files are held to the limit for
  texts (`routing/params.rs:162`, `engine/server/payload.rs:211-224`).

- A handler without parameters becomes an axum endpoint of its path
  (`engine/server/routes.rs:155`), and axum answers 405 for the path's other methods,
  whose handlers with parameters are never reached. Two handlers without parameters on
  one method and path make `merge` panic (`routes.rs:148`).
- Path parameters are cut at wrong offsets under a `root_path`; the limit of a route
  without parameters is ignored.
- A second parameter of the handler that names a cached callable already in the plan
  does not get its result (`routing/dependencies.rs:187`): the node keeps the level and
  name of its first use. `Binding` shows what it gets, its own default, the `Depends`
  object. A cycle of `Depends` exhausts the stack (`dependencies.rs:249`).
- Background tasks of an async handler are lost with a dropped request, or when the
  conversion of its stream panics; a failed startup leaves the loop's thread running.
- An event that the drain after a restart throws away can be the only one about an edit
  the new child has not seen (`engine/server/reload.rs:62`). Where the watcher reports
  reads, every child triggers the next one (`reload.rs:96`): `ReloadsSettle` has that as
  its premise.
- A redirect is 308 for 301 and 307 for any other status (`http/responses.rs:567`), so a
  303 after a POST repeats the POST. A cached handler that fails once while the routes are
  built fails for every client.

## 6. Not modelled

- The request object and uploads: getters of one request's own data.
- The layers of middleware: configuration of tower-http, whose code is external; of the
  Python middlewares, that the order is the iteration order of a hash map
  (`engine/server/routes.rs:303`) is seen only as "some middleware answers".
- Static files and the frontend: the file system decides.
- The rendering of the OpenAPI document, JSON, security helpers, metrics, status codes:
  pure functions of data, or counters of an external crate.
- Websockets in the routing table, static mounts; what a dependency takes from the
  request itself.
- Headers and media types of responses; the wording of errors.

## 7. Plan

Done, in this order because the earlier ones carry the concurrency that tests reach
least: `WebSocket` with `Duplex`, `RateLimit`, `RouterRegistry`, `Lifecycle`,
`Execution`, `Dispatch`, `Dependencies`, `Binding`, streams (in `Execution`), `Reload`,
`Responses`.

What would come next: a composition of `Dispatch`, `Binding` and `Responses`, so that the
outcomes of one request are those of all three.
