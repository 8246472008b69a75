# A TLA+ model of PraaS

PraaS runs functions inside long-lived *processes*. A **control plane** accepts
requests over HTTP, creates processes in containers, swaps them out and back,
and forwards invocations. A **serving layer** starts and stops the containers.
Inside each container a **process controller** runs invocations on a pool of
function workers, keeps a mailbox for messages and state, and exchanges messages
with the control plane, with clients and with other processes. This directory
holds TLA+ modules for these parts, TLC runs on small instances, and TLAPS proofs
for instances of any size.

## 1. Inventory

| Part | Source | State | Operations | Module |
|---|---|---|---|---|
| application | `control-plane/src/application.cpp` | active, swapped and control-plane processes, three mutexes | add, swap, swapped, closed, delete, get_controlplane_process, listings | `Application`, `Invocations`, `Rest` |
| process object | `control-plane/src/process.cpp` | status, connection, swap location, creation callback, invocations, mutex | connect, close, swap, add/send/finish invocation, created_callback, metrics | `Application`, `Invocations`, `Rest` |
| TCP server | `control-plane/src/tcpserver.cpp` | pending processes, connection contexts, two counters | add_process, connection, disconnection, closure, swap confirmation, results, framing | `Application`, `Invocations`, `Framing` |
| HTTP server, workers | `control-plane/src/http.cpp`, `worker.cpp` | none of their own | one handler and one task per request | `Rest`, `Invocations` |
| resources | `control-plane/src/resources.cpp` | concurrent map of applications | add, get, delete | `Rest` |
| backend, deployment | `control-plane/src/backend.cpp`, `deployment.cpp` | HTTP and AWS clients, swap paths | allocate_process, FargateInstance::connect, get_location, delete_swap | `Rest`, `Invocations` |
| mailbox | `process/controller/src/messages.cpp` | stored messages, state keys, waiting workers | put, get, state, insert/find get, insert/find invocation | `Mailbox` |
| work queue, worker pool | `process/controller/src/workers.cpp` | invocations, queue, busy flags, idle counter | add_payload, next, finish, submit | `WorkQueue`, `Channel` |
| controller | `process/controller/src/controller.cpp` | epoll set, the parts above | poll; handlers of external and internal messages | `WorkQueue`, `Mailbox`, `Channel`, `Wire` |
| remote server | `process/controller/src/remote.cpp` | connections, messages that wait for one, `_conn_mutex` | poll, framing, connect, put, invocation request and result | `Remote`, `Framing` |
| IPC channels | `process/runtime/src/internal/ipc.cpp` | POSIX message queues, partial messages | send, receive, blocking_receive | `Channel`, refines `Pipe` |
| runtime, invokers | `process/runtime/src`, `process/invoker` | current invocation, view of the application | get, put, invoke, state, the invoker's loop | `Channel`, `Mailbox` |
| messages | `common/.../messages.hpp`, `ipc/messages.hpp`, `messages.cpp` | 70 or 128 bytes | setters, getters, parsing, forwarding | `Wire` |
| serving | `serving/src` | table of containers | create, kill, cache, shutdown | `Serving` |
| SDK, configuration, start-up, benchmarks | | | | not modelled |

How the parts meet. HTTP threads turn requests into tasks of a thread pool; a
task takes an accessor of the application and calls it. Application calls the
backend, which answers on another thread, and the TCP server, which queues a
task for its acceptor loop. The container connects to the TCP server; its
connection lives on one I/O thread, which calls back into the process object and
the application. In a container one controller thread takes messages from TCP
and from the workers' queues in rounds of `poll()`; two more loops run the
callbacks of the connections that others open and of those it opens itself.

What is hard here: threads with two levels of mutexes, locks taken and dropped in
one statement, callbacks that do not take the lock their data has elsewhere,
callbacks from two threads that wait for each other's information, names that are
used again by other objects, containers that crash, connect late or are refused;
byte streams cut anywhere; bounded queues with both ends blocking; requests
made of several calls of a daemon that overlap. `PROJECT.json` lists the hazards
by line.

## 2. The modules

Each component module has one MC module (symmetry, and values a .cfg cannot
write) and one or two .cfg files, and a module of proofs (section 4), which
`WorkQueue` and `Mailbox` share, and `Framing` and `Wire`. A definition named `Mutated ...` in its comment
is the form a plausible bug would give to the definition after it; no
specification uses it, it is there to check that the properties can fail.

### Application

Processes created by name. A process *object* is a member of `Procs`, the name
it was given a member of `Names`; several objects may use one name over time.
`wPc`/`wProc` are the worker inside the application, `ioPc`/`ioProc` the I/O
thread of each connection. `closed_process`, `swap_process` and
`swapped_process` are split where they wait for a mutex or give one up; a mutex
is held exactly at certain program points, so `ActiveReader`, `ActiveWriter` and
`ProcLocked` are state functions. `fault` records an exception that leaves an
event loop, or an operation with undefined behaviour; nothing happens after it.
The constant `Env` says what containers and backend may do besides working.

| Action | Code |
|---|---|
| `AddProcess`, `BackendCreated`, `BackendFailed` | `Application::add_process` and the callback it hands to the backend |
| `PollerAddProcess`, `Accept`, `HandleConnection` | `TCPServer::add_process`, connection callback, `handle_connection` with `Process::connect` |
| `SwapFind`, `SwapCheck`, `SwapSet` | `swap_process` up to the process lock, up to the release of the application lock, to its end |
| `HandleSwap`, `SwappedCheck`, `SwappedInsert` | `handle_swap` and `swapped_process` |
| `Disconnect`, `HandleClosure`, `ClosedLock`, `ClosedErase` | `handle_disconnection`, `handle_closure` and `closed_process` |
| `DeleteProcess` | `delete_process` |

### Invocations

Invocations that come to the control plane over HTTP, and the processes it
allocates for them. `pc`, `on`, `req` are the program counter, process and
request of the worker, of the backend's thread for each process and of each I/O
thread. No lock protects the process: `process->write_lock();` is a statement and
its lock is gone at the semicolon. `add_invocation` is split between appending
(`AddInvocation`) and sending the last element (`SendLast`), `finish_invocation`
between counting down and erasing (`FinishInvocation`, `EraseInvocation`; an
append in between may reallocate the vector and leave a dangling iterator), and
`created_callback` into check, call and clear. `Env` adds requests that overlap
with an allocation, the backend answering while the container registers, a
container that registers before the acceptor loop has run its task, refusals, and
the container of a reported failure that runs all the same. `raced` remembers the
invocations of a list at a moment when two threads were at work on it.

### Rest

The other requests of the HTTP interface, from the handler to the answer.
`pc` follows a request, `answers` is what its client was told. Tasks that change
an application hold the exclusive accessor, a listing the shared one
(`Exclusive`); the listing reads its two maps in two steps (`ListActive`,
`ListSwapped`), and I/O threads, which take no accessor, may move a process in
between (`SwapConfirmed`, `SwapStored`). A swap finds its process with the mutex of
the map held shared (`RunSwap`) and then locks it (`SwapLocked`); the end of a
connection locks the process (`ConnectionEnds`) and then takes the mutex
(`ClosedErase`); who is between its two steps is in phase `swapping` or in
`closing`. `address` is whether the backend has reported the address, which may be empty. `created_callback` runs in the thread of
the backend and in the I/O thread (`cb`), as `Check`, then with Fargate two
queries (`DescribeTask`, `DescribeEni`), then `CallBack` and `Clear`. An exception
in a task is not caught and ends the control plane (`fault`). The life cycle
of the process is the part of Application that requests can see.

### Mailbox

`MessageStore` and `PendingMessages` with the controller's handlers around them.
The controller is one thread: a handler is one step (`PutMessage`, `GetMessage`,
`WriteState`, `InvokeFunction`, `InvocationResult`). Payloads are identities, so
that losing and duplicating can be told; timestamps are left out. The three sets
of names may overlap, as in the code; `DisjointNames` says that they do not.

### WorkQueue

`WorkQueue`, `Workers` and the rounds of `poll()`: events first (`ExternalRequest`,
`LocalRequest`, `Result`), then scheduling (`Submit` while a worker is idle and
the queue is not empty). `arrived` and `started` are the histories of requests and
of starts. `SharedKeys` are the identifiers that senders use
although they are in use; the others are kept apart.

### Pipe, Framing, Channel

`Pipe` is what a connection promises: messages come out once, complete, in order
(`Spec`) and eventually (`FairSpec`). Two modules implement it.

`Framing` is the message callback of both TCP servers. Bytes are units of
messages; `Arrive` brings any number of them and runs the callback, each
recursive call of which is a step: `HandleUnregistered`, `HandlePayload` (a
payload whose header came before) or `HandleHeader`. `toRead` and `curMsg` belong
to an object, not to a connection: a process gives all connections it opened
one object (`shared`). The refinement maps what the controller was given, with a
message whose payload is not its own counted as another message.

`Channel` is the two POSIX queues of each worker, the controller's `poll` and the
invoker's loop around them. `Asks` gives for each call of a function the payloads its
request may have: none for a `get`, some for an `invoke`. A message is a header piece and payload pieces;
`Start` is the call of `send`, `PutPiece` waits for room, `TakePiece` for a piece.
Neither end does anything else between the pieces of a message (`sending`,
`partial`). Functions `Put`, `Get`, `Finish` and may be missing or crash. The
controller takes all changes of the application that came (`ProcessUpdates`), sends
them one by one to each worker in turn (`TellWorker`), also to one that runs a
function and reads its queue only in a `get`, and then changes its own list
(`ApplyUpdate`). Every queue is refined to a pipe.

### Remote

The connections of a process. `entry` is `_connection_data` by name, `link` the TCP
connections. The controller and the I/O loop hold `_conn_mutex`; `put_message`
holds it over its two steps, the test (`PutTest`) and what follows (`PutSend`,
`PutStore`). The connection callback of a link the process opened does not take
it and is four steps (`ConnectedStatus`, `ConnectedConn`, `ConnectedFlush`,
`ConnectedClear`). `overlap` records the messages whose call met such a callback.
`RequestInvocation` and `InvocationResult` remember who asked and where the result
went.

### Wire

Messages as bytes. A layout gives each field the place where its setter writes
and the place where its getter reads, as the two classes of each message do. One
message is composed field by field (`SetString`, `SetNumber`, `SetBuffers`) and
forwarded along the `Routes`: each route is a place in the code that builds a
message from views into another one, with the setters it calls in their order;
where two of them wrote the same byte the later one would win (`Filled`). A number of
buffers is refused also when they were merged from received ones. `Strncpy`
and `StrLen` read memory behind a view, as the code does.

### Serving

Requests to create, kill and cache at the serving layer. Each goes through one
to three calls of the Docker daemon (`pc` is the open call, `code` its answer); a
handler of the server is one step (`Create`, `Created`, `Started`, `Inspected`,
`Kill`, `Killed`, `CacheImage`, `Cached`), as is each reaction of the daemon, which is
external. A call that gets no response (`NoResponse`) and a container that has exited
and has no port (`NoPort`) end the server. `Shutdown`, `KillAll` and `Stopped` are `HttpServer::shutdown`.

## 3. Runs

| Run | Instance | States | Checks |
|---|---|---|---|
| lifecycle | `Application`: 3 objects, 2 names, crashes; symmetry | 0.15 M | maps, statuses and counters agree (`ActiveIsUsable`, `LiveIsActive`, `CountersExact`), no exception leaves a loop (`NoFault`), `closed_process` removes only its own process |
| hostile | `Application`: 2 objects, 2 names, every misbehaviour; fairness | 0.19 M | `Consistent` survives everything; `OperationsFinish`: two threads that wait for each other's mutex are the only way to get stuck |
| everything | `Invocations`: 3 requests, 2 objects, all of `Env`; symmetry | 0.19 M | `KeptOrAnswered`, `CountExact`; `NoneLeftBehind`, `SentOnce`: only invocations that met two threads on one list can be left or sent twice |
| answered | `Invocations`: 3 requests, 3 objects, crashes; fairness | 0.12 M | `EveryInvocationAnswered` |
| requests | `Rest`: 3 requests of which 1 creates, 1 name, both backends, failures, crashes; fairness | 0.33 M | `AnsweredOnce`, `ProcessHasAddress`, `ListExact`; `EveryRequestAnswered`: the two orders of locks (`Deadlocked`) are among the few ways in which a client waits for ever |
| matching | `Mailbox`: 3 workers, 3 payloads, disjoint names; symmetry | 16 k | `Exact`, `GetReleasedByPut` |
| rounds | `WorkQueue`: 2 remote and 2 local requests, 3 keys of which one is shared, 2 workers; fairness | 80 k | `Consistent`, `StartInOrder`, `CallerStillWaits`; `EveryRequestAnswered`: the calls that take all workers (`AllBlocked`) are the only ones that stop the rest |
| stream | `Framing`: 2 connections, 3 messages, both servers; fairness | 46 k | `FramesAreMessages` (refinement), `NothingLeft`, `EverythingHandedOn` |
| queues | `Channel`: 2 workers, queues of one piece, messages of one and two, 2 invocations, 2 updates, a call with a payload and one without; fairness | 0.27 M | `ChannelsArePipes` (refinement), `OnlyUpdatesDisturb`, `ViewsAgree`, `WorkersComeBack` |
| routes | `Remote`: 2 processes, 2 clients, 2 messages, 1 call, 2 incoming connections, failures; fairness | 0.76 M | `KeptOrSent`, `OrderKept`, `ResultToCaller`, `EveryMessageSent` |
| layout | `Wire`: lengths at and around 16 and 32, negative numbers, 13, 14 and 17 buffers | 9 k | `FieldsIntact`, `RefusedOnlyAtOrigin`, `OverrunOnlyByBuffers` |
| containers | `Serving`: 1 process, 3 requests, a daemon that fails or cannot be reached, containers that end; fairness | 0.24 M | `TableExact`, `FaultsExplained`, `ShutdownKillsAll`, `EveryRequestAnswered` |

Many properties name the exceptions the code leaves open, in their comment and in
their formula: they say that nothing *else* can go wrong. Section 5 collects the
exceptions. The type invariants are conjuncts of the main invariants (`Consistent`,
`Exact`, `KeptOrAnswered`, `AnsweredOnce`, `NothingLeft`, `OnlyUpdatesDisturb`,
`KeptOrSent`, `FieldsIntact`, `TableExact`).

Why the bounds are enough. Three objects let a name be used, swapped out, used
again and closed while an older object of it is still connected; two names are
needed to see that threads of different processes interfere only through the
mutex of the application. Three requests let one be added while another is
answered and a third waits for an allocation; `answered` has one object per
request, so a creation never fails for want of one. In `requests`, creating the
application, creating the process and one more request meet in every order. Two
workers and two nested calls let the calls take all workers, one of them, or none;
the formula excepts exactly the first. Two
connections with three messages let two streams interleave and one stream hold
two messages, of sizes 0, 1 and 2 units behind a header of 2, cut at every
unit. Queues of one piece make both ends block soonest. Payloads, requests and
messages are used once, so counters are finite without a cap or are capped by a
named constant (`MaxMsgs`, `MaxCalls`, ...). `CHECK_DEADLOCK FALSE` is set where the
instance ends when everything is used up, or after a fault.

Fairness. `Application`: threads inside an operation are scheduled and a mutex that
is free again and again is granted (strong fairness); nothing is assumed of
clients, containers or the backend. `Invocations`, `Rest`: the same for threads, and
that the backend answers, containers start and register and functions return, as
the control plane has no timeout and waits for exactly these. `WorkQueue`: the
controller keeps polling and functions that are not blocked return. `Channel`: the
threads run and functions end; nobody promises that the message a `get` asks for
is ever put. `Framing`: TCP delivers and callbacks run. `Remote`: the
controller finishes a call, an attempt to connect succeeds or fails, callbacks
run. `Serving`: the daemon answers and the HTTP client's loop runs.

## 4. Proofs

All theorems are for any number of processes, names, keys, workers, requests,
connections and messages; every inductive invariant was checked with TLC before it was proved. A proof module has
the invariant, lemmas about what the steps have in common, one lemma per action,
and the theorems.

| Module | Proved | Inductive invariant |
|---|---|---|
| `ApplicationProofs` | `Consistent` for every `Env`; `CountersExact` without closures; `NoFault`, `ActiveIsUsable`, `LiveIsActive`, `ClosedRemovesItself` when processes at most crash | `Consistent`; with `Working` beside it |
| `InvocationsProofs` | `KeptOrAnswered`, `CountExact`, `NoneLeftBehind`, `SentOnce`, for every `Env` | `Inv`; with `Sending` beside it |
| `RestProofs` | `AnsweredOnce`, `ProcessHasAddress`, `ListExact` | `Inv` |
| `ControllerProofs` | `WorkQueue`: `Consistent`, `StartInOrder`, `CallerStillWaits` | `Consistent`, `OrderInv`, `CallerInv` |
| | `Mailbox`: `NoMissedMatch`; with disjoint names `Exact`, `GetReleasedByPut` | `Safe`, `Exact` |
| `ChannelProofs` | `OnlyUpdatesDisturb`, `ViewsAgree`, `ChannelsArePipes` (the refinement of `Pipe`) | `Inv` |
| `RemoteProofs` | `KeptOrSent`, `OrderKept`, `ResultToCaller` | `Inv` |
| `MessageProofs` | `Framing`: `NothingLeft`, `FramesAreMessages` (the refinement of `Pipe`) | `Inv` |
| | `Wire`: `FieldsIntact`, `RefusedOnlyAtOrigin`, `OverrunOnlyByBuffers` | `WireInv` |
| `ServingProofs` | `TableExact`, `FaultsExplained`, `ShutdownKillsAll` | `Inv` |

**Application.** `Consistent` gives `TypeOK`, `SwappedHasLocation`, `PendingIsFresh`,
`OneConnection` and `LocksExclude`. None is inductive alone. That a swapped process
has a location needs that a thread between the two maps carries one, hence that a
`SWAPPING_OUT` process has one, hence that the worker at `swap_set` still finds it
`ALLOCATED`, hence the exclusion of the locks. `Consistent` is the conjunction of
these with `Named`, `WaitingOnce`, `Linked` and `ThreadsAgree` (what a thread relies
on at each program point). `Working` adds what only holds while containers do
nothing worse than crash (`OnlyCrashes`, the `Env` of run `lifecycle`): a
connection acts on the object its container was launched for although both are
matched by name only (`Own`), and the name a thread will look up is still in the
active map for its own object (`Thread`). A late registration, a refused one or a
`ProcessClosure` breaks these, so the condition is needed. `CountersExact` needs
only that no closure is sent.

**Invocations.** The properties count; `Inv` says the same of each request and each
process: a request is in at most one of worker, callback and list
(`InOnePlace`), how its answer relates to that (`Answered`), who takes it out of
a callback (`Moved`), and that a counter is the length of the list but for the
element being erased (`Counted`). `NoneLeftBehind` and `SentOnce` fail where two
threads work on one list, as nothing in the code keeps them apart; they are proved for
every other invocation, whatever overlaps or fails. `Sending` is the argument: a
thread between appending and sending is alone with its list, which still ends with
its invocation, or the whole list is in `raced`; an invocation that a connected process
has not sent is one that such a thread is about to send.

**Rest.** `Informed` and `CalledOnce` are the argument: a call of `created_callback`
that got past its check had handle and status, and as long as two threads have not
begun it at once (`raced`), the callback goes with the answer. `Listed` says what a
listing may still believe of the map it read first; a swap between
its two locks and a listing exclude each other by the accessor.

**Mailbox.** `Separate`, a conjunct of `Exact`, says that what is stored or waited for
under a name is of the kind of that name; without it an invocation result could
release a worker that waits in `get`.

**WorkQueue.** `Bookkeeping` in `Consistent`: invocations have a source, requests are
answered after they arrive, no two workers are blocked in one request. `IdleExact`
is what makes the unchecked pointer in `Workers::submit` safe. `StartInOrder` compares the
histories of arrivals and of starts; `OrderInv` adds that the queue is sorted by the arrival
of the first payloads (`QueueSorted`) and that all that was started arrived before all that is
queued (`StartedFirst`), which merging a payload into a queued invocation keeps. `CallerStillWaits`
needs `Caller`: the source of an invocation asked under its identifier, so that
answering one identifier does not release the callers of another.

**Remote.** `Inv` follows a message that met no callback: it is with its call
(`Putting`), in the list of its process (`Waits`), or sent; a list has nothing left
once senders use the process's own connection (`Flushed`, `SentHasConn`), which is
why they cannot overtake it. Messages are numbered in the order of the calls, and
`Sorted` sequences of numbers make `OrderKept` inductive.

**Framing.** Which bytes are on their way would take a recursion over what was sent.
`Inv` says instead how each unit relates to the next one (`Chained`), that the last
one ends the last message sent (`Ends`) and that the first one is where the server
stands (`Aligned`); from a least counterexample it follows that all units of a
message are there and what comes after (`Run`, `RunEnds`). With `Delivered` each
step is one of `Pipe` or changes nothing it sees. The proof showed that
`TypeOK` had claimed too much: of three connections that share an object, one can
be given more messages than were sent on it. It now says so only of connections
with an object of their own.

**Channel.** `Inv` has three parts beside types. `Flows`: what lies between the ends
of a queue (what the reader has taken, what is queued, what is still to be sent)
are the pieces of the messages sent and not yet received, in order. Rather than
concatenate pieces recursively it asks for a function from pieces to messages that
starts at the first message not received, stays within a message or goes on to the
next one (`Follows`) and ends at the last one (`Closed`; a worker that died may have cut
its last message short). `Local`: an invocation is in one place, on its way to the
worker, with it, or on its way back as a result (`Tokens`); so is a `get`, unless a
change was read in its place (`Gets`); a sender has given one message at a time to
`send` (`Sends`), of the kinds that belong to the direction (`Carried`). Hence a full
queue in front of a worker that does not read holds changes only. `Known`: there is
one history of changes and lists, of which the controller's list, and what each
worker has read and is still to read, are prefixes. That worker and controller hold the
same list although each computes its own needs that removing a process behind
`Self` is removing it (`RemoveBehindSelf`). `Inv` was checked with TLC on the instance of
`queues` and on one with longer queues and more calls before it was proved. For the
proof the model was made finer: one action per `send` with the workers in the order
of `_workers`, where it had handed all changes to all workers in one step.

**Wire.** Strings of every length, all numbers and any number of input buffers, over
the layouts and routes of the code. `WireInv` says of each field, unless a list of
buffers has overrun the message, that its getter reads what was set and that the
bytes its getter looks at behind what the setter writes are zero. The second part is
what `FieldsIntact` lacks: the getter of `SwapRequest` looks for 32 characters where
the setter writes 16, so that a value of 16 characters has no terminator of its own. Each layout is
`Sound` (setters and getters agree on place and kind, fields do not overlap where
they are read, all but the list end inside the buffer) and each route is
`RouteSound` (a field is set once, and a carried one is shorter at the target only if it
is `process_id` of an invocation), one lemma per message and per route; the rest
is about `StrLen`, `Strncpy` and `Write` for any memory. For the proof the fold over the
setters of a route became `Filled`, which says of each byte which setter wrote it.

**Serving.** The table is exact for a process as long as nothing unusual happened
to it (`Orderly`). That needs that a running container is entered or its start is
being answered (`RunningEntered`), that an entry runs or is being killed
(`EntryRuns`), what a kill that is open has found (`KillExact`), that the daemon
has one container of a name (`Unique`), and why a container that is being inspected
may be gone (`Each`). `Stopping` is about the shutdown.

Assumptions on the constants: null values and program points are outside the sets
they complement (spelled out in `ServingAssumption`, `RemoteAssumption` and the
like), `Workers` and `Procs` are finite where they are counted, `SharedKeys` are keys,
names of peers differ from the names the process gives to other connections, a
queue has room for a piece and a process has a worker (`ChannelAssumption`), no byte
of a string is zero (`WireAssumption`). TLC evaluates them in every run.

Only model-checked. All liveness (`OperationsFinish`, the `Every...` properties,
`WorkersComeBack`), which is outside what TLAPS proves.

## 5. Where the code does not do what it seems to

Each is an exception in a property, or excluded by `Env` in a run.

- A connection that ends while the same process is being swapped:
  `swap_process` and `swapped_process` wait for the process with the application's
  mutex held, `closed_process` the other way round (application.cpp:214, 272). Both threads are
  stuck; `worker.hpp:116` promises an error or success. `OperationsFinish`. The client of
  that swap and those of all later requests about the application wait for ever.
  `EveryRequestAnswered` of `Rest`.
- A `ProcessClosure` is counted as two disconnections (tcpserver.cpp:275), while
  `tests/unit/tcpserver.cpp:215` expects zero. `CountersExact` runs without closures.
- `delete_process` deletes the swapped state of a name whose new process is active
  (application.cpp:302), against `application.hpp:182`.
- The refusal of a second local request with a used identifier reaches the first
  caller too (controller.cpp:569), against `messages.hpp:38`. `CallerStillWaits`.
- An invocation that is added while its process connects, or while the creation
  callback runs, may never be sent, or be sent twice (worker.cpp:46, tcpserver.cpp:262),
  against `process.cpp:85`. `raced` in `NoneLeftBehind` and `SentOnce`.
- A function that invokes another one in its process keeps its worker
  (controller.cpp:513): as many such calls as workers, and no queued invocation is
  started again. `AllBlocked` in `EveryRequestAnswered` of `WorkQueue`.
- `Rest`: a listing of an unknown application is answered twice; a creation in one
  is never answered; an exception in a task ends the control plane;
  `created_callback` in two threads at once may answer twice or call an empty
  function; the address of a new process may be empty, as nobody checks whether the
  interface has a public one (backend.cpp:228).
- `Remote`: a connection that ended stays in its entry and later messages go
  there; an attempt to connect that fails is never repeated; a message put during
  the connection callback may be lost or sent twice; clients share the name
  `DATAPLANE`, so a result may go to another client.
- `Framing`: a process does not look at what came with the last piece of a message
  until more arrives (remote.cpp:202); connections it opened share one object.
- `Channel`: a change of the application that reaches a worker in a `get` is taken
  for the answer; the controller blocks on a busy worker's full queue; an invoker
  without the function, or a crashed one, leaves its worker busy for ever. Not
  modelled: `Context::invoke` with a buffer that is null looks for one without leaving the
  loop (context.cpp:203), and sends its request once for each empty buffer the function holds.
- `Wire`: 14 to 16 input buffers pass the check and overrun the message; payloads merged
  into one invocation until there are more than 16 make `Workers::submit` throw
  (workers.cpp:283), and nobody catches it; a process
  whose name has more than 16 characters can be announced but not invoked.
- `Serving`: the kill of an unknown process answers 404 and then uses the missing
  entry; a container that ended by itself keeps its entry, and the next creation
  of its name ends the server; a container that could not be started keeps its
  name at the daemon; a daemon that cannot be reached, or a container that exits before it
  is inspected, ends the server (server.cpp:78, 89); caching a freshly downloaded image answers 500.

## 6. Not modelled

Formatting, logging, metrics (nothing reads them), configuration and start-up;
the SDK, a synchronous client that appears as the clients of the models; torn
accesses of hash maps that two threads change without a lock (each access is one
step); UUID collisions; forking and the shutdown of workers; the parameters of
requests to AWS; `Resources::delete_application`, which nothing calls; payload bytes
outside `Wire` and `Framing`.

## 7. Plan

1. `Framing` with shared objects: which connections can disturb each other.
