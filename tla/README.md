# A TLA+ verification of mgxx

mgxx is a C++ wrapper around the mongoose networking library: an HTTP server
whose requests are answered either inside the event loop or later, by any
thread. These modules model what the code under `src/` does when the two meet,
TLC checks the models on small instances, and TLAPS proves the central
invariants for every value of the constants.

Paths below are relative to the repository: `endpoint.cpp` is
`src/http/endpoint.cpp`, `async_stream.hpp` is
`include/mgxx/http/async_stream.hpp`, and so on.

## 1. Inventory

| component | state it keeps | operations | how it interacts |
|---|---|---|---|
| `server` (`server.cpp`) | `m_mgr` (shared_ptr to the event manager), `m_wakeup`, `m_endpoints`, `m_logger` | constructors = `register_logger` and `start`, `listen_http`, `poll`, destructor = `stop` | owns the manager and shares each endpoint with the application; endpoints and asynchronous handles keep a `weak_ptr` to the manager; mongoose keeps the address of the server for its log, that of each endpoint on the listening connection |
| `http::endpoint` (`endpoint.cpp`) | `m_request_counter`, `m_pending_responses`, `m_pending_streams`, listeners, assets, fallback, TLS buffers | one handler per mongoose event, registration, `use_tls` | runs on the loop thread; creates the handles that workers use |
| `http::async_response` | `m_state` (atomic), `m_payload`, `m_stream`, headers | `send`, `stream` (any thread); `mark_*`, `get_*` (loop) | wakes the loop through `mg_wakeup` |
| `http::async_stream` | `m_state` (atomic), `m_data` (not) | `wait`, `send`, `close` (producer); `mark_*`, `get_data` (loop) | parks the producer with `atomic::wait`; woken by `notify_*` |
| routing (`endpoint.hpp`, `endpoint.cpp`, `listener.hpp`) | `m_listeners`, `m_assets`, `m_fallback` | `on_request`, `on_async_request`, `on_fallback`, `on_async_fallback`, `on_asset`, `on_assets`; the choice in `handle_http_message` | called by the application, from handlers too |
| TLS configuration (`endpoint.cpp`) | `m_tls_ca`, `m_tls_cert`, `m_tls_key`, `m_tls_alloc` | four forms of `use_tls`, destructor; `handle_secure` at each accept | buffers are copies of strings, or the caller's own |
| `http::remote_context` | `m_endpoint` (raw), `m_stream`, client certificate, IP | `set_stream`, `pump_stream`, `pump_async_stream`, `setup` | hangs off `mg_connection::fn_data`; moved by `MG_EV_WRITE` |
| `http::response` | `m_conn`, headers | `send`, `stream` | writes to the connection inside the handler |
| `http::headers` | case-insensitive map | `set`, `get`, `remove`, `format` | used by both kinds of response |
| `http::request`, `http::async_request` | views into, or a copy of, the message | getters, `to_async` | the copy outlives the handler |
| logger | buffer, offset, listener | one call per character | called by any thread that logs |
| mongoose (submodule, not in the tree) | connections, send buffers, wakeup pipe | `mg_send`, `mg_http_reply`, `mg_http_write_chunk`, `mg_wakeup`, `mg_mgr_poll`, `mg_mgr_free` | external: modelled from how the code uses it |

What is hard here: the loop and the workers share two atomics and one string
without a lock; each side wakes the other *before* or *after* storing the state
the other one reads; a connection may close, the manager may be freed and a
wakeup may fail at any point; the back-pressure of a stream depends on the write
event of a connection. What must be right, component by component:

* **endpoint**: the bytes of one connection are well-formed responses, each
  request is answered at most once and in order; a pending entry is a request of
  that open connection that is not answered yet; a wakeup finds its entry.
* **async_response**: what was asked for is what is sent, or the client gets 500.
* **async_stream**: no lost update of `m_state`, `m_data` never read while written,
  no lost notify, a parked producer is released.
* **remote_context**: a chunk is added only to a connection with room for it.
* **server**: stopping with workers at work neither wakes a freed manager nor
  strands a producer the endpoint knows.
* **response, headers**: one answer per response; one value per name whatever its
  spelling; no `Content-Length` on a chunked preamble.
* **request, async_request, certificate**: what a worker reads later is what the handler
  saw, from memory that is still its own.
* **logger**: every character delivered once, in order, from inside the buffer.
* **server and endpoints**: no event goes through a pointer to something destroyed,
  whoever lets go of an endpoint first; mongoose logs to a server that lives.
* **routing**: a request is served as the last registration of a matching path asked,
  and its callback is not destroyed while it runs.
* **TLS configuration**: a connection gets one consistent set of credentials; what the
  destructor frees is the endpoint's own, and it frees all of that.

`PROJECT.json` lists every hazard with the line where it bites.

## 2. Modules

`Mongoose` <- `AsyncStream` <- `AsyncResponse` <- `HttpEndpoint` (each extends
the one before; together they are one state machine), `HttpExchange` with its refinement
mapping to the abstract `Exchange`, `MCHttpEndpoint` for TLC and four proof modules
(`HttpEndpointProof` <- `WakeupProof` <- `AnswerProof` <- `WireProof`).
Four parts have a machine of their own: `Headers` <- `SyncResponse`, `AsyncRequest`, `Logger`, and
`Routing`, `TlsConfig` <- `Server`, each with an `MC` module. `Routing` and `TlsConfig` are the
registers of one endpoint as operators, without a state of their own; `Server` composes them
with the life of the server. Proofs about these are in `SyncResponseProof`, `AsyncRequestProof`,
`LoggerProof` and `ServerProof`.

**Mongoose** - connections (`phase`), the output side of each (`out`: the length of
the send buffer, whether the request being served still lacks an answer, and the
history `wire` of all frames), the wakeup pipe and the manager's life. A *frame* is
what one `mg_*` call appends. A frame carries the request it answers and, for a
chunked response, its number: a history that lets the properties say which answer
is on the wire, not state of the program. `mg_wakeup` queues, or fails when the
manager is released or being freed, or at will when `"wakeup_fails"` is among the
`Disruptions`; with `"wakeup_lost"` it may succeed and the datagram never arrive.

**AsyncStream** - `sState` is `m_state`, `sData` the size of `m_data` and the number of
the write it holds, `pc` the control point of the worker. `wait` returns
(`WaitReturn`) or parks (`WaitPark`); `send` and `close` are two steps each: fill and
store (`SendChunk`, `CloseStream`), then wake the loop (`WakeStream`). `Notify` is what
`mark_*` does to a parked thread.

**AsyncResponse** - `rState`, `rPayload`, `rStream` are `m_state`, "payload filled in" and
"`m_stream` is not null". `send` is `SendOpen`, `SendWake`, `SendMark`; `stream` is
`StreamOpen`, `StreamWake`, `StreamPublish`, `StreamReturn`. The step boundaries are the
points where the loop can see a difference: the wakeup, the store that follows it,
and the copy of `m_stream` in the return statement.

**HttpEndpoint** - one action per mongoose event. `Accept`; `HttpMessage`, by the way the
request is served (`Routes`); `HandleWakeup` with its cases (`WakeUnknown` for the 500s,
`WakeResponse`, `WakeStreamOf`); `HandlePoll`; `HandleWrite`; `HandleClose`; `Stop` and
`Release` for `~server`. A handler that loads a shared `m_state` and stores to it later is
split there: `loop` remembers what it loaded, `FinishReply`, `FinishData` and
`FinishClose` complete it, and workers may run in between. All other handlers read a
shared atomic at most once per entry before acting on it and are one step.

**Exchange, HttpExchange** - what a client is promised, with none of the machinery: requests
of a connection are answered one at a time, in order, whole or in chunks, and nothing
follows the close. `HttpExchange` maps `HttpEndpoint` to it: how many answers are complete, and
what the client received last, are read off `wire`. `KeepsPromise` is the implementation.

**Headers, SyncResponse** - `Headers` has the map as operators: `HashKey` and `IsEqual` are the
two functors, `Find` looks for equal names in the bucket of a hash, `Assign` and `Erase`
are `set` and `remove`. `SyncResponse` is one `http::response` after the other, with a
listener that calls anything in any order: `SetHeader`, `RemoveHeader`, `ClearHeaders`,
`Send`, `Stream`. `meant` is the reference: a plain function on lower-case names, bound and
unbound by the same calls. `conn` is whether `m_conn` is still set, `sent` what was written.

**AsyncRequest** - memory at the grain of addresses. A message lies in the receive buffer at
`RecvBase`; `MakeCopy` is the constructor of `async_request` at an address the allocator
chose, with `RebaseHeaders` for its loop over the header slots. `Texts` is what the
accessors read through the slices: of the receive buffer inside the handler, of the
memory as it is now for a worker. The receive buffer counts as overwritten once the
handler returned. `Setup` lays the six certificate fields out in one buffer and `View` is
how a getter reads one; `Alive` says whether a `weak_ptr` to it still locks. Allocation
never fails, and a message is one of a few shapes (with and without query, headers,
body, captures). Of any message the module assumes what `mg_http_parse` and `mg_match` promise: a
slice that is there lies within it, and the headers fill the first of the slots.

**Routing** - a path or URI is a sequence of characters. `MgMatch` is `mg_match` from how the
code uses it, with the wildcards `?`, `*` and `#`; `Matching` tabulates it. `OnRequest`,
`OnFallback`, `OnAsset` and `OnAssets` are the registration calls, `Serve` the choice of
`handle_http_message`: the *set* of outcomes, because the maps have no order. A callback or a
file is named by the number of the call that registered it, so a property can say which
registration served a request. `count_groups` and `MgSlots` are the two counts of captures
that must agree: what the vector has room for and what `mg_match` writes.

**TlsConfig** - a buffer is named by the call and part it came from and by whether it is a
copy. `UseTls` is all four forms: `form` says strings or views, `ca = "absent"` the forms
without a CA. `Copies` are the allocations of a call, `Freed` what `~endpoint` frees, `Offered` what
`handle_secure` gives to `mg_tls_init`.

**Server** - one server after another in a process, on the thread that owns them. `Construct`
is a constructor up to `start`; `ListenHttp` may fail; `Register` and `Secured` are the configuration
calls, made by whoever has the endpoint, in a handler too (`Has`); `Drop` lets the
application's shared_ptr go. `Accept`, `Receive`, `Return` and `Close` are an accepted connection and the
handling of one request, `Stop`, `CloseListening` and `Release` are `~server`: `mg_mgr_free` closes
every connection one by one, then the members go. What serving a request does, and the end of
the manager as workers see it, is `HttpEndpoint`'s part.

**Logger** - `event_manager_logger` for one character, one step per access to the shared
`buffer` and `offset`: `Load`, `Store`, `Test`, `Deliver`, `Reset`. `logged` and `delivered` are
histories.

### Abstractions

* One worker per asynchronous response. It calls `send` once, or `stream` once followed
  by the producer loop of the repository's README (`while (stream->wait())`, `send` or
  `close`). Two threads sharing one handle, or a producer that skips `wait`, are not
  modelled; the class does not synchronise them.
* In `HttpEndpoint`, which listener matches a URI is abstracted to how a request is served: a
  whole reply (synchronous `send`, asset, 404), a synchronous stream, no answer, an asynchronous
  handler. `Routing` has what the choice depends on. Handlers reach the worker only through
  the response they are given.
* In `Server` the application configures an endpoint on the thread of the loop, before
  polling, between polls or in a handler, as the repository's example does; another thread
  would race with the maps. It keeps the texts it gave as views and as asset paths.
* `busy` stands for mongoose's `is_resp`. With `Pipelined = FALSE` the next request is
  dispatched only after the last was answered; `TRUE` drops that rule, so that what
  the endpoint's own maps guarantee is checked without mongoose's help.
* Buffers are counted in frames; `IoSize` is the threshold `MG_IO_SIZE` in the same unit.
  A write sends between one frame and everything.
* The wakeup pipe is a queue in order; only the `response` run loses what is put in, because
  no timeout or retry in the code makes up for it. `mg_mgr_free` drops what is queued and what comes
  while it runs, and closes every connection; polls it makes on closing connections
  write to nobody and are left out.
* `owner` and `wire` survive the close of a connection, as histories; connection ids are
  never reused, as in mongoose.

### From variables to the code

| model | code |
|---|---|
| `counter` | `endpoint::m_request_counter` |
| `responses[c]`, `streams[c]` | the keys of `m_pending_responses[conn]`, `m_pending_streams[conn]`; an absent map and an empty one behave alike |
| `ctx[c]` | `remote_context::m_stream` |
| `owner[i]`, `ord[i]` | `m_conn` of request `i`; history: its place among the requests of its connection |
| `endpoints[e]` | who has a `shared_ptr` to it: `held` the application, `owned` `m_endpoints`; `listening`: mongoose has its address |
| `routes[e]`, `tls[e]`, `heap` | the registers of `http::endpoint`; the copies `mg_strdup` made and `mg_free` has not taken |
| `conns[c]` | an accepted `mg_connection` with its `remote_context`, and what `mg_tls_init` got |
| `log_fn` | the parameter of `mg_log_set_fn` |
| `calls` | history: the configuration calls, whose numbers name what they registered |
| `mgr` | whether `weak_ptr::lock` succeeds (`CanLock` adds the threads that hold a copy) |

## 3. Runs

Deadlock is off in all of them but `sync_response`: the bounds on requests, characters or
connections let a run end, and so does a server that stops.

| run | instance | what it shows |
|---|---|---|
| `response` | 1 connection, 3 requests, 2 of them asynchronous, 2 chunks, every route and disruption | `TypeOK`; the wire parses (`WireWellFormed`); no update of `m_state` is lost and `m_data` is not raced for (`LoadedStateFresh`); no notify is lost (`NoLostNotify`); a chunk enters a buffer only below the threshold (`ChunkBackpressure`); the whole implements `Exchange` (`KeepsPromise`) |
| `connections` | 2 connections, 2 requests each, 2 asynchronous, pipelined | a wakeup on an open connection finds its entry (`EveryWakeupHasTarget`); entries are unanswered requests of that open connection (`PendingUnanswered`), and a request is an entry until its answer is complete (`NothingForgotten`); `WakeupInv`, the invariant proved inductive; when a producer is done, `failed()` tells whether the response was terminated, even if `close` could not wake the loop (`ExitTerminated`) |
| `progress` | 1 connection, 2 requests, 3 chunks, fairness, every disruption but a lost wakeup | `SendAnswered`, `RegisteredWaiterReleased`, `CloseTerminates`; the client of a `stream` that returned nullptr is answered by the poll handler (`NullStreamAnswered`) |
| `early_wakeup` | 1 stream | **violated**: `stream` wakes the loop before it says what for |
| `lost_failure` | 1 stream, disconnect | **violated**: `send` overwrites the failure; the next `wait` never returns |
| `shared_backpressure` | 2 connections | **violated**: a write of one connection releases the producer of the other |
| `empty_chunk` | chunks of size 0 | **violated**: an empty chunk is a terminating chunk, and `close` sends another |
| `logger` | 1 thread, buffer of 3, 7 characters | writes stay in the buffer (`TypeOK`, `WritesInBounds`), nothing is lost or reordered (`NothingLost`), the listener gets whole lines or full buffers (`WholeLines`) |
| `logger_race` | 2 threads | **violated**: `WritesInBounds` |
| `sync_response` | 5 spellings of 3 names, unbounded calls and requests | `HeadersAsMeant`, `OneAnswer`, `ChunkedPreamble` |
| `async_request` | 2 workers, 3 messages of 3 shapes, 3 certificates, 2 connections | a copy reads as the request did (`CopyReadsTheSame`); a locked certificate is the right one and its views are its fields (`LockedCertificate`) |
| `server` | 2 servers in turn, one plain and one TLS endpoint, 1 connection at a time, 3 calls out of 12 | pointers stay alive (`PointersAlive`), logs go to a living server (`LogsReachTheLiving`), requests are served as registered (`ServedAsRegistered`) by a callback that is not destroyed under way (`RunningCallbackAlive`), handshakes use one call's credentials (`SecuredAsConfigured`), the destructor frees copies only (`FreesItsCopies`) and all that were not replaced (`LeaksOnlyReplaced`) |

### Bounds

`MaxRequests`, `MaxAsync` and `MaxChunks` cap the only counters. Two asynchronous requests
are the least that lets one wakeup overtake the other and one close hit two entries;
three requests on one connection put a synchronous answer before, between or after
them. `IoSize = 2` with two or three chunks lets the buffer be empty, filling and full.
`ChunkSizes = {1}` except in `empty_chunk`: what an empty chunk does to the wire is that
run's subject, and would otherwise hide every other violation of `WireWellFormed`.
`response` has one connection because `ChunkBackpressure` fails with two, which is the
subject of `shared_backpressure`. `WireWellFormed` and `KeepsPromise` are checked with `Pipelined = FALSE`:
answers in request order rest on mongoose's `is_resp`, not on this code. In `async_request` one address for a copy lies below the receive buffer and one above, so
that slices move both ways, and two workers with three messages make an address be
freed and used again. `sync_response` needs no bound: its only sequence, `sent`, stays short
because the property holds. In `server` three calls are enough to
register, replace and replace again, or to mix two forms of `use_tls` around a third, with
connections accepted and requests dispatched between any two of them; the paths overlap, so
that a URI matches a listener and another one, a listener and an asset, or two
assets. Two servers are what `log_fn` needs to go stale; one connection at a time is
enough because connections do not see each other in this part. Connections are
not symmetric only in the initial `owner`, so no symmetry set is used.

### Fairness

`FairSpec` assumes what the poll loop `while (is_running) server.poll(100)`
(`examples/simple/src/main.cpp`) does: wakeups, polls and writes keep being dispatched, and
a handler that began completes (`WF` of `HandleWakeup`, `Finish`, `HandlePoll(c)`,
`HandleWrite(c)`); `mg_mgr_free` closes every connection and returns (`HandleClose` while
stopping, `Release`). A worker that has begun to answer is scheduled again; before that it
owes nothing, since a handler may drop its response. Clients, disconnects, shutdown and
failures are never fair. `progress` loses no datagram: with a lost one an
answer may never be sent, and nothing in the code would notice. Weak fairness is enough: only the loop thread disables the loop's
actions, and it completes what it began. That a write happens while output is pending means
the peer reads; a peer that does not is a connection that stays open with a parked
producer, and the code has no timeout for it.

## 4. Findings

1. **`stream` wakes too early** (`async_response.cpp:64` before `:69`). A loop that is quick
   enough takes the response for one that was sent, replies with the unset payload
   (code -1) and erases the entry; the worker then stores `streaming` and parks on a
   stream the endpoint never hears of.
2. **A failure can be overwritten** (`async_stream.cpp:29`, `:39`). A connection that closes
   while the producer makes a chunk stores `failed`; `send` replaces it with `has_data`,
   the wakeup goes to a closed connection and is dropped, and `wait` parks for good.
   `RegisteredWaiterReleased` is the part that does hold.
3. **Back-pressure looks at the wrong buffer** (`endpoint.cpp:222`). Every stream of every
   connection is released according to the send buffer of the connection just written.
4. **Empty chunks end the response** (`endpoint.cpp:314`), and `close` ends it again.
5. **Logging from two threads** (`server.cpp:26`). `stream` logs on a worker
   (`async_response.cpp:63`) while the loop may log too; a thread that enters while another
   has filled the buffer and not yet reset `offset` stores past its end.

## 5. Proofs

Eight modules, no assumption beyond the named ones on the constants
(`MongooseAssumption`, `StreamAssumption`, `ResponseAssumption`, `EndpointAssumption`,
`HeadersAssumption`, `SyncResponseAssumption`, `LoggerAssumption`, `RoutingAssumption`,
`ServerAssumption`, `AsyncRequestAssumption`, `MessagesAssumption`, `CertificatesAssumption`) and the
hypotheses a theorem states. A hypothesis is one of these, each the other side of a finding
or of something the code leaves to others:

| hypothesis | why it is needed |
|---|---|
| `0 \notin ChunkSizes` | an empty chunk is a terminating one (finding 4) |
| `\A c, d \in Conns : c = d` | back-pressure looks at the wrong buffer (finding 3) |
| `Threads = {t}` | two threads that log race (finding 5) |
| `~Pipelined` | answers in request order rest on mongoose's `is_resp` |
| `"wakeup_lost" \notin Disruptions` | nothing in the code makes up for a datagram that is lost |
| `DirectoriesEndInWildcard` | `handle_http_message` cuts two characters off the path of any `on_assets` |

* `HttpEndpointProof`: `TypeCorrect`, `TypeOK` is invariant. One lemma per group of
  actions. The poll handler is the case with content: it appends a sequence made from an
  enumeration of the failed responses, so the lemma needs the cardinality of a finite set.
* `WakeupProof`: `WakeupInvariant` and from it `WakeupsFindTheirTarget`.
  `EveryWakeupHasTarget` is not inductive: `FinishReply` erases an entry, so one must
  know that no second wakeup of the same request is queued; `SendChunk` is followed by a
  wakeup, so one must know that a producer with a turn has a registered stream. Hence
  `WakeupInv`: at most one wakeup of a request is in flight, in the pipe or in the loop
  (`OneWakeup`); what the loop serves is in its map (`LoopHasTarget`); the worker acts only
  while no wakeup is in flight, and a flushed or empty stream has none (`TurnTaking`); a
  request that can still be woken is in a map (`Remembered`); an entry is what it seems
  and a failed response is not about to be woken (`Entries`). `OneWakeup` and `TurnTaking`
  are what a worker's step preserves, `Remembered` and `Entries` what the loop's steps do.
  The step of a worker is reduced to the parts about its own request (`WorkerStep`).
  It also has `LoadsStayFresh` (`LoadedStateFresh`, from `TurnTaking`: whoever may store
  to a stream's state has no wakeup in flight, and the loop is serving one) and
  `NotifyIsNotLost` (`NoLostNotify`, inductive given `TypeOK`).
* `AnswerProof`: `RequestsAreKept` (`NothingForgotten`) and `EntriesAreUnanswered` (`PendingUnanswered`, if no
  producer sends an empty chunk: `empty_chunk` shows why). Both follow from what any step may
  do, `StepShape`, which one lemma per group of actions establishes: wires only grow, each new
  frame answers the request being dispatched, the synchronous stream in progress, or an
  entry that leaves the maps or goes on with its stream (`Fresh`), and an entry leaves the maps of
  an open connection only with a completing frame. `Numbered` - no two workers, and no worker
  and synchronous stream, answer the same request - makes a fresh frame somebody else's.
* `WireProof`: what the frames on a wire say.
  * `ClosedStreamsTerminate` (`ExitTerminated`). `Exit` adds what the worker's control points say of
    `m_state`: a completed stream is answered, and a closed one whose wakeup was sent is still in
    `m_pending_streams` and has that wakeup in flight.
  * `WiresAreWellFormed` (`WireWellFormed`). `WellFormed` alone says nothing of who may send the next
    frame. `WireInv` does: the requests dispatched are the answers completed and the one `busy`
    speaks of, one of `m_pending_responses`, `m_pending_streams` and `ctx` at most answers that one
    (`OneAnswerer`), and a stream's `m_data` numbers the chunk that comes next (`Pending`). A step
    then adds a frame that `Follows`, or none, and `WellFormedGrows` is the lemma about it.
  * `PromiseKept` (`KeepsPromise`), the refinement: `EveryWireStep` also shows that each step is, for each
    connection, an accept, a request, a frame of the answer under way, a close, or nothing
    (`ExchangeStep`); `StepKeepsPromise` maps that to a step of `Exchange` or a stutter.
  * `TerminatedOnce` (`OneTermination`): with the run `empty_chunk`, which violates it, this says that
    empty chunks are the only cause of finding 4. `Ordered` is the strengthening.
  * `ChunksArePaced` (`ChunkBackpressure`). `Room` says that a stream whose chunk is still to be written
    is on a connection with room for it, which is what the write event of that connection, the only
    one, has checked; nothing else fills the buffer, since the stream is the one answerer.
* `SyncResponseProof`: `HeadersStayAsMeant`, `AnswersOnce` and `PreambleIsChunked`, for any set of
  spellings and any case folding that is idempotent. `AssignRepresents` and `EraseRepresents`
  say that `set` and `remove` on the entries are binding and unbinding in the reference
  map; `ResponseInv` adds that one answer was written exactly when `m_conn` was reset.
* `LoggerProof`: `OneThreadWritesInBounds`, `OneThreadLosesNothing`, `OneThreadWholeLines`, for any
  buffer size above 0 when `Threads` has one element. `LoggerInv` says, at each point of the
  call, what buffer and offset hold of what was logged; `HeldGrows` is the lemma about
  storing one more character; `OneThreadTypes` (`TypeOK`) follows from it. `logger_race` shows why the
  hypothesis is needed.
* `ServerProof`: `TypeCorrect`, `PointersStayAlive`, `LogsStayWithTheLiving`, `CallbackStaysAlive`. `PointersAlive` says nothing of
  why an endpoint is alive; `LifeInv` does: one that mongoose knows, by its listening connection,
  an accepted one or a running handler, is in `m_endpoints`, which only `Release` empties, after
  every connection is closed. `LogInv` adds where `log_fn` stands while no server runs.
  `KeptInv` says that each listener is the product of a call about its path, `RunInv` that the
  running one is in its place or was registered anew since the request was dispatched.
  `OnlyCopiesFreed`, `OnlyReplacedLeak`, `CredentialsAsConfigured`: `TlsInv` relates slices, heap and
  history: a copy in a slice of a live endpoint is on the heap, a copy on the heap is in a slice
  of a live endpoint or was replaced, and `m_tls_alloc` says that a string was given. `SaidInv`
  says that the slices are what the calls so far asked for, and that a connection's
  credentials come from such slices as they stood when it was accepted.
  `RequestsServed` (`ServedAsRegistered`): `RouteInv` says that every entry of the tables is what the last
  call about its path asked for, and that none is there without a call (`ListenerSaid`, `AssetSaid`,
  `FallbackSaid`); `TablesServe` then compares the choice made from the tables with the reference,
  which looks only at the calls. Directories need the shape of their paths in the table above.
* `AsyncRequestProof`: `CopiesReadTheSame` (`CopyReadsTheSame`). `CopyInv`: the slices of a worker's copy are
  those of the request moved to its base, the memory there holds the message, and no two copies
  share an address. `SameTexts` compares accessor by accessor; the headers are the case with
  content, because the loop that rebases them stops at the first empty slot.
  `LockedIsOwn` (`LockedCertificate`). `LockInv` ties a locked pointer to the connection of the request it
  came from; `ViewsAreFields` computes the six starts in the buffer for any sizes.

Only model-checked: the four liveness properties of `progress` (`SendAnswered`,
`RegisteredWaiterReleased`, `CloseTerminates`, `NullStreamAnswered`), since fairness and ENABLED are out of
the prover's reach. Every invariant and action property of the other passing runs is a theorem, and so
is the refinement. The violations of section 4 are counterexamples TLC finds.

## 6. Not modelled

Every operation of the program that changes state is an action of a module. Left out:

* The calls to OpenSSL and mbedTLS in `remote_context::setup` that read the fields of a
  certificate, and what `mg_tls_init` does with credentials: I/O of other libraries.
* `http/internal/common.hpp`: a table of reason phrases and named codes, without state.
* The example program except for its poll loop, its worker threads and its producer loop.
* The life of the texts behind `string_view`s: an asset's path, credentials given as views. The
  caller owns them; with a dangling one the program's behaviour is undefined.
* Configuration from a second thread, and two threads on one handle: nothing in the code or
  in its documents promises that they work.
* A worker that logs after the last server with a callback is gone, and a log callback that logs.
* Allocation failures: the code looks for none.

Nothing of the plan is left. What could still be proved is how far the hypotheses of section 5 can be
weakened, such as `TerminatedOnce` for pipelined requests.
