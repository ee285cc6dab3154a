---------------------------- MODULE HttpEndpoint -----------------------------
(***************************************************************************)
(* http::endpoint, driven by the mongoose event loop, composed with the    *)
(* worker threads that answer asynchronous requests. One thread runs every *)
(* handler; a handler that loads a shared m_state and stores to it later   *)
(* takes two steps, so that workers can run in between.                    *)
(***************************************************************************)
EXTENDS AsyncResponse

CONSTANT Routes   \* how a request may be served, see HttpMessage

ASSUME EndpointAssumption == Routes \subseteq {"reply", "stream", "silent", "async"}

VARIABLES
    counter,    \* endpoint::m_request_counter
    responses,  \* responses[c]: the ids in m_pending_responses[c]
    streams,    \* streams[c]: the ids in m_pending_streams[c]
    ctx,        \* ctx[c]: remote_context::m_stream, the synchronous producer
    loop        \* the handler the event loop is in the middle of

endpointVars == <<counter, responses, streams, ctx, loop>>
workerVars == <<owner, ord, pc>>
vars == <<mongooseVars, streamVars, workerVars, responseVars, endpointVars>>

\* m_stream: on while it holds a producer, for request req, after n chunks.
Context == [on : BOOLEAN, req : Nat, n : Nat]
NoContext == [on |-> FALSE, req |-> 0, n |-> 0]

\* What the loop is doing: nothing, replying from the payload of response id,
\* or serving stream id, whose state it loaded as seen.
Loop == [op : {"idle", "reply", "stream"}, id : Ids, seen : StreamState]
Idle == [op |-> "idle", id |-> 0, seen |-> "start"]

Init ==
    /\ MongooseInit
    /\ owner = [i \in Ids |-> CHOOSE c \in Conns : TRUE]
    /\ ord = [i \in Ids |-> 0]
    /\ sState = [i \in Ids |-> "start"]
    /\ sData = [i \in Ids |-> NoData]
    /\ pc = [i \in Ids |-> "none"]
    /\ rState = [i \in Ids |-> "pending"]
    /\ rPayload = [i \in Ids |-> FALSE]
    /\ rStream = [i \in Ids |-> FALSE]
    /\ counter = 0
    /\ responses = [c \in Conns |-> {}]
    /\ streams = [c \in Conns |-> {}]
    /\ ctx = [c \in Conns |-> NoContext]
    /\ loop = Idle

-----------------------------------------------------------------------------
\* MG_EV_ACCEPT: the connection gets its remote_context.
Accept(c) ==
    /\ loop = Idle /\ mgr = "running"
    /\ phase[c] = "idle"
    /\ phase' = [phase EXCEPT ![c] = "open"]
    /\ ctx' = [ctx EXCEPT ![c] = NoContext]
    /\ UNCHANGED <<out, reqs, pipe, mgr, streamVars, workerVars, responseVars,
                   counter, responses, streams, loop>>

\* The next request of c enters the endpoint.
Dispatch(c) ==
    /\ loop = Idle /\ mgr = "running"
    /\ phase[c] = "open"
    /\ Pipelined \/ ~out[c].busy
    /\ reqs[c] < MaxRequests
    /\ reqs' = [reqs EXCEPT ![c] = @ + 1]
    /\ UNCHANGED <<phase, pipe, mgr, streamVars, loop, streams, responseVars>>

Busy(o) == [busy |-> TRUE, len |-> o.len, wire |-> o.wire]

\* A synchronous listener or fallback that sends, an asset, or the 404: one
\* whole response.
ServeReply(c) ==
    /\ "reply" \in Routes
    /\ Dispatch(c)
    /\ out' = [out EXCEPT ![c] = MgHttpReply(Busy(@), reqs[c] + 1, "reply")]
    /\ UNCHANGED <<workerVars, counter, responses, ctx>>

\* A synchronous listener that calls response::stream: the preamble is sent and
\* the producer handed to the remote_context.
ServeStream(c) ==
    /\ "stream" \in Routes
    /\ Dispatch(c)
    /\ out' = [out EXCEPT ![c] = MgSend(Busy(@), reqs[c] + 1, "preamble", 0)]
    /\ ctx' = [ctx EXCEPT ![c] = [on |-> TRUE, req |-> reqs[c] + 1, n |-> 0]]
    /\ UNCHANGED <<workerVars, counter, responses>>

\* A synchronous listener that answers nothing.
ServeSilent(c) ==
    /\ "silent" \in Routes
    /\ Dispatch(c)
    /\ out' = [out EXCEPT ![c] = Busy(@)]
    /\ UNCHANGED <<workerVars, counter, responses, ctx>>

\* Mutant of ServeAsync: the request takes the counter's value after ++.
ServeAsyncNextId(c) ==
    /\ "async" \in Routes
    /\ counter \in Ids
    /\ Dispatch(c)
    /\ out' = [out EXCEPT ![c] = Busy(@)]
    /\ counter' = counter + 1
    /\ responses' = [responses EXCEPT ![c] = @ \union {counter + 1}]
    /\ owner' = [owner EXCEPT ![counter + 1] = c]
    /\ ord' = [ord EXCEPT ![counter + 1] = reqs[c] + 1]
    /\ pc' = [pc EXCEPT ![counter + 1] = "begin"]
    /\ UNCHANGED ctx

\* An asynchronous listener or fallback: a pending response is registered and
\* the callback starts a worker thread with it.
ServeAsync(c) ==
    /\ "async" \in Routes
    /\ counter \in Ids
    /\ Dispatch(c)
    /\ out' = [out EXCEPT ![c] = Busy(@)]
    /\ counter' = counter + 1
    /\ responses' = [responses EXCEPT ![c] = @ \union {counter}]
    /\ owner' = [owner EXCEPT ![counter] = c]
    /\ ord' = [ord EXCEPT ![counter] = reqs[c] + 1]
    /\ pc' = [pc EXCEPT ![counter] = "begin"]
    /\ UNCHANGED ctx

\* handle_http_message
HttpMessage(c) == ServeReply(c) \/ ServeStream(c) \/ ServeSilent(c) \/ ServeAsync(c)


-----------------------------------------------------------------------------
\* The loop delivers the oldest wakeup.
TakeWakeup(i) ==
    /\ loop = Idle /\ mgr = "running"
    /\ pipe # <<>> /\ i = Head(pipe)
    /\ pipe' = Tail(pipe)
    /\ UNCHANGED <<phase, reqs, mgr, streamVars, workerVars, rState, rPayload,
                   counter, ctx>>

Known(i) == i \in responses[owner[i]] \union streams[owner[i]]

\* mongoose drops the wakeup of a closed connection. On an open one, an id in
\* neither map is answered 500 by handle_response and again by handle_wakeup.
WakeUnknown(i) ==
    /\ TakeWakeup(i)
    /\ ~Known(i)
    /\ out' = IF phase[owner[i]] = "open"
              THEN [out EXCEPT ![owner[i]] =
                      MgHttpReply(MgHttpReply(@, 0, "error"), 0, "error")]
              ELSE out
    /\ UNCHANGED <<rStream, responses, streams, loop>>

\* handle_response of a response that is not streaming (yet).
WakeResponse(i) ==
    /\ TakeWakeup(i)
    /\ i \in responses[owner[i]] \ streams[owner[i]]
    /\ rState[i] # "streaming"
    /\ loop' = [op |-> "reply", id |-> i, seen |-> "start"]
    /\ UNCHANGED <<out, rStream, responses, streams>>

\* handle_stream, reached directly or after handle_response has moved the
\* stream from the response to m_pending_streams. It loads the stream's state;
\* a state that asks for nothing waits for a write to flush the connection.
WakeStreamOf(i) ==
    /\ TakeWakeup(i)
    /\ LET c == owner[i]
           moves == i \notin streams[c]
       IN  /\ Known(i)
           /\ moves => rState[i] = "streaming"
           /\ streams' = [streams EXCEPT ![c] = @ \union {i}]
           /\ responses' = IF moves THEN [responses EXCEPT ![c] = @ \ {i}]
                                    ELSE responses
           /\ rStream' = IF moves THEN [rStream EXCEPT ![i] = FALSE] ELSE rStream
    /\ loop' = IF sState[i] \in {"start", "has_data", "close"}
               THEN [op |-> "stream", id |-> i, seen |-> sState[i]]
               ELSE Idle
    /\ UNCHANGED out

HandleWakeup ==
    \E i \in Ids : WakeUnknown(i) \/ WakeResponse(i) \/ WakeStreamOf(i)

\* Mutant of FinishReply: every pending response of the connection is erased.
FinishReplyClear ==
    /\ loop.op = "reply"
    /\ LET i == loop.id
           c == owner[i]
       IN  /\ out' = [out EXCEPT ![c] =
                        MgHttpReply(@, ord[i], IF rPayload[i] THEN "reply" ELSE "invalid")]
           /\ rState' = [rState EXCEPT ![i] = "completed"]
           /\ responses' = [responses EXCEPT ![c] = {}]
    /\ loop' = Idle
    /\ UNCHANGED <<phase, reqs, pipe, mgr, streamVars, workerVars, rPayload, rStream,
                   counter, streams, ctx>>

\* The rest of handle_response: the payload is sent and the entry erased. A
\* response woken before it has a payload is sent as it is, with code -1.
FinishReply ==
    /\ loop.op = "reply"
    /\ LET i == loop.id
           c == owner[i]
       IN  /\ out' = [out EXCEPT ![c] =
                        MgHttpReply(@, ord[i], IF rPayload[i] THEN "reply" ELSE "invalid")]
           /\ rState' = [rState EXCEPT ![i] = "completed"]
           /\ responses' = [responses EXCEPT ![c] = @ \ {i}]
    /\ loop' = Idle
    /\ UNCHANGED <<phase, reqs, pipe, mgr, streamVars, workerVars, rPayload, rStream,
                   counter, streams, ctx>>

\* The rest of handle_stream on start and has_data: m_data is moved out and
\* sent, then the stream waits for the flush.
FinishData ==
    /\ loop.op = "stream" /\ loop.seen # "close"
    /\ LET i == loop.id
           c == owner[i]
       IN  /\ out' = [out EXCEPT ![c] =
                        IF loop.seen = "start"
                        THEN MgSend(@, ord[i], "preamble", sData[i].n)
                        ELSE MgHttpWriteChunk(@, ord[i], sData[i].n, sData[i].size)]
           /\ sData' = [sData EXCEPT ![i] = [n |-> @.n, size |-> 0]]
           /\ sState' = [sState EXCEPT ![i] = "flush"]
           /\ pc' = Notify({i})
    /\ loop' = Idle
    /\ UNCHANGED <<phase, reqs, pipe, mgr, owner, ord, responseVars, counter,
                   responses, streams, ctx>>

\* Mutant of FinishClose: the completed stream stays in m_pending_streams.
FinishCloseKeep ==
    /\ loop.op = "stream" /\ loop.seen = "close"
    /\ LET i == loop.id
           c == owner[i]
       IN  /\ out' = [out EXCEPT ![c] = MgHttpWriteChunk(@, ord[i], sData[i].n, 0)]
           /\ sState' = [sState EXCEPT ![i] = "completed"]
           /\ pc' = Notify({i})
    /\ loop' = Idle
    /\ UNCHANGED <<phase, reqs, pipe, mgr, owner, ord, sData, responseVars, counter,
                   responses, streams, ctx>>

\* The rest of handle_stream on close.
FinishClose ==
    /\ loop.op = "stream" /\ loop.seen = "close"
    /\ LET i == loop.id
           c == owner[i]
       IN  /\ out' = [out EXCEPT ![c] = MgHttpWriteChunk(@, ord[i], sData[i].n, 0)]
           /\ sState' = [sState EXCEPT ![i] = "completed"]
           /\ pc' = Notify({i})
           /\ streams' = [streams EXCEPT ![c] = @ \ {i}]
    /\ loop' = Idle
    /\ UNCHANGED <<phase, reqs, pipe, mgr, owner, ord, sData, responseVars, counter,
                   responses, ctx>>

-----------------------------------------------------------------------------
\* Mutant of HandlePoll: a failed response is answered and not erased.
HandlePollKeep(c) ==
    /\ loop = Idle /\ mgr = "running"
    /\ phase[c] = "open"
    /\ \E i \in responses[c] :
          /\ rState[i] = "failed"
          /\ out' = [out EXCEPT ![c] = MgHttpReply(@, ord[i], "error")]
    /\ UNCHANGED <<phase, reqs, pipe, mgr, streamVars, workerVars, responseVars,
                   counter, responses, streams, ctx, loop>>

\* handle_poll: 500 for each failed response of c, in the map's order.
HandlePoll(c) ==
    /\ loop = Idle /\ mgr = "running"
    /\ phase[c] = "open"
    /\ LET failed == {i \in responses[c] : rState[i] = "failed"}
           N == Cardinality(failed)
       IN  /\ failed # {}
           /\ \E order \in [1..N -> failed] :
                 /\ \A k, l \in 1..N : order[k] = order[l] => k = l
                 /\ out' = [out EXCEPT ![c] =
                      [busy |-> FALSE,
                       len |-> @.len + N,
                       wire |-> @.wire \o
                         [k \in 1..N |-> [req |-> ord[order[k]], kind |-> "error", n |-> 0]]]]
           /\ responses' = [responses EXCEPT ![c] = @ \ failed]
    /\ UNCHANGED <<phase, reqs, pipe, mgr, streamVars, workerVars, responseVars,
                   counter, streams, ctx, loop>>

\* Mutant of PumpStream: m_stream is not reset after the terminating chunk.
PumpStreamNoReset(c, o) ==
    LET x == ctx[c]
        next == [on |-> TRUE, req |-> x.req, n |-> x.n + 1]
    IN  IF ~x.on \/ o.len >= IoSize \/ x.n > MaxChunks THEN {[out |-> o, ctx |-> x]}
        ELSE {[out |-> MgHttpWriteChunk(o, x.req, x.n + 1, size), ctx |-> next] :
                 size \in ChunkSizes \union {0}}

\* pump_stream: a connection with room takes one chunk of its synchronous
\* stream, or the terminating chunk when the producer has none left.
PumpStream(c, o) ==
    LET x == ctx[c]
    IN  IF ~x.on \/ o.len >= IoSize THEN {[out |-> o, ctx |-> x]}
        ELSE {[out |-> MgHttpWriteChunk(o, x.req, x.n + 1, 0), ctx |-> NoContext]}
             \union {[out |-> MgHttpWriteChunk(o, x.req, x.n + 1, size),
                      ctx |-> [on |-> TRUE, req |-> x.req, n |-> x.n + 1]] :
                        size \in {s \in ChunkSizes : x.n < MaxChunks}}

\* Mutant of PumpAsyncStreams: the send buffer is not looked at.
PumpAsyncStreamsAlways(o) == {i \in UNION {streams[d] : d \in Conns} : sState[i] = "flush"}

\* pump_async_stream for every stream of every connection, given the
\* connection that has just been written.
PumpAsyncStreams(o) ==
    IF o.len >= IoSize THEN {}
    ELSE {i \in UNION {streams[d] : d \in Conns} : sState[i] = "flush"}

Drain(o, sent) == [busy |-> o.busy, len |-> o.len - sent, wire |-> o.wire]

\* MG_EV_WRITE: mongoose has sent some of c's output down the wire.
HandleWrite(c) ==
    /\ loop = Idle /\ mgr = "running"
    /\ phase[c] = "open"
    /\ \E sent \in 1..out[c].len :
       \E pumped \in PumpStream(c, Drain(out[c], sent)) :
          LET ready == PumpAsyncStreams(pumped.out)
          IN  /\ out' = [out EXCEPT ![c] = pumped.out]
              /\ ctx' = [ctx EXCEPT ![c] = pumped.ctx]
              /\ sState' = [i \in Ids |-> IF i \in ready THEN "empty" ELSE sState[i]]
              /\ pc' = Notify(ready)
    /\ UNCHANGED <<phase, reqs, pipe, mgr, owner, ord, sData, responseVars,
                   counter, responses, streams, loop>>

\* MG_EV_CLOSE, when the peer leaves or mg_mgr_free closes every connection.
HandleClose(c) ==
    /\ loop = Idle
    /\ phase[c] = "open"
    /\ mgr = "stopping" \/ (mgr = "running" /\ "disconnect" \in Disruptions)
    /\ phase' = [phase EXCEPT ![c] = "closed"]
    /\ rState' = [i \in Ids |-> IF i \in responses[c] THEN "failed" ELSE rState[i]]
    /\ sState' = [i \in Ids |-> IF i \in streams[c] THEN "failed" ELSE sState[i]]
    /\ pc' = Notify(streams[c])
    /\ responses' = [responses EXCEPT ![c] = {}]
    /\ streams' = [streams EXCEPT ![c] = {}]
    /\ ctx' = [ctx EXCEPT ![c] = NoContext]
    /\ UNCHANGED <<out, reqs, pipe, mgr, owner, ord, sData, rPayload, rStream,
                   counter, loop>>

-----------------------------------------------------------------------------
\* server::stop, from ~server: the wakeup pipe goes, and every connection is
\* about to be closed.
Stop ==
    /\ "shutdown" \in Disruptions
    /\ loop = Idle /\ mgr = "running"
    /\ mgr' = "stopping"
    /\ pipe' = <<>>
    /\ UNCHANGED <<phase, out, reqs, streamVars, workerVars, responseVars, endpointVars>>

\* ~server returns: m_mgr is released.
Release ==
    /\ mgr = "stopping"
    /\ \A c \in Conns : phase[c] # "open"
    /\ mgr' = "released"
    /\ UNCHANGED <<phase, out, reqs, pipe, streamVars, workerVars, responseVars,
                   endpointVars>>

Worker(i) ==
    /\ \/ Responder(i)
       \/ Producer(i) /\ UNCHANGED responseVars
    /\ UNCHANGED <<owner, ord, endpointVars>>

Finish == FinishReply \/ FinishData \/ FinishClose

Next ==
    \/ \E c \in Conns : \/ Accept(c) \/ HttpMessage(c) \/ HandlePoll(c)
                        \/ HandleWrite(c) \/ HandleClose(c)
    \/ HandleWakeup \/ Finish
    \/ Stop \/ Release
    \/ \E i \in Ids : Worker(i)

Spec == Init /\ [][Next]_vars

(***************************************************************************)
(* The loop thread polls forever, so mongoose keeps dispatching wakeups,   *)
(* polls and writes and finishes what it began; a worker that has begun to *)
(* answer keeps running. Clients owe nothing, and a worker need not begin. *)
(***************************************************************************)
Fairness ==
    /\ WF_vars(HandleWakeup) /\ WF_vars(Finish) /\ WF_vars(Release)
    /\ \A c \in Conns : /\ WF_vars(HandlePoll(c))
                        /\ WF_vars(HandleWrite(c))
                        /\ WF_vars(mgr = "stopping" /\ HandleClose(c))
    /\ \A i \in Ids : WF_vars(pc[i] # "begin" /\ Worker(i))

FairSpec == Spec /\ Fairness

-----------------------------------------------------------------------------
\* The shape of every variable.
TypeOK ==
    /\ phase \in [Conns -> {"idle", "open", "closed"}]
    /\ out \in [Conns -> Outlet]
    /\ reqs \in [Conns -> Nat]
    /\ pipe \in Seq(Ids)
    /\ mgr \in {"running", "stopping", "released"}
    /\ owner \in [Ids -> Conns]
    /\ ord \in [Ids -> Nat]
    /\ sState \in [Ids -> StreamState]
    /\ sData \in [Ids -> Data]
    /\ pc \in [Ids -> PC]
    /\ rState \in [Ids -> ResponseState]
    /\ rPayload \in [Ids -> BOOLEAN]
    /\ rStream \in [Ids -> BOOLEAN]
    /\ counter \in 0..MaxAsync
    /\ responses \in [Conns -> SUBSET Ids]
    /\ streams \in [Conns -> SUBSET Ids]
    /\ ctx \in [Conns -> Context]
    /\ loop \in Loop

\* What a client parses: a chunk or the terminating chunk continues the chunked
\* response before it with no chunk lost, repeated or reordered, and anything
\* else begins the answer to a later request when the last answer is complete.
\* (Each handler and worker appends its frames to conn->send on its own.)
WellFormed(wire) ==
    \A p \in DOMAIN wire :
       LET f == wire[p]
       IN  IF f.kind \in {"chunk", "last"}
           THEN /\ p > 1
                /\ wire[p - 1].kind \in {"preamble", "chunk"}
                /\ f.req = wire[p - 1].req
                /\ f.n = wire[p - 1].n + 1
           ELSE /\ f.req > IF p = 1 THEN 0 ELSE wire[p - 1].req
                /\ p > 1 => wire[p - 1].kind \in Whole \union {"last"}

WireWellFormed == \A c \in Conns : WellFormed(out[c].wire)

\* A wakeup sent by send(), stream() or close() still finds its request in one
\* of the endpoint's maps when the loop gets to it, unless the connection has
\* closed: handle_wakeup never answers 500 for a request it has forgotten.
EveryWakeupHasTarget ==
    \A k \in DOMAIN pipe : phase[owner[pipe[k]]] = "open" => Known(pipe[k])

\* An entry of m_pending_responses or m_pending_streams is a request of that
\* open connection which is in no other entry and whose answer is not complete.
PendingUnanswered ==
    \A c \in Conns :
       /\ responses[c] \intersect streams[c] = {}
       /\ \A i \in responses[c] \union streams[c] :
             /\ owner[i] = c
             /\ phase[c] = "open"
             /\ \A p \in DOMAIN out[c].wire :
                   out[c].wire[p].req = ord[i] =>
                      i \in streams[c] /\ out[c].wire[p].kind \in {"preamble", "chunk"}

\* Between the load of m_state in handle_stream and the store that follows it,
\* the worker neither writes m_state nor holds the turn to write m_data, so
\* no update is lost and the unsynchronised m_data is never read while written.
LoadedStateFresh ==
    loop.op = "stream" =>
        /\ sState[loop.id] = loop.seen
        /\ pc[loop.id] # "ready"

\* A thread parked in async_stream::wait() is not parked on a state that wait()
\* would return for: every store of such a state is followed by a notify.
NoLostNotify ==
    \A i \in Ids :
       pc[i] = "parked" => sState[i] \notin {"empty", "failed", "completed"}

\* Back-pressure: a chunk is added to a connection only when its send buffer is
\* below MG_IO_SIZE, by pump_stream and by a producer let go by mark_empty.
ChunkBackpressure ==
    [][\A c \in Conns :
          LET w == out'[c].wire
          IN  Len(w) > Len(out[c].wire) /\ w[Len(w)].kind = "chunk" =>
                 out'[c].len - 1 < IoSize]_out

-----------------------------------------------------------------------------
\* A frame that completes the answer to request i is on the wire.
Answered(i) ==
    \E p \in DOMAIN out[owner[i]].wire :
       /\ out[owner[i]].wire[p].req = ord[i]
       /\ out[owner[i]].wire[p].kind \in Whole \union {"last"}

\* async_response::send() is answered, with the payload or with the 500 of
\* handle_poll, unless the connection closes first.
SendAnswered ==
    \A i \in Ids : pc[i] = "send_wake" ~> Answered(i) \/ phase[owner[i]] # "open"

\* A producer parked on a stream that the endpoint has in m_pending_streams is
\* released: by the flush, by the failure of the connection or by completion.
RegisteredWaiterReleased ==
    \A i \in Ids :
       pc[i] = "parked" /\ i \in streams[owner[i]] ~> pc[i] # "parked"

\* async_response::stream() that gives its caller nullptr because it could not
\* wake the loop is answered too: handle_poll finds the failed response, unless
\* the connection closes first.
NullStreamAnswered ==
    \A i \in Ids :
       pc[i] = "null" /\ i \in responses[owner[i]] ~> Answered(i) \/ phase[owner[i]] # "open"

\* async_stream::close() whose wakeup was sent puts the terminating chunk on
\* the wire, unless the connection closes first.
CloseTerminates ==
    \A i \in Ids :
       sState[i] = "close" /\ pc[i] = "exit" ~> Answered(i) \/ phase[owner[i]] # "open"

-----------------------------------------------------------------------------
\* A request answered by async_response::stream() never gets the unset payload
\* of send(): README.md, "You can send chunked responses asynchronously too".
StreamNeverRepliedInvalid ==
    \A c \in Conns : \A p \in DOMAIN out[c].wire : out[c].wire[p].kind # "invalid"

\* The producer loop of README.md leaves wait() after every chunk, to go on or
\* to find that the stream failed(), once the endpoint has begun the stream.
BegunWaiterReleased ==
    \A i \in Ids :
       pc[i] = "parked" /\ (\E p \in DOMAIN out[owner[i]].wire :
                              /\ out[owner[i]].wire[p].req = ord[i]
                              /\ out[owner[i]].wire[p].kind = "preamble")
          ~> pc[i] # "parked"

\* README.md, of nullopt and of close(): "termination chunk is sent". One
\* response has one terminating chunk.
OneTermination ==
    \A c \in Conns : \A p, q \in DOMAIN out[c].wire :
       /\ out[c].wire[p].kind = "last" /\ out[c].wire[q].kind = "last"
       /\ out[c].wire[p].req = out[c].wire[q].req
       => p = q
-----------------------------------------------------------------------------
(***************************************************************************)
(* Why EveryWakeupHasTarget holds: a request has at most one wakeup in     *)
(* flight, and while it has one nothing removes the request from the maps. *)
(***************************************************************************)
InPipe(i) == \E k \in DOMAIN pipe : pipe[k] = i
InLoop(i) == loop.op # "idle" /\ loop.id = i
InFlight(i) == InPipe(i) \/ InLoop(i)

Opening == {"begin", "send_wake", "stream_wake"}
Turn == {"ready", "data_wake", "close_wake"}
Streaming == {"return", "null", "wait", "parked", "exit"} \union Turn

\* No id is queued twice, and the one the loop serves is not queued.
OneWakeup ==
    /\ \A k, l \in DOMAIN pipe : pipe[k] = pipe[l] => k = l
    /\ loop.op # "idle" => ~InPipe(loop.id)

\* What the loop is in the middle of serving is still in its map.
LoopHasTarget ==
    /\ loop.op = "reply" => loop.id \in responses[owner[loop.id]]
    /\ loop.op = "stream" => loop.id \in streams[owner[loop.id]]

\* The worker acts only while no wakeup of its request is in flight.
TurnTaking(i) ==
    /\ pc[i] \in {"none"} \union Opening \union Turn => ~InFlight(i)
    /\ sState[i] \in {"flush", "empty"} => ~InFlight(i)
    /\ pc[i] \in {"none"} \union Opening => sState[i] = "start"
    /\ pc[i] \in {"data_wake", "close_wake"} => sState[i] \in {"has_data", "close", "failed"}
    /\ rState[i] = "streaming" => pc[i] \in Streaming

\* The maps know the request as long as it can be woken.
Remembered(i) ==
    /\ i >= counter => pc[i] = "none"
    /\ pc[i] = "none" => rState[i] = "pending"
    /\ pc[i] # "none" => phase[owner[i]] # "idle"
    /\ phase[owner[i]] = "open" =>
          /\ pc[i] \in Opening => i \in responses[owner[i]]
          /\ pc[i] \in Turn => i \in streams[owner[i]]
          /\ sState[i] \in {"flush", "empty"} => i \in streams[owner[i]]
          /\ InPipe(i) => Known(i)

\* An entry of a map: what HandlePoll erases is not about to be woken.
Entries(c) ==
    /\ \A i \in responses[c] :
          /\ owner[i] = c /\ pc[i] # "none"
          /\ rState[i] = "failed" => pc[i] \in {"done", "null"} /\ ~InFlight(i)
    /\ \A i \in streams[c] : owner[i] = c /\ pc[i] \in Streaming

\* The inductive invariant.
WakeupInv ==
    /\ OneWakeup
    /\ LoopHasTarget
    /\ \A i \in Ids : TurnTaking(i) /\ Remembered(i)
    /\ \A c \in Conns : Entries(c)

-----------------------------------------------------------------------------
\* When the producer's loop is over, failed() tells the truth: unless the stream
\* has failed, its terminating chunk is on the wire or the wakeup that brings it
\* there is in flight, as long as the connection is open and no wakeup is lost.
\* (async_stream::close, whose wakeup may fail, and the failed() of README.md)
ExitTerminated ==
    \A i \in Ids :
       pc[i] = "exit" /\ phase[owner[i]] = "open" /\ mgr = "running"
          => sState[i] = "failed" \/ InFlight(i) \/ Answered(i)

\* The endpoint forgets no asynchronous request of an open connection: it is in
\* one of the maps, where a wakeup, a poll or the close will find it, or its answer
\* is complete. (Every erase in handle_response, handle_stream and handle_poll)
NothingForgotten ==
    \A i \in Ids :
       pc[i] # "none" /\ phase[owner[i]] = "open" => Known(i) \/ Answered(i)

=============================================================================
