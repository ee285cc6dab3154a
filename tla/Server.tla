------------------------------- MODULE Server -------------------------------
(***************************************************************************)
(* The life of a server and its endpoints, on the thread that owns them:   *)
(* listen_http, the calls that configure an endpoint before or while it    *)
(* serves (from a handler too), connections that come and go, and ~server. *)
(* mongoose keeps raw pointers: a listening connection to its endpoint, an *)
(* accepted one to its remote_context, which points to the endpoint.       *)
(***************************************************************************)
EXTENDS Routing, TlsConfig

CONSTANTS
    Endpoints,  \* the results of listen_http
    Secure,     \* those whose host is an https URL
    Conns,      \* connections that may be open at a time
    Calls,      \* the configuration calls that are made, a subset of ConfigCall
    MaxCalls,   \* bound: configuration calls in all
    MaxServers  \* bound: servers constructed, one after the other

\* What a configuration call asks for, and the call.
What ==
    [op : {"request"}, path : Paths, async : BOOLEAN]
    \union [op : {"fallback"}, async : BOOLEAN]
    \union [op : {"asset"}, path : Paths, extras : BOOLEAN]
    \union [op : {"assets"}, path : Paths]
    \union [op : {"use_tls"}, form : {"string", "view"}, ca : Given, pair : Given \ {"absent"}]

ConfigCall == [e : Endpoints, what : What]

ASSUME ServerAssumption ==
    /\ Endpoints # {}
    /\ Secure \subseteq Endpoints
    /\ Calls \subseteq ConfigCall
    /\ MaxCalls \in Nat
    /\ MaxServers \in Nat

VARIABLES
    server,     \* "off", "starting" (in its constructor), "up" or "stopping" (in ~server)
    built,      \* the number of servers constructed so far, the last one is server
    log_fn,     \* which of them mongoose has for its log function, or 0
    callbacks,  \* history: the servers constructed with a log callback
    endpoints,  \* endpoints[e]: who keeps endpoint e alive, and whether it listens
    routes,     \* routes[e]: m_listeners, m_assets, m_fallback
    tls,        \* tls[e]: m_tls_ca, m_tls_cert, m_tls_key, m_tls_alloc
    heap,       \* the copies made by use_tls and not freed yet
    conns,      \* conns[c]: an accepted connection
    running,    \* the request whose MG_EV_HTTP_MSG is being handled
    calls       \* history: every configuration call, in order

serverVars == <<server, built, log_fn, callbacks>>
vars == <<serverVars, endpoints, routes, tls, heap, conns, running, calls>>

\* held: the application has its shared_ptr; owned: it is in m_endpoints;
\* listening: its listening connection is open, with fn_data its address. Nobody
\* has an endpoint that is not there.
Endpoint ==
    [state : {"none", "destroyed"}, held : {FALSE}, owned : {FALSE}, listening : {FALSE}]
    \union [state : {"live"}, held : BOOLEAN, owned : BOOLEAN, listening : BOOLEAN]

\* open: it has been accepted and is not closed; via: the endpoint of its
\* remote_context; context: fn_data is that context; creds: what mg_tls_init got;
\* at: history, Len(calls) at the accept.
Conn == [open : BOOLEAN, via : Endpoints, context : BOOLEAN,
         creds : Credentials, at : Nat]
AnEndpoint == CHOOSE e \in Endpoints : TRUE
NoConn == [open |-> FALSE, via |-> AnEndpoint, context |-> FALSE, creds |-> NoCredentials, at |-> 0]

\* at: history, Len(calls) when handle_http_message chose outcome.
Running == [on : BOOLEAN, e : Endpoints, uri : Uris, outcome : Outcome, at : Nat]
NotRunning == [on |-> FALSE, e |-> AnEndpoint, uri |-> CHOOSE u \in Uris : TRUE,
               outcome |-> NotFound, at |-> 0]

Init ==
    /\ server = "off" /\ built = 0 /\ log_fn = 0 /\ callbacks = {}
    /\ endpoints = [e \in Endpoints |->
          [state |-> "none", held |-> FALSE, owned |-> FALSE, listening |-> FALSE]]
    /\ routes = [e \in Endpoints |-> NoRoutes]
    /\ tls = [e \in Endpoints |-> NoTls]
    /\ heap = {}
    /\ conns = [c \in Conns |-> NoConn]
    /\ running = NotRunning
    /\ calls = <<>>

-----------------------------------------------------------------------------
\* Mutant of Construct: the logger is registered after the manager is started.
ConstructLogLast(callback) ==
    /\ server = "off" /\ built < MaxServers
    /\ server' = "starting"
    /\ built' = built + 1
    /\ callbacks' = IF callback THEN callbacks \union {built + 1} ELSE callbacks
    /\ UNCHANGED <<log_fn, endpoints, routes, tls, heap, conns, running, calls>>

\* The constructors: with a callback, register_logger gives mongoose the address
\* of the server before start.
Construct(callback) ==
    /\ server = "off" /\ built < MaxServers
    /\ server' = "starting"
    /\ built' = built + 1
    /\ callbacks' = IF callback THEN callbacks \union {built + 1} ELSE callbacks
    /\ log_fn' = IF callback THEN built + 1 ELSE log_fn
    /\ UNCHANGED <<endpoints, routes, tls, heap, conns, running, calls>>

\* start: a new manager, and the wakeup pipe.
Start ==
    /\ server = "starting"
    /\ server' = "up"
    /\ UNCHANGED <<built, log_fn, callbacks, endpoints, routes, tls, heap, conns, running, calls>>

\* Mutant of ListenHttp: the endpoint is not kept in m_endpoints.
ListenHttpNotKept(e) ==
    /\ server = "up" /\ ~running.on
    /\ endpoints[e].state = "none"
    /\ endpoints' = [endpoints EXCEPT ![e] =
          [state |-> "live", held |-> TRUE, owned |-> FALSE, listening |-> TRUE]]
    /\ UNCHANGED <<serverVars, routes, tls, heap, conns, running, calls>>

\* listen_http: the endpoint goes to m_endpoints and to the caller, or, when
\* mongoose cannot listen, is destroyed at once.
ListenHttp(e) ==
    /\ server = "up" /\ ~running.on
    /\ endpoints[e].state = "none"
    /\ \/ endpoints' = [endpoints EXCEPT ![e] =
             [state |-> "live", held |-> TRUE, owned |-> TRUE, listening |-> TRUE]]
       \/ endpoints' = [endpoints EXCEPT ![e] =
             [state |-> "destroyed", held |-> FALSE, owned |-> FALSE, listening |-> FALSE]]
    /\ UNCHANGED <<serverVars, routes, tls, heap, conns, running, calls>>

\* The application's code runs, outside of the server or in a handler, and has e.
Has(e) ==
    /\ server \notin {"starting", "stopping"}
    /\ running.on => running.outcome.by \in {"listener", "fallback"}
    /\ endpoints[e].held

\* It makes configuration call w on e.
Call(e, w) ==
    /\ Has(e)
    /\ Len(calls) < MaxCalls
    /\ calls' = Append(calls, [e |-> e, what |-> w])
    /\ UNCHANGED <<serverVars, endpoints, conns, running>>

\* The registration calls.
Register(e, w) ==
    /\ w.op # "use_tls"
    /\ Call(e, w)
    /\ routes' = [routes EXCEPT ![e] =
          LET n == Len(calls) + 1
          IN  CASE w.op = "request" -> OnRequest(@, w.path, w.async, n)
                [] w.op = "fallback" -> OnFallback(@, w.async, n)
                [] w.op = "asset" -> OnAsset(@, w.path, w.extras, n)
                [] w.op = "assets" -> OnAssets(@, w.path, n)]
    /\ UNCHANGED <<tls, heap>>

\* use_tls
Secured(e, w) ==
    /\ w.op = "use_tls"
    /\ Call(e, w)
    /\ tls' = [tls EXCEPT ![e] = UseTls(@, Len(calls) + 1, w.form, w.ca, w.pair)]
    /\ heap' = heap \union Copies(Len(calls) + 1, w.form, w.ca, w.pair)
    /\ UNCHANGED routes

\* The application lets its shared_ptr go: the last one destroys the endpoint.
Drop(e) ==
    /\ Has(e)
    /\ endpoints' = [endpoints EXCEPT ![e] =
          [state |-> IF @.owned THEN @.state ELSE "destroyed",
           held |-> FALSE, owned |-> @.owned, listening |-> @.listening]]
    /\ heap' = IF endpoints[e].owned THEN heap ELSE heap \ Freed(tls[e])
    /\ UNCHANGED <<serverVars, routes, tls, conns, running, calls>>

-----------------------------------------------------------------------------
\* MG_EV_ACCEPT: event_manager_handler passes it to the endpoint of the listening
\* connection, which secures the new one and gives it a remote_context.
Accept(e, c) ==
    /\ server = "up" /\ ~running.on
    /\ endpoints[e].listening
    /\ ~conns[c].open
    /\ conns' = [conns EXCEPT ![c] =
          [open |-> TRUE, via |-> e, context |-> TRUE,
           creds |-> IF e \in Secure THEN Offered(tls[e]) ELSE NoCredentials,
           at |-> Len(calls)]]
    /\ UNCHANGED <<serverVars, endpoints, routes, tls, heap, running, calls>>

\* MG_EV_HTTP_MSG: through the remote_context to handle_http_message, which picks
\* who serves the request. HttpEndpoint has what serving it does.
Receive(c, uri) ==
    /\ server = "up" /\ ~running.on
    /\ conns[c].open
    /\ \E outcome \in Serve(routes[conns[c].via], uri) :
          running' = [on |-> TRUE, e |-> conns[c].via, uri |-> uri, outcome |-> outcome,
                      at |-> Len(calls)]
    /\ UNCHANGED <<serverVars, endpoints, routes, tls, heap, conns, calls>>

\* The handler returns.
Return ==
    /\ running.on
    /\ running' = NotRunning
    /\ UNCHANGED <<serverVars, endpoints, routes, tls, heap, conns, calls>>

\* MG_EV_CLOSE of an accepted connection: its context is deleted. Another client
\* may connect in its place.
Close(c) ==
    /\ ~running.on
    /\ conns[c].open
    /\ conns' = [conns EXCEPT ![c] = NoConn]
    /\ UNCHANGED <<serverVars, endpoints, routes, tls, heap, running, calls>>

-----------------------------------------------------------------------------
\* ~server begins: mg_mgr_free is about to close every connection.
Stop ==
    /\ server = "up" /\ ~running.on
    /\ server' = "stopping"
    /\ UNCHANGED <<built, log_fn, callbacks, endpoints, routes, tls, heap, conns, running, calls>>

\* MG_EV_CLOSE of a listening connection, which goes to the endpoint and finds
\* no context to delete.
CloseListening(e) ==
    /\ server = "stopping"
    /\ endpoints[e].listening
    /\ endpoints' = [endpoints EXCEPT ![e] =
          [state |-> @.state, held |-> @.held, owned |-> @.owned, listening |-> FALSE]]
    /\ UNCHANGED <<serverVars, routes, tls, heap, conns, running, calls>>

\* The endpoints that go with m_endpoints.
Orphans == {e \in Endpoints : endpoints[e].owned /\ ~endpoints[e].held}

\* Mutant of Release: m_endpoints is destroyed before the manager is freed.
ReleaseFirst ==
    /\ server = "stopping"
    /\ server' = "off"
    /\ endpoints' = [e \in Endpoints |->
          [state |-> IF e \in Orphans THEN "destroyed" ELSE endpoints[e].state,
           held |-> endpoints[e].held, owned |-> FALSE, listening |-> endpoints[e].listening]]
    /\ heap' = heap \ UNION {Freed(tls[e]) : e \in Orphans}
    /\ UNCHANGED <<built, log_fn, callbacks, routes, tls, conns, running, calls>>

\* stop has returned, and the members of the server are destroyed.
Release ==
    /\ server = "stopping"
    /\ \A e \in Endpoints : ~endpoints[e].listening
    /\ \A c \in Conns : ~conns[c].open
    /\ server' = "off"
    /\ endpoints' = [e \in Endpoints |->
          [state |-> IF e \in Orphans THEN "destroyed" ELSE endpoints[e].state,
           held |-> endpoints[e].held, owned |-> FALSE, listening |-> endpoints[e].listening]]
    /\ heap' = heap \ UNION {Freed(tls[e]) : e \in Orphans}
    /\ UNCHANGED <<built, log_fn, callbacks, routes, tls, conns, running, calls>>

Next ==
    \/ \E e \in Endpoints :
          \/ ListenHttp(e) \/ Drop(e) \/ CloseListening(e)
          \/ \E c \in Conns : Accept(e, c)
    \/ \E call \in Calls : Register(call.e, call.what) \/ Secured(call.e, call.what)
    \/ \E c \in Conns : Close(c) \/ \E uri \in Uris : Receive(c, uri)
    \/ Return \/ Stop \/ Release
    \/ Start \/ \E callback \in BOOLEAN : Construct(callback)

Spec == Init /\ [][Next]_vars

-----------------------------------------------------------------------------
\* The shape of every variable.
TypeOK ==
    /\ server \in {"off", "starting", "up", "stopping"}
    /\ built \in 0..MaxServers
    /\ log_fn \in 0..built
    /\ callbacks \subseteq 1..built
    /\ endpoints \in [Endpoints -> Endpoint]
    /\ routes \in [Endpoints -> Routes]
    /\ tls \in [Endpoints -> Tls]
    /\ heap \subseteq Buffer
    /\ conns \in [Conns -> Conn]
    /\ running \in Running
    /\ calls \in Seq(ConfigCall)

Live(e) == endpoints[e].state = "live"

\* mongoose never raises an event through a dead pointer: while a connection is
\* open or listening, its context and the endpoint behind it are alive, whoever
\* let go of them in whatever order; and a context goes with its connection.
\* (event_manager_handler, event_manager_context_handler, ~server)
PointersAlive ==
    /\ \A e \in Endpoints : endpoints[e].listening => Live(e)
    /\ \A c \in Conns :
          /\ conns[c].open <=> conns[c].context
          /\ conns[c].open => Live(conns[c].via)
    /\ running.on => Live(running.e)

\* Whatever mongoose logs while a server starts, runs or stops reaches the
\* callback of that server, never one that is destroyed; after servers with
\* callbacks this needs a callback of its own. (register_logger before start,
\* and m_logger destroyed after stop)
LogsReachTheLiving ==
    server # "off" =>
       \/ log_fn = IF built \in callbacks THEN built ELSE 0
       \/ built \notin callbacks /\ callbacks # {}

-----------------------------------------------------------------------------
AssetOps == {"asset", "assets"}

\* Two registration calls that are about the same entry.
SameEntry(w, v) ==
    /\ w.op = v.op \/ {w.op, v.op} \subseteq AssetOps
    /\ w.op \in {"request"} \union AssetOps => w.path = v.path

\* Of the first n calls, the registrations on e that no later one replaced.
Standing(e, n) ==
    {k \in 1..n :
       /\ calls[k].e = e /\ calls[k].what.op # "use_tls"
       /\ \A l \in k + 1..n :
             calls[l].e = e /\ calls[l].what.op # "use_tls"
                => ~SameEntry(calls[l].what, calls[k].what)}

\* The URI of the directory that a path ending in a wildcard segment stands for.
DirectoryUri(path) ==
    CHOOSE uri \in {SubSeq(path, 1, k) : k \in 0..Len(path)} : uri \o <<"/", "#">> = path

\* What registration k asks for.
Asked(k) ==
    LET w == calls[k].what
        base == [NotFound EXCEPT !.id = k]
    IN  CASE w.op = "request" ->
               [base EXCEPT !.by = "listener", !.async = w.async, !.slots = MgSlots(w.path)]
          [] w.op = "fallback" -> [base EXCEPT !.by = "fallback", !.async = w.async]
          [] w.op = "asset" -> [base EXCEPT !.by = "file", !.extras = IF w.extras THEN k ELSE 0]
          [] w.op = "assets" -> [base EXCEPT !.by = "dir", !.root = DirectoryUri(w.path)]

\* A path of e registered both as a file and as a directory.
KindsMixed(e, path) ==
    \A op \in AssetOps : \E k \in DOMAIN calls :
       calls[k].e = e /\ calls[k].what.op = op /\ calls[k].what.path = path

\* A request is served as the last registration of some matching path asked:
\* listeners before assets before the fallback before 404, with the kind of
\* callback it was registered with and room for the captures of its own path.
\* An asset path changed from file to directory or back is left out: it keeps
\* parts of what it was. (handle_http_message)
ServedAsRegistered ==
    running.on =>
       LET e == running.e
           matching == Matching[running.uri]
           standing == Standing(e, running.at)
           for(ops) == {k \in standing : calls[k].what.op \in ops
                                         /\ (ops # {"fallback"} => calls[k].what.path \in matching)}
           first == IF for({"request"}) # {} THEN for({"request"})
                    ELSE IF for(AssetOps) # {} THEN for(AssetOps)
                    ELSE for({"fallback"})
       IN  \/ first = {} /\ running.outcome = NotFound
           \/ \E k \in first : running.outcome = Asked(k)
           \/ \E p \in matching : running.outcome.by \in {"file", "dir"} /\ KindsMixed(e, p)

\* The callback of the request being handled is not destroyed under it by what
\* it registers, unless it registers its own path (or the fallback itself) anew.
\* (insert_or_assign in on_request, called from a handler)
RunningCallbackAlive ==
    LET r == routes[running.e]
        id == running.outcome.id
    IN  running.on /\ running.outcome.by \in {"listener", "fallback"} =>
           \/ \E p \in Paths : r.listeners[p].id = id
           \/ r.fallback.id = id
           \/ \E k \in running.at + 1..Len(calls) :
                 /\ calls[k].e = running.e
                 /\ calls[k].what.op = calls[id].what.op
                 /\ SameEntry(calls[k].what, calls[id].what)

-----------------------------------------------------------------------------
\* The use_tls calls on e among the first n.
TlsCalls(e, n) == {k \in 1..n : calls[k].e = e /\ calls[k].what.op = "use_tls"}

FormsMixed(e) ==
    \E k, l \in TlsCalls(e, Len(calls)) : calls[k].what.form # calls[l].what.form

\* k is the last of the calls S.
IsLast(k, S) == k \in S /\ \A l \in S : l <= k

\* The buffer that call k was asked to use for a part.
AskedBuffer(k, part) ==
    [call |-> k, part |-> part, copy |-> calls[k].what.form = "string"]

\* An https connection got certificate and key of the last use_tls before it was
\* accepted, never a mixture, and the CA of the last one that named a CA: it is
\* asked for a client certificate until a call takes the CA back. (handle_secure)
SecuredAsConfigured ==
    \A c \in Conns :
       conns[c].open =>
          LET mine == TlsCalls(conns[c].via, conns[c].at)
              withCA == {k \in mine : calls[k].what.ca # "absent"}
              creds == conns[c].creds
          IN  IF creds.on
              THEN /\ conns[c].via \in Secure
                   /\ \E k \in mine : /\ IsLast(k, mine)
                                      /\ creds.cert = AskedBuffer(k, "cert")
                                      /\ creds.key = AskedBuffer(k, "key")
                   /\ \/ creds.ca = NoBuffer
                         /\ \A k \in withCA : IsLast(k, withCA) => calls[k].what.ca = "empty"
                      \/ \E k \in withCA : /\ IsLast(k, withCA)
                                           /\ calls[k].what.ca = "text"
                                           /\ creds.ca = AskedBuffer(k, "ca")
              ELSE \/ conns[c].via \notin Secure
                   \/ \A k \in mine : IsLast(k, mine) => calls[k].what.pair = "empty"

\* What ~endpoint would free is a copy that use_tls made and nobody freed, as
\* long as strings and views are not both given to the endpoint.
FreesItsCopies ==
    \A e \in Endpoints : Live(e) /\ ~FormsMixed(e) => Freed(tls[e]) \subseteq heap

\* A copy outlives its endpoint only if a later use_tls took its place.
LeaksOnlyReplaced ==
    \A b \in heap :
       LET e == calls[b.call].e
       IN  ~Live(e) => \E k \in TlsCalls(e, Len(calls)) :
                          k > b.call /\ (b.part = "ca" => calls[k].what.ca # "absent")

=============================================================================
