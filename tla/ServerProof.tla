----------------------------- MODULE ServerProof -----------------------------
(***************************************************************************)
(* Server: its types, the pointers mongoose keeps, its log function, the   *)
(* callback that runs, the TLS buffers of an endpoint, the credentials of  *)
(* its connections, and who serves a request.                              *)
(***************************************************************************)
EXTENDS Server, FiniteSetTheorems, SequenceTheorems, TLAPS

-----------------------------------------------------------------------------
\* A registration call has a path of Paths where it has one.
LEMMA WhatParts ==
  ASSUME NEW w \in What
  PROVE  /\ w.op \in {"request", "fallback", "asset", "assets", "use_tls"}
         /\ w.op = "request" => w.path \in Paths /\ w.async \in BOOLEAN
         /\ w.op = "fallback" => w.async \in BOOLEAN
         /\ w.op = "asset" => w.path \in Paths /\ w.extras \in BOOLEAN
         /\ w.op = "assets" => w.path \in Paths
         /\ w.op = "use_tls" => /\ w.form \in {"string", "view"}
                                /\ w.ca \in Given /\ w.pair \in Given /\ w.pair # "absent"
BY DEF What

\* A slice is a buffer, and a copy only of a string.
LEMMA SliceType ==
  ASSUME NEW n \in Nat, NEW part \in Part, NEW form, NEW given \in Given, NEW old \in Buffer
  PROVE  Slice(n, part, form, given, old) \in Buffer
BY DEF Slice, Given, Buffer, NoBuffer, Part

\* use_tls leaves a TLS configuration, and makes buffers.
LEMMA UseTlsType ==
  ASSUME NEW t \in Tls, NEW n \in Nat, NEW form, NEW ca \in Given, NEW pair \in Given
  PROVE  UseTls(t, n, form, ca, pair) \in Tls /\ Copies(n, form, ca, pair) \subseteq Buffer
<1>1. UseTls(t, n, form, ca, pair) \in Tls
  BY SliceType DEF UseTls, Tls, Part
<1>2. Copies(n, form, ca, pair) \subseteq Buffer
  <2>1. NoBuffer \in Buffer
    BY DEF NoBuffer, Buffer, Part
  <2> QED
    BY <2>1, SliceType DEF Copies, Part
<1> QED
  BY <1>1, <1>2

\* count_groups counts the wildcards of a path, which is finite.
LEMMA GroupsType ==
  ASSUME NEW p \in Paths
  PROVE  count_groups(p) \in Nat
<1>1. p \in Seq(STRING)
  BY RoutingAssumption
<1>2. IsFiniteSet(DOMAIN p)
  BY <1>1, FS_Interval
<1>3. IsFiniteSet({k \in DOMAIN p : p[k] \in {"?", "*", "#"}})
  BY <1>2, FS_Subset
<1> QED
  BY <1>3, FS_CardinalityType DEF count_groups

\* A registration leaves a routing table.
LEMMA RegistrationType ==
  ASSUME NEW r \in Routes, NEW n \in Nat, NEW w \in What
  PROVE  /\ w.op = "request" => OnRequest(r, w.path, w.async, n) \in Routes
         /\ w.op = "fallback" => OnFallback(r, w.async, n) \in Routes
         /\ w.op = "asset" => OnAsset(r, w.path, w.extras, n) \in Routes
         /\ w.op = "assets" => OnAssets(r, w.path, n) \in Routes
<1> USE WhatParts
<1>1. ASSUME w.op = "request" PROVE OnRequest(r, w.path, w.async, n) \in Routes
  <2>1. [id |-> n, async |-> w.async, groups |-> count_groups(w.path)] \in Listener
    BY <1>1, GroupsType DEF Listener
  <2> QED
    BY <1>1, <2>1 DEF OnRequest, Routes
<1>2. ASSUME w.op = "fallback" PROVE OnFallback(r, w.async, n) \in Routes
  BY <1>2 DEF OnFallback, Routes, Listener
<1>3. ASSUME w.op = "asset" PROVE OnAsset(r, w.path, w.extras, n) \in Routes
  BY <1>3 DEF OnAsset, Routes, Asset
<1>4. ASSUME w.op = "assets" PROVE OnAssets(r, w.path, n) \in Routes
  BY <1>4 DEF OnAssets, Routes, Asset
<1> QED
  BY <1>1, <1>2, <1>3, <1>4
\* handle_http_message chooses an outcome.
LEMMA ServeType ==
  ASSUME NEW r \in Routes, NEW uri \in Uris, NEW o \in Serve(r, uri)
  PROVE  o \in Outcome
<1>1. NotFound \in Outcome
  BY DEF NotFound, Outcome
<1>2. ASSUME NEW by \in {"listener", "fallback"}, NEW l \in Listener, NEW n \in Nat
      PROVE  Called(by, l, n) \in Outcome
  BY DEF Called, NotFound, Outcome, Listener
<1>3. ASSUME NEW p \in Paths, NEW a \in Asset
      PROVE  FromAsset(p, a) \in Outcome
  <2>1. p \in Seq(STRING)
    BY RoutingAssumption
  <2>2. RootDir(p) \in Seq(STRING)
    <3>1. CASE Len(p) < 2
      BY <2>1, <3>1 DEF RootDir
    <3>2. CASE ~(Len(p) < 2)
      <4>1. /\ Len(p) \in Nat
            /\ \A k \in 1..(Len(p) - 2) : p[k] \in STRING
            /\ 1 \in Int /\ Len(p) - 2 \in Int
        BY <2>1
      <4>2. SubSeq(p, 1, Len(p) - 2) \in Seq(STRING)
        BY <4>1, SubSeqProperties
      <4> QED
        BY <3>2, <4>2 DEF RootDir
    <3> QED
      BY <3>1, <3>2
  <2> DEFINE root == IF a.is_dir THEN RootDir(p) ELSE <<>>
             by == IF a.is_dir THEN "dir" ELSE "file"
  <2>3. root \in Seq(STRING)
    <3>1. CASE a.is_dir
      BY <2>2, <3>1
    <3>2. CASE ~a.is_dir
      BY <3>2
    <3> QED
      BY <3>1, <3>2
  <2>4. by \in {"file", "dir"}
    OBVIOUS
  <2>5. FromAsset(p, a) = [by |-> by, id |-> a.path, async |-> FALSE, slots |-> 0,
                           extras |-> a.extras, root |-> root]
    BY DEF FromAsset
  <2> HIDE DEF root, by
  <2> QED
    BY <2>3, <2>4, <2>5 DEF Outcome, Asset
<1>4. \A p \in Matching[uri] : p \in Paths
  BY DEF Matching
<1>5. /\ r.fallback \in Listener
      /\ \A p \in Paths : r.listeners[p] \in Listener
      /\ \A p \in Paths : r.assets[p] \in Asset
  BY DEF Routes
<1>6. \A l \in Listener : l.groups + 1 \in Nat
  BY DEF Listener
<1> QED
  BY <1>1, <1>2, <1>3, <1>4, <1>5, <1>6 DEF Serve

-----------------------------------------------------------------------------
\* The values of nothing.
LEMMA NothingType ==
  NoConn \in Conn /\ NotRunning \in Running /\ NoRoutes \in Routes /\ NoTls \in Tls
<1>1. AnEndpoint \in Endpoints
  BY ServerAssumption DEF AnEndpoint
<1>2. (CHOOSE u \in Uris : TRUE) \in Uris
  BY RoutingAssumption
<1>3. NoCredentials \in Credentials /\ NoTls \in Tls
  BY DEF NoCredentials, Credentials, NoBuffer, Buffer, Part, NoTls, Tls
<1>4. NotFound \in Outcome
  BY DEF NotFound, Outcome
<1>5. NoRoutes \in Routes
  BY DEF NoRoutes, Routes, NoListener, Listener, NoAsset, Asset
<1> QED
  BY <1>1, <1>2, <1>3, <1>4, <1>5 DEF NoConn, Conn, NotRunning, Running

\* A configuration call keeps the types.
LEMMA CallTypes ==
  ASSUME TypeOK, NEW call \in Calls,
         Register(call.e, call.what) \/ Secured(call.e, call.what)
  PROVE  TypeOK'
<1>1. /\ call.e \in Endpoints /\ call.what \in What
      /\ [e |-> call.e, what |-> call.what] \in ConfigCall
  BY ServerAssumption DEF ConfigCall
<1>2. Len(calls) + 1 \in Nat
  BY DEF TypeOK
<1>3. Call(call.e, call.what)
  BY DEF Register, Secured
<1>4. calls' \in Seq(ConfigCall)
  BY <1>1, <1>3 DEF TypeOK, Call
<1>5. CASE Register(call.e, call.what)
  <2>1. routes' \in [Endpoints -> Routes]
    BY <1>1, <1>2, <1>5, RegistrationType, WhatParts DEF TypeOK, Register
  <2> QED
    BY <1>3, <1>4, <1>5, <2>1 DEF TypeOK, Register, Call, serverVars
<1>6. CASE Secured(call.e, call.what)
  <2>1. tls' \in [Endpoints -> Tls] /\ heap' \subseteq Buffer
    BY <1>1, <1>2, <1>6, UseTlsType, WhatParts DEF TypeOK, Secured
  <2> QED
    BY <1>3, <1>4, <1>6, <2>1 DEF TypeOK, Secured, Call, serverVars
<1> QED
  BY <1>5, <1>6

-----------------------------------------------------------------------------
(***************************************************************************)
(* Why the pointers are alive: an endpoint that mongoose can reach is in   *)
(* m_endpoints, and m_endpoints lives as long as the manager.              *)
(***************************************************************************)
LifeInv ==
    /\ \A e \in Endpoints :
          /\ endpoints[e].owned => Live(e) /\ server \in {"up", "stopping"}
          /\ endpoints[e].listening => endpoints[e].owned
    /\ \A c \in Conns :
          /\ conns[c].open <=> conns[c].context
          /\ conns[c].open => endpoints[conns[c].via].owned
    /\ running.on => server = "up" /\ endpoints[running.e].owned

\* What becomes of an endpoint keeps the types.
LEMMA EndpointTypes ==
  ASSUME TypeOK, LifeInv, NEW e \in Endpoints, ListenHttp(e) \/ Drop(e) \/ CloseListening(e)
  PROVE  TypeOK'
<1> USE DEF TypeOK, serverVars
<1>1. CASE ListenHttp(e)
  <2> DEFINE live == [state |-> "live", held |-> TRUE, owned |-> TRUE, listening |-> TRUE]
             gone == [state |-> "destroyed", held |-> FALSE, owned |-> FALSE, listening |-> FALSE]
  <2>1. live \in Endpoint /\ gone \in Endpoint
    BY DEF Endpoint
  <2>2. /\ endpoints' = [endpoints EXCEPT ![e] = live] \/ endpoints' = [endpoints EXCEPT ![e] = gone]
        /\ UNCHANGED <<serverVars, routes, tls, heap, conns, running, calls>>
    BY <1>1 DEF ListenHttp
  <2> HIDE DEF live, gone
  <2> QED
    BY <2>1, <2>2
<1>2. endpoints[e] \in Endpoint /\ endpoints[e].state \in {"none", "live", "destroyed"}
  BY DEF Endpoint
<1>3. CASE CloseListening(e)
  <2>1. endpoints[e].state = "live" /\ endpoints[e].held \in BOOLEAN /\ endpoints[e].owned \in BOOLEAN
    BY <1>2, <1>3 DEF CloseListening, Endpoint
  <2> QED
    BY <1>3, <2>1 DEF CloseListening, Endpoint
<1>4. CASE Drop(e)
  <2>1. /\ endpoints[e].state = "live"
        /\ endpoints[e].owned \in BOOLEAN /\ endpoints[e].listening \in BOOLEAN
    BY <1>2, <1>4 DEF Drop, Has, Endpoint
  <2>2. endpoints[e].listening => endpoints[e].owned
    BY DEF LifeInv
  <2> QED
    BY <1>4, <2>1, <2>2 DEF Drop, Endpoint
<1> QED
  BY <1>1, <1>3, <1>4

\* So does a connection that comes, asks or goes.
LEMMA ConnTypes ==
  ASSUME TypeOK, NEW c \in Conns,
         \/ \E e \in Endpoints : Accept(e, c)
         \/ \E uri \in Uris : Receive(c, uri)
         \/ Close(c)
  PROVE  TypeOK'
<1> USE DEF TypeOK, serverVars
<1>1. ASSUME NEW e \in Endpoints, Accept(e, c) PROVE TypeOK'
  <2>1. NoCredentials \in Credentials /\ \A t \in Tls : Offered(t) \in Credentials
    BY DEF Offered, Tls, Credentials, NoCredentials, NoBuffer, Buffer, Part
  <2>2. Len(calls) \in Nat
    OBVIOUS
  <2>3. conns' \in [Conns -> Conn]
    BY <1>1, <2>1, <2>2 DEF Accept, Conn
  <2> QED
    BY <1>1, <2>3 DEF Accept
<1>2. ASSUME NEW uri \in Uris, Receive(c, uri) PROVE TypeOK'
  <2>1. conns[c].via \in Endpoints
    BY DEF Conn
  <2>2. Serve(routes[conns[c].via], uri) \subseteq Outcome
    BY <2>1, ServeType
  <2>3. Len(calls) \in Nat
    OBVIOUS
  <2>4. running' \in Running
    BY <1>2, <2>1, <2>2, <2>3 DEF Receive, Running
  <2> QED
    BY <1>2, <2>4 DEF Receive
<1>3. CASE Close(c)
  BY <1>3, NothingType DEF Close
<1> QED
  BY <1>1, <1>2, <1>3

\* So does the life of the server, and a handler that returns.
LEMMA LifeTypes ==
  ASSUME TypeOK, Start \/ Stop \/ Release \/ Return \/ \E callback \in BOOLEAN : Construct(callback)
  PROVE  TypeOK'
<1> USE DEF TypeOK, serverVars
<1>1. CASE Start
  BY <1>1 DEF Start
<1>2. CASE Stop
  BY <1>2 DEF Stop
<1>3. CASE Release
  <2>1. endpoints' \in [Endpoints -> Endpoint]
    BY <1>3 DEF Release, Orphans, Endpoint
  <2> QED
    BY <1>3, <2>1 DEF Release
<1>4. CASE Return
  BY <1>4, NothingType DEF Return
<1>5. ASSUME NEW callback \in BOOLEAN, Construct(callback) PROVE TypeOK'
  BY <1>5, ServerAssumption DEF Construct
<1> QED
  BY <1>1, <1>2, <1>3, <1>4, <1>5

\* Calls leave the invariant alone, and so does the rest that moves no pointer.
LEMMA CallLife ==
  ASSUME TypeOK, LifeInv, NEW call \in Calls,
         Register(call.e, call.what) \/ Secured(call.e, call.what)
  PROVE  LifeInv'
BY DEF LifeInv, Live, Register, Secured, Call, serverVars

\* An endpoint that is made, dropped or stops listening.
LEMMA EndpointLife ==
  ASSUME TypeOK, LifeInv, NEW e \in Endpoints, ListenHttp(e) \/ Drop(e) \/ CloseListening(e)
  PROVE  LifeInv'
<1> USE DEF TypeOK, LifeInv, Live, serverVars
<1>1. UNCHANGED <<server, conns, running>> /\ \A d \in Endpoints : d # e => endpoints'[d] = endpoints[d]
  BY DEF ListenHttp, Drop, CloseListening
<1>2. (\A c \in Conns : conns[c].via \in Endpoints) /\ running.e \in Endpoints
  BY DEF Conn, Running
<1>3. CASE ListenHttp(e)
  <2>1. endpoints[e].state = "none" /\ ~endpoints[e].owned /\ ~endpoints[e].listening
    BY <1>3 DEF ListenHttp, Endpoint
  <2>2. /\ server = "up"
        /\ \/ endpoints'[e].state = "live" /\ endpoints'[e].owned
           \/ endpoints'[e].owned = FALSE /\ endpoints'[e].listening = FALSE
    BY <1>3, <2>1 DEF ListenHttp
  <2> QED
    BY <1>1, <1>2, <2>1, <2>2
<1>4. CASE Drop(e)
  <2>1. /\ endpoints'[e].owned = endpoints[e].owned
        /\ endpoints'[e].listening = endpoints[e].listening
        /\ endpoints[e].owned => endpoints'[e].state = endpoints[e].state
    BY <1>4 DEF Drop, Endpoint
  <2> QED
    BY <1>1, <1>2, <2>1
<1>5. CASE CloseListening(e)
  <2>1. /\ endpoints'[e].owned = endpoints[e].owned
        /\ endpoints'[e].listening = FALSE
        /\ endpoints'[e].state = endpoints[e].state
    BY <1>5 DEF CloseListening, Endpoint
  <2> QED
    BY <1>1, <1>2, <2>1
<1> QED
  BY <1>3, <1>4, <1>5

\* A connection that comes, asks or goes.
LEMMA ConnLife ==
  ASSUME TypeOK, LifeInv, NEW c \in Conns,
         \/ \E e \in Endpoints : Accept(e, c)
         \/ \E uri \in Uris : Receive(c, uri)
         \/ Close(c)
  PROVE  LifeInv'
<1> USE DEF TypeOK, LifeInv, Live, serverVars
<1>1. ASSUME NEW e \in Endpoints, Accept(e, c) PROVE LifeInv'
  BY <1>1 DEF Accept
<1>2. ASSUME NEW uri \in Uris, Receive(c, uri) PROVE LifeInv'
  BY <1>2 DEF Receive
<1>3. CASE Close(c)
  BY <1>3 DEF Close, NoConn
<1> QED
  BY <1>1, <1>2, <1>3

\* The server.
LEMMA ServerLife ==
  ASSUME TypeOK, LifeInv, Start \/ Stop \/ Release \/ Return \/ \E callback \in BOOLEAN : Construct(callback)
  PROVE  LifeInv'
<1> USE DEF TypeOK, LifeInv, Live, serverVars
<1>1. CASE Start \/ Stop \/ Return
  BY <1>1 DEF Start, Stop, Return, NotRunning
<1>2. CASE Release
  <2>1. ~running.on /\ \A c \in Conns : ~conns[c].open
    BY <1>2 DEF Release
  <2>2. \A e \in Endpoints : ~endpoints'[e].owned /\ ~endpoints'[e].listening
    BY <1>2 DEF Release, Endpoint
  <2> QED
    BY <1>2, <2>1, <2>2 DEF Release
<1>3. ASSUME NEW callback \in BOOLEAN, Construct(callback) PROVE LifeInv'
  BY <1>3 DEF Construct
<1> QED
  BY <1>1, <1>2, <1>3

\* The types and LifeInv hold together: a destroyed endpoint has no listening
\* connection because those that have are in m_endpoints.
LEMMA Inductive == Spec => [](TypeOK /\ LifeInv)
<1>1. Init => TypeOK /\ LifeInv
  <2>1. Init => TypeOK
    BY NothingType, ServerAssumption DEF Init, TypeOK, Endpoint
  <2>2. Init => LifeInv
    BY DEF Init, LifeInv, NoConn, NotRunning
  <2> QED
    BY <2>1, <2>2
<1>2. TypeOK /\ LifeInv /\ [Next]_vars => (TypeOK /\ LifeInv)'
  <2>1. TypeOK /\ LifeInv /\ Next => TypeOK'
    BY CallTypes, EndpointTypes, ConnTypes, LifeTypes DEF Next
  <2>2. TypeOK /\ LifeInv /\ Next => LifeInv'
    BY CallLife, EndpointLife, ConnLife, ServerLife DEF Next
  <2>3. TypeOK /\ UNCHANGED vars => TypeOK'
    BY DEF TypeOK, vars, serverVars
  <2>4. LifeInv /\ UNCHANGED vars => LifeInv'
    BY DEF LifeInv, Live, vars, serverVars
  <2> QED
    BY <2>1, <2>2, <2>3, <2>4
<1> QED
  BY <1>1, <1>2, PTL DEF Spec

\* Every variable keeps its type, for all endpoints, connections, paths and calls.
THEOREM TypeCorrect == Spec => []TypeOK
BY Inductive, PTL

\* mongoose never raises an event through a dead pointer, whatever the
\* application drops and whenever it destroys the server. (~server, listen_http)
THEOREM PointersStayAlive == Spec => []PointersAlive
<1>1. TypeOK /\ LifeInv => PointersAlive
  BY DEF TypeOK, LifeInv, PointersAlive, Conn, Running
<1> QED
  BY <1>1, Inductive, PTL

-----------------------------------------------------------------------------
\* What the logs need: only Construct changes them.
LogInv ==
    /\ LogsReachTheLiving
    /\ server = "off" => log_fn \in callbacks \union {0}
    /\ log_fn = 0 <=> callbacks = {}
    /\ log_fn \in callbacks \union {0}

\* While a server lives, mongoose logs to it, to nobody, or, after servers with
\* callbacks, to no living one only if it has no callback. (register_logger)
THEOREM LogsStayWithTheLiving == Spec => []LogsReachTheLiving
<1>1. Init => LogInv
  BY DEF Init, LogInv, LogsReachTheLiving
<1>2. TypeOK /\ LogInv /\ [Next]_vars => LogInv'
  <2> SUFFICES ASSUME TypeOK, LogInv, [Next]_vars PROVE LogInv'
    OBVIOUS
  <2>1. CASE UNCHANGED <<built, log_fn, callbacks>> /\ (server' = "off" \/ server # "off")
    BY <2>1 DEF LogInv, LogsReachTheLiving
  <2>2. ASSUME NEW callback \in BOOLEAN, Construct(callback) PROVE LogInv'
    BY <2>2 DEF LogInv, LogsReachTheLiving, Construct, TypeOK
  <2>3. CASE UNCHANGED vars
    BY <2>3 DEF LogInv, LogsReachTheLiving, vars, serverVars
  <2>4. CASE UNCHANGED serverVars
    BY <2>4 DEF LogInv, LogsReachTheLiving, serverVars
  <2>5. ASSUME NEW e \in Endpoints, ListenHttp(e) \/ Drop(e) \/ CloseListening(e)
                                    \/ \E c \in Conns : Accept(e, c)
        PROVE  LogInv'
    BY <2>4, <2>5 DEF ListenHttp, Drop, CloseListening, Accept
  <2>6. ASSUME NEW call \in Calls, Register(call.e, call.what) \/ Secured(call.e, call.what)
        PROVE  LogInv'
    BY <2>4, <2>6 DEF Register, Secured, Call
  <2>7. ASSUME NEW c \in Conns, Close(c) \/ \E uri \in Uris : Receive(c, uri) PROVE LogInv'
    BY <2>4, <2>7 DEF Close, Receive
  <2>8. CASE Return
    BY <2>4, <2>8 DEF Return
  <2>9. CASE Stop \/ Release \/ Start
    BY <2>1, <2>9 DEF Stop, Release, Start
  <2> QED
    BY <2>2, <2>3, <2>5, <2>6, <2>7, <2>8, <2>9 DEF Next
<1>3. LogInv => LogsReachTheLiving
  BY DEF LogInv
<1> QED
  BY <1>1, <1>2, <1>3, TypeCorrect, PTL DEF Spec

-----------------------------------------------------------------------------
\* A configuration call is added to the history, which is otherwise kept.
LEMMA CallGrows ==
  ASSUME TypeOK, NEW call \in Calls,
         Register(call.e, call.what) \/ Secured(call.e, call.what)
  PROVE  /\ call.e \in Endpoints /\ call.what \in What /\ Live(call.e)
         /\ Len(calls) \in Nat /\ Len(calls') = Len(calls) + 1
         /\ \A k \in 1..Len(calls) : k \in 1..Len(calls') /\ calls'[k] = calls[k]
         /\ calls'[Len(calls) + 1].e = call.e
         /\ calls'[Len(calls) + 1].what = call.what
         /\ UNCHANGED <<endpoints, conns>>
<1>1. Call(call.e, call.what)
  BY DEF Register, Secured
<1>2. call.e \in Endpoints /\ call.what \in What
  BY ServerAssumption DEF ConfigCall
<1>3. Live(call.e)
  BY <1>1, <1>2 DEF Call, Has, TypeOK, Endpoint, Live
<1>4. UNCHANGED <<endpoints, conns>>
  BY <1>1 DEF Call
<1>5. Len(calls) \in Nat /\ calls \in Seq(ConfigCall)
  BY DEF TypeOK
<1>6. calls' = Append(calls, [e |-> call.e, what |-> call.what])
  BY <1>1 DEF Call
<1>7. /\ Len(calls') = Len(calls) + 1
      /\ \A k \in 1..Len(calls) : calls'[k] = calls[k]
      /\ calls'[Len(calls) + 1] = [e |-> call.e, what |-> call.what]
  BY <1>5, <1>6
<1>8. \A k \in 1..Len(calls) : k \in 1..Len(calls')
  BY <1>5, <1>7
<1> QED
  BY <1>2, <1>3, <1>4, <1>5, <1>7, <1>8

-----------------------------------------------------------------------------
\* Where a listener is kept says which call made it.
ListenerOf(l, e, path) ==
    l # NoListener =>
       /\ l.id \in 1..Len(calls) /\ calls[l.id].e = e
       /\ calls[l.id].what.op = "request" /\ calls[l.id].what.path = path

FallbackOf(l, e) ==
    l # NoListener =>
       /\ l.id \in 1..Len(calls) /\ calls[l.id].e = e
       /\ calls[l.id].what.op = "fallback"

KeptInv ==
    \A e \in Endpoints :
       /\ \A p \in Paths : ListenerOf(routes[e].listeners[p], e, p)
       /\ FallbackOf(routes[e].fallback, e)

\* The callback that runs was made by a call of its kind, and is in its place or
\* was replaced there since.
RunInv ==
    LET id == running.outcome.id
        e == running.e
        r == routes[e]
        Anew(v) == \E k \in running.at + 1..Len(calls) :
                      calls[k].e = e /\ calls[k].what.op = v.op /\ SameEntry(calls[k].what, v)
    IN  running.on /\ running.outcome.by \in {"listener", "fallback"} =>
           /\ running.at \in 0..Len(calls)
           /\ id \in 1..Len(calls) /\ calls[id].e = e
           /\ \/ \E p \in Paths : r.listeners[p].id = id
              \/ r.fallback.id = id
              \/ Anew(calls[id].what)

-----------------------------------------------------------------------------
\* A registration replaces at most the listener of its path, or the fallback.
LEMMA RegisteredTable ==
  ASSUME TypeOK, NEW e \in Endpoints, NEW w \in What, Register(e, w)
  PROVE  /\ \A p \in Paths :
               \/ routes'[e].listeners[p] = routes[e].listeners[p]
               \/ w.op = "request" /\ w.path = p /\ routes'[e].listeners[p].id = Len(calls) + 1
         /\ \/ routes'[e].fallback = routes[e].fallback
            \/ w.op = "fallback" /\ routes'[e].fallback.id = Len(calls) + 1
<1>1. PICK r, n : r = routes[e] /\ n = Len(calls) + 1 /\ r \in Routes
  BY DEF TypeOK
<1>2. CASE w.op = "request"
  <2>1. routes'[e] = OnRequest(r, w.path, w.async, n)
    BY <1>1, <1>2 DEF Register, TypeOK
  <2>2. w.path \in Paths
    BY <1>2, WhatParts
  <2>3. PICK l : l = [id |-> n, async |-> w.async, groups |-> count_groups(w.path)]
    OBVIOUS
  <2>4. routes'[e] = [r EXCEPT !.listeners = [r.listeners EXCEPT ![w.path] = l]] /\ l.id = n
    BY <2>1, <2>3 DEF OnRequest
  <2> QED
    BY <1>1, <1>2, <2>2, <2>4 DEF Routes
<1>3. CASE w.op = "fallback"
  <2>1. routes'[e] = OnFallback(r, w.async, n)
    BY <1>1, <1>3 DEF Register, TypeOK
  <2> QED
    BY <1>1, <1>3, <2>1 DEF OnFallback, Routes
<1>4. CASE w.op = "asset"
  <2>1. routes'[e] = OnAsset(r, w.path, w.extras, n)
    BY <1>1, <1>4 DEF Register, TypeOK
  <2> QED
    BY <1>1, <1>4, <2>1 DEF OnAsset, Routes
<1>5. CASE w.op = "assets"
  <2>1. routes'[e] = OnAssets(r, w.path, n)
    BY <1>1, <1>5 DEF Register, TypeOK
  <2> QED
    BY <1>1, <1>5, <2>1 DEF OnAssets, Routes
<1> QED
  BY <1>2, <1>3, <1>4, <1>5, WhatParts DEF Register

\* A configuration call keeps what the tables say.
LEMMA CallKept ==
  ASSUME TypeOK, KeptInv, NEW call \in Calls,
         Register(call.e, call.what) \/ Secured(call.e, call.what)
  PROVE  KeptInv'
<1>0. PICK d, w, n : d = call.e /\ w = call.what /\ n = Len(calls) + 1
  OBVIOUS
<1>1. /\ d \in Endpoints /\ w \in What /\ n \in Nat /\ n \in 1..Len(calls')
      /\ \A k \in 1..Len(calls) : k \in 1..Len(calls') /\ calls'[k] = calls[k]
      /\ calls'[n].e = d /\ calls'[n].what = w
  BY <1>0, CallGrows
<1>2. \A l, e, p : /\ ListenerOf(l, e, p) => ListenerOf(l, e, p)'
                   /\ FallbackOf(l, e) => FallbackOf(l, e)'
  BY <1>1 DEF ListenerOf, FallbackOf
<1>3. \A l : /\ l.id = n /\ w.op = "request" => ListenerOf(l, d, w.path)'
             /\ l.id = n /\ w.op = "fallback" => FallbackOf(l, d)'
  BY <1>1 DEF ListenerOf, FallbackOf
<1>4. \A e \in Endpoints : e # d \/ Secured(call.e, call.what) => routes'[e] = routes[e]
  BY <1>0, <1>1 DEF Register, Secured, TypeOK
<1>5. ASSUME Register(call.e, call.what)
      PROVE  /\ \A p \in Paths :
                   \/ routes'[d].listeners[p] = routes[d].listeners[p]
                   \/ w.op = "request" /\ w.path = p /\ routes'[d].listeners[p].id = n
             /\ \/ routes'[d].fallback = routes[d].fallback
                \/ w.op = "fallback" /\ routes'[d].fallback.id = n
  BY <1>0, <1>1, <1>5, RegisteredTable
<1>6. ASSUME NEW e \in Endpoints, NEW p \in Paths PROVE ListenerOf(routes[e].listeners[p], e, p)'
  <2>1. PICK old, new : old = routes[e].listeners[p] /\ new = routes'[e].listeners[p]
    OBVIOUS
  <2>2. ListenerOf(old, e, p)
    BY <2>1 DEF KeptInv
  <2>3. new = old \/ (e = d /\ w.op = "request" /\ w.path = p /\ new.id = n)
    BY <1>0, <1>4, <1>5, <2>1
  <2>4. ListenerOf(new, e, p)'
    BY <1>2, <1>3, <2>2, <2>3
  <2> QED
    BY <2>1, <2>4 DEF ListenerOf
<1>7. ASSUME NEW e \in Endpoints PROVE FallbackOf(routes[e].fallback, e)'
  <2>1. PICK old, new : old = routes[e].fallback /\ new = routes'[e].fallback
    OBVIOUS
  <2>2. FallbackOf(old, e)
    BY <2>1 DEF KeptInv
  <2>3. new = old \/ (e = d /\ w.op = "fallback" /\ new.id = n)
    BY <1>0, <1>4, <1>5, <2>1
  <2>4. FallbackOf(new, e)'
    BY <1>2, <1>3, <2>2, <2>3
  <2> QED
    BY <2>1, <2>4 DEF FallbackOf
<1> QED
  BY <1>6, <1>7 DEF KeptInv

\* A request whose handler runs keeps it, whatever is registered meanwhile.
LEMMA CallRun ==
  ASSUME TypeOK, KeptInv, RunInv, NEW call \in Calls,
         Register(call.e, call.what) \/ Secured(call.e, call.what)
  PROVE  RunInv'
<1>0. PICK d, w, n, e, id, at :
         /\ d = call.e /\ w = call.what /\ n = Len(calls) + 1
         /\ e = running.e /\ id = running.outcome.id /\ at = running.at
  OBVIOUS
<1>1. /\ d \in Endpoints /\ w \in What /\ n \in Nat /\ Len(calls) \in Nat /\ Len(calls') = n
      /\ \A k \in 1..Len(calls) : k \in 1..Len(calls') /\ calls'[k] = calls[k]
      /\ calls'[n].e = d /\ calls'[n].what = w
  BY <1>0, CallGrows
<1>2. running' = running /\ e \in Endpoints
  BY <1>0 DEF Register, Secured, Call, TypeOK, Running
<1> SUFFICES ASSUME running.on, running.outcome.by \in {"listener", "fallback"}
             PROVE  /\ at \in 0..Len(calls')
                    /\ id \in 1..Len(calls') /\ calls'[id].e = e
                    /\ \/ \E p \in Paths : routes'[e].listeners[p].id = id
                       \/ routes'[e].fallback.id = id
                       \/ \E k \in at + 1..Len(calls') :
                             /\ calls'[k].e = e /\ calls'[k].what.op = calls'[id].what.op
                             /\ SameEntry(calls'[k].what, calls'[id].what)
  BY <1>0, <1>2 DEF RunInv
<1>3. /\ at \in 0..Len(calls)
      /\ id \in 1..Len(calls) /\ calls[id].e = e
      /\ \/ \E p \in Paths : routes[e].listeners[p].id = id
         \/ routes[e].fallback.id = id
         \/ \E k \in at + 1..Len(calls) :
               /\ calls[k].e = e /\ calls[k].what.op = calls[id].what.op
               /\ SameEntry(calls[k].what, calls[id].what)
  BY <1>0 DEF RunInv
<1>4. at \in 0..Len(calls') /\ id \in 1..Len(calls') /\ calls'[id] = calls[id]
  BY <1>1, <1>3
<1>5. CASE \E k \in at + 1..Len(calls) :
              /\ calls[k].e = e /\ calls[k].what.op = calls[id].what.op
              /\ SameEntry(calls[k].what, calls[id].what)
  <2>1. \A k \in at + 1..Len(calls) : k \in at + 1..Len(calls') /\ calls'[k] = calls[k]
    BY <1>1, <1>3
  <2> QED
    BY <1>3, <1>4, <1>5, <2>1
<1>6. n \in at + 1..Len(calls')
  BY <1>0, <1>1, <1>3
<1>7. CASE routes'[e] = routes[e]
  BY <1>3, <1>4, <1>5, <1>7
<1>8. CASE Register(d, w) /\ d = e
  <2>1. /\ \A p \in Paths :
              \/ routes'[e].listeners[p] = routes[e].listeners[p]
              \/ w.op = "request" /\ w.path = p
        /\ \/ routes'[e].fallback = routes[e].fallback
           \/ w.op = "fallback"
    BY <1>1, <1>8, RegisteredTable
  <2>2. ASSUME NEW p \in Paths, routes[e].listeners[p].id = id, w.op = "request", w.path = p
        PROVE  calls[id].what.op = w.op /\ SameEntry(w, calls[id].what)
    <3>1. ListenerOf(routes[e].listeners[p], e, p)
      BY <1>2 DEF KeptInv
    <3>2. routes[e].listeners[p] # NoListener
      BY <1>3, <2>2 DEF NoListener
    <3> QED
      BY <2>2, <3>1, <3>2 DEF ListenerOf, SameEntry, AssetOps
  <2>3. ASSUME routes[e].fallback.id = id, w.op = "fallback"
        PROVE  calls[id].what.op = w.op /\ SameEntry(w, calls[id].what)
    <3>1. FallbackOf(routes[e].fallback, e)
      BY <1>2 DEF KeptInv
    <3>2. routes[e].fallback # NoListener
      BY <1>3, <2>3 DEF NoListener
    <3> QED
      BY <2>3, <3>1, <3>2 DEF FallbackOf, SameEntry, AssetOps
  <2>4. \/ \E p \in Paths : routes'[e].listeners[p].id = id
        \/ routes'[e].fallback.id = id
        \/ calls[id].what.op = w.op /\ SameEntry(w, calls[id].what)
        \/ \E k \in at + 1..Len(calls) :
              /\ calls[k].e = e /\ calls[k].what.op = calls[id].what.op
              /\ SameEntry(calls[k].what, calls[id].what)
    BY <1>3, <2>1, <2>2, <2>3
  <2> QED
    BY <1>1, <1>3, <1>4, <1>5, <1>6, <1>8, <2>4
<1> QED
  BY <1>0, <1>1, <1>2, <1>7, <1>8 DEF Register, Secured, TypeOK

\* A callback that is chosen is in its place.
LEMMA ChosenCallback ==
  ASSUME NEW r \in Routes, NEW uri \in Uris, NEW o \in Serve(r, uri),
         o.by \in {"listener", "fallback"}
  PROVE  \/ \E p \in Paths : r.listeners[p] # NoListener /\ o.id = r.listeners[p].id
         \/ r.fallback # NoListener /\ o.id = r.fallback.id
<1>1. \A p \in Matching[uri] : p \in Paths
  BY DEF Matching
<1>2. \A path, a : FromAsset(path, a).by \in {"file", "dir"}
  BY DEF FromAsset
<1>3. NotFound.by = "404"
  BY DEF NotFound
<1>4. \A by, l, n : Called(by, l, n).id = l.id
  BY DEF Called
<1> QED
  BY <1>1, <1>2, <1>3, <1>4 DEF Serve

LEMMA ReceiveRun ==
  ASSUME TypeOK, KeptInv, NEW c \in Conns, NEW uri \in Uris, Receive(c, uri)
  PROVE  RunInv'
<1>0. PICK e, r, o : e = conns[c].via /\ r = routes[e] /\ o = running'.outcome
  OBVIOUS
<1>1. /\ e \in Endpoints /\ r \in Routes /\ Len(calls) \in Nat
      /\ o \in Serve(r, uri) /\ running'.e = e /\ running'.at = Len(calls)
      /\ UNCHANGED <<routes, calls>>
  BY <1>0 DEF Receive, TypeOK, Conn
<1> SUFFICES ASSUME o.by \in {"listener", "fallback"}
             PROVE  /\ o.id \in 1..Len(calls) /\ calls[o.id].e = e
                    /\ (\E p \in Paths : r.listeners[p].id = o.id) \/ r.fallback.id = o.id
  BY <1>0, <1>1 DEF RunInv
<1>2. CASE \E p \in Paths : r.listeners[p] # NoListener /\ o.id = r.listeners[p].id
  <2>1. PICK p \in Paths : r.listeners[p] # NoListener /\ o.id = r.listeners[p].id
    BY <1>2
  <2>2. ListenerOf(r.listeners[p], e, p)
    BY <1>0, <1>1 DEF KeptInv
  <2> QED
    BY <2>1, <2>2 DEF ListenerOf
<1>3. CASE r.fallback # NoListener /\ o.id = r.fallback.id
  <2>1. FallbackOf(r.fallback, e)
    BY <1>0, <1>1 DEF KeptInv
  <2> QED
    BY <1>3, <2>1 DEF FallbackOf
<1> QED
  BY <1>1, <1>2, <1>3, ChosenCallback

\* Without a call the tables stay what the calls made them.
LEMMA SameKept ==
  ASSUME KeptInv, UNCHANGED <<routes, calls>>
  PROVE  KeptInv'
<1>1. \A l, e, p : ListenerOf(l, e, p)' <=> ListenerOf(l, e, p)
  BY DEF ListenerOf
<1>2. \A l, e : FallbackOf(l, e)' <=> FallbackOf(l, e)
  BY DEF FallbackOf
<1> QED
  BY <1>1, <1>2 DEF KeptInv

\* The other steps change no table, and end the request or leave it alone.
LEMMA OtherRun ==
  ASSUME KeptInv, RunInv, UNCHANGED <<routes, calls>>, UNCHANGED running \/ Return
  PROVE  KeptInv' /\ RunInv'
<1>1. KeptInv'
  BY SameKept
<1>2. CASE UNCHANGED running
  BY <1>1, <1>2 DEF RunInv
<1>3. CASE Return
  <2>1. ~running'.on
    BY <1>3 DEF Return, NotRunning
  <2> QED
    BY <1>1, <2>1 DEF RunInv
<1> QED
  BY <1>1, <1>2, <1>3

\* The callback of the request being handled is not destroyed under it by what
\* it registers, unless it registers its own path (or the fallback itself) anew.
\* (insert_or_assign in on_request, called from a handler)
THEOREM CallbackStaysAlive == Spec => []RunningCallbackAlive
<1>1. Init => KeptInv /\ RunInv
  BY DEF Init, KeptInv, ListenerOf, FallbackOf, NoRoutes, RunInv, NotRunning
<1>2. TypeOK /\ KeptInv /\ RunInv /\ [Next]_vars => KeptInv' /\ RunInv'
  <2> SUFFICES ASSUME TypeOK, KeptInv, RunInv, [Next]_vars PROVE KeptInv' /\ RunInv'
    OBVIOUS
  <2>1. CASE \E call \in Calls : Register(call.e, call.what) \/ Secured(call.e, call.what)
    BY <2>1, CallKept, CallRun
  <2>2. ASSUME NEW c \in Conns, NEW uri \in Uris, Receive(c, uri) PROVE KeptInv' /\ RunInv'
    <3>1. UNCHANGED <<routes, calls>>
      BY <2>2 DEF Receive
    <3>2. KeptInv'
      BY <3>1, SameKept
    <3> QED
      BY <2>2, <3>2, ReceiveRun
  <2>3. CASE \/ UNCHANGED vars \/ Start \/ Stop \/ Release \/ Return
             \/ \E callback \in BOOLEAN : Construct(callback)
             \/ \E e \in Endpoints : ListenHttp(e) \/ Drop(e) \/ CloseListening(e)
             \/ \E c \in Conns : Close(c) \/ \E e \in Endpoints : Accept(e, c)
    <3>1. UNCHANGED <<routes, calls>> /\ (UNCHANGED running \/ Return)
      BY <2>3 DEF vars, Start, Stop, Release, Return, Construct, ListenHttp, Drop,
                  CloseListening, Close, Accept
    <3> QED
      BY <3>1, OtherRun
  <2> QED
    BY <2>1, <2>2, <2>3 DEF Next
<1>3. RunInv => RunningCallbackAlive
  BY DEF RunInv, RunningCallbackAlive
<1> QED
  BY <1>1, <1>2, <1>3, TypeCorrect, PTL DEF Spec

-----------------------------------------------------------------------------
(***************************************************************************)
(* The TLS buffers of an endpoint: what its destructor frees is there to   *)
(* be freed, what it leaves behind had been replaced, and connections get  *)
(* the credentials that were asked for.                                    *)
(***************************************************************************)
\* The buffer that call n gives for a part.
New(n, part, form) == [call |-> n, part |-> part, copy |-> form = "string"]

LEMMA NewBuffer ==
  ASSUME NEW n, NEW part, NEW form
  PROVE  /\ New(n, part, form).call = n /\ New(n, part, form).part = part
         /\ New(n, part, form).copy <=> form = "string"
         /\ n # 0 => New(n, part, form) # NoBuffer
         /\ ~NoBuffer.copy
BY DEF New, NoBuffer

\* What call n leaves in the slices: the CA that was there, nothing, or its own
\* buffers, which are on the heap if they are copies.
LEMMA UseTlsSlices ==
  ASSUME NEW t \in Tls, NEW n \in Nat \ {0}, NEW form \in {"string", "view"},
         NEW ca \in Given, NEW pair \in {"empty", "text"}
  PROVE  LET u == UseTls(t, n, form, ca, pair)
             copies == Copies(n, form, ca, pair)
         IN  /\ u.ca = IF ca = "absent" THEN t.ca
                       ELSE IF ca = "empty" THEN NoBuffer ELSE New(n, "ca", form)
             /\ u.cert = IF pair = "empty" THEN NoBuffer ELSE New(n, "cert", form)
             /\ u.key = IF pair = "empty" THEN NoBuffer ELSE New(n, "key", form)
             /\ u.alloc <=> t.alloc \/ form = "string"
             /\ form = "string" /\ ca = "text" => New(n, "ca", form) \in copies
             /\ form = "string" /\ pair = "text" => New(n, "cert", form) \in copies
             /\ form = "string" /\ pair = "text" => New(n, "key", form) \in copies
             /\ \A b \in copies :
                   /\ b.call = n /\ b.copy /\ form = "string" /\ b # NoBuffer
                   /\ b \in {u.ca, u.cert, u.key}
<1>1. \A part, old :
         /\ Slice(n, part, form, pair, old) =
               IF pair = "empty" THEN NoBuffer ELSE New(n, part, form)
         /\ Slice(n, part, form, ca, old) =
               IF ca = "absent" THEN old ELSE IF ca = "empty" THEN NoBuffer ELSE New(n, part, form)
  BY DEF Slice, New, Given
<1>2. ca = "absent" \/ ca = "empty" \/ ca = "text"
  BY DEF Given
<1> DEFINE u == UseTls(t, n, form, ca, pair)
           copies == Copies(n, form, ca, pair)
           newCA == IF ca = "text" THEN New(n, "ca", form) ELSE NoBuffer
           newCert == IF pair = "empty" THEN NoBuffer ELSE New(n, "cert", form)
           newKey == IF pair = "empty" THEN NoBuffer ELSE New(n, "key", form)
<1>3. /\ u.ca = (IF ca = "absent" THEN t.ca ELSE newCA)
      /\ u.cert = newCert /\ u.key = newKey
  BY <1>1, <1>2 DEF UseTls
<1>4. u.alloc <=> t.alloc \/ form = "string"
  BY Zenon DEF UseTls
<1>5. \A b : b \in copies <=> b.copy /\ b \in {newCA, newCert, newKey}
  BY <1>1, <1>2 DEF Copies
<1>6. \A b \in {newCA, newCert, newKey} : b = NoBuffer \/ \E part \in {"ca", "cert", "key"} : b = New(n, part, form)
  OBVIOUS
<1>7. \A b \in copies : b.call = n /\ b.copy /\ form = "string" /\ b # NoBuffer
  BY <1>5, <1>6, NewBuffer
<1>8. /\ form = "string" /\ ca = "text" => New(n, "ca", form) \in copies
      /\ form = "string" /\ pair = "text" => New(n, "cert", form) \in copies /\ New(n, "key", form) \in copies
  BY <1>5, NewBuffer
<1>9. \A b \in copies : b \in {u.ca, u.cert, u.key}
  BY <1>3, <1>5, NewBuffer
<1>10. u.ca = IF ca = "absent" THEN t.ca
              ELSE IF ca = "empty" THEN NoBuffer ELSE New(n, "ca", form)
  BY <1>2, <1>3
<1> HIDE DEF u, copies
<1>11. u = UseTls(t, n, form, ca, pair) /\ copies = Copies(n, form, ca, pair)
  BY DEF u, copies
<1> QED
  BY <1>3, <1>4, <1>7, <1>8, <1>9, <1>10, <1>11
-----------------------------------------------------------------------------
Slices(t) == {t.ca, t.cert, t.key}

\* b is the buffer of one of the use_tls calls on e.
Of(b, e) ==
    /\ b.call \in 1..Len(calls)
    /\ calls[b.call].e = e /\ calls[b.call].what.op = "use_tls"
    /\ b.copy <=> calls[b.call].what.form = "string"

\* A later call has put something else in the slice of b.
Replaced(b, e) ==
    \E k \in 1..Len(calls) :
       /\ k > b.call
       /\ calls[k].e = e /\ calls[k].what.op = "use_tls"
       /\ b.part = "ca" => calls[k].what.ca # "absent"

StringGiven(e) ==
    \E k \in 1..Len(calls) :
       calls[k].e = e /\ calls[k].what.op = "use_tls" /\ calls[k].what.form = "string"

TlsInv ==
    /\ \A e \in Endpoints :
          /\ endpoints[e].state = "none" => tls[e] = NoTls
          /\ tls[e].alloc <=> StringGiven(e)
          /\ \A b \in Slices(tls[e]) \ {NoBuffer} :
                /\ Of(b, e)
                /\ Live(e) /\ b.copy => b \in heap
          /\ tls[e].cert # NoBuffer => tls[e].cert.part # "ca"
          /\ tls[e].key # NoBuffer => tls[e].key.part # "ca"
    /\ \A b \in heap :
          /\ b # NoBuffer /\ b.copy
          /\ \E e \in Endpoints :
                /\ Of(b, e)
                /\ Replaced(b, e) \/ (Live(e) /\ b \in Slices(tls[e]))

\* The destructor frees every slice, if a string was given.
LEMMA FreedSlices ==
  ASSUME NEW t \in Tls
  PROVE  Freed(t) = IF t.alloc THEN Slices(t) \ {NoBuffer} ELSE {}
BY DEF Freed, Slices, is_mtls, Tls

\* What is said of old calls stays true when a call is added.
LEMMA OldCalls ==
  ASSUME TypeOK, NEW call \in Calls,
         Register(call.e, call.what) \/ Secured(call.e, call.what)
  PROVE  \A e, b :
            /\ Of(b, e) => Of(b, e)'
            /\ Replaced(b, e) => Replaced(b, e)'
            /\ StringGiven(e) => StringGiven(e)'
<1>1. /\ Len(calls) \in Nat /\ Len(calls') = Len(calls) + 1
      /\ \A k \in 1..Len(calls) : calls'[k] = calls[k]
  BY CallGrows
<1>2. \A k \in 1..Len(calls) : k \in 1..Len(calls') /\ calls'[k] = calls[k]
  BY <1>1
<1>3. \A e, b : Of(b, e) => Of(b, e)'
  BY <1>2 DEF Of
<1>4. \A e, b : Replaced(b, e) => Replaced(b, e)'
  BY <1>2 DEF Replaced
<1>5. \A e : StringGiven(e) => StringGiven(e)'
  BY <1>2 DEF StringGiven
<1> QED
  BY <1>3, <1>4, <1>5

\* use_tls keeps the invariant.
LEMMA SecuredTls ==
  ASSUME TypeOK, TlsInv, NEW call \in Calls, Secured(call.e, call.what)
  PROVE  TlsInv'
<1>0. PICK d, w, n : d = call.e /\ w = call.what /\ n = Len(calls) + 1
  OBVIOUS
<1>1. /\ call.e \in Endpoints /\ call.what \in What /\ Live(call.e)
      /\ n \in Nat \ {0} /\ n \in 1..Len(calls')
      /\ \A k \in 1..Len(calls) : k \in 1..Len(calls') /\ calls'[k] = calls[k] /\ n > k
      /\ \A k \in 1..Len(calls') : k \in 1..Len(calls) \/ k = n
      /\ calls'[n].e = call.e /\ calls'[n].what = call.what
      /\ UNCHANGED endpoints
  BY <1>0, CallGrows
<1>2. d = call.e /\ w = call.what
  BY <1>0
<1>3. w.op = "use_tls" /\ w.form \in {"string", "view"} /\ w.ca \in Given /\ w.pair \in {"empty", "text"}
  BY <1>1, <1>2, WhatParts DEF Given, Secured
<1>4. /\ tls' = [tls EXCEPT ![d] = UseTls(tls[d], n, w.form, w.ca, w.pair)]
      /\ heap' = heap \union Copies(n, w.form, w.ca, w.pair)
  BY <1>0 DEF Secured
<1>5. \A e, b :
            /\ Of(b, e) => Of(b, e)'
            /\ Replaced(b, e) => Replaced(b, e)'
            /\ StringGiven(e) => StringGiven(e)'
  BY OldCalls
<1>6. PICK copies : copies = Copies(n, w.form, w.ca, w.pair)
  OBVIOUS
<1>7. /\ \A e \in Endpoints \ {d} : tls'[e] = tls[e]
      /\ tls'[d].ca = IF w.ca = "absent" THEN tls[d].ca
                      ELSE IF w.ca = "empty" THEN NoBuffer ELSE New(n, "ca", w.form)
      /\ tls'[d].cert = IF w.pair = "empty" THEN NoBuffer ELSE New(n, "cert", w.form)
      /\ tls'[d].key = IF w.pair = "empty" THEN NoBuffer ELSE New(n, "key", w.form)
      /\ tls'[d].alloc <=> tls[d].alloc \/ w.form = "string"
      /\ w.form = "string" /\ w.ca = "text" => New(n, "ca", w.form) \in copies
      /\ w.form = "string" /\ w.pair = "text" => New(n, "cert", w.form) \in copies
      /\ w.form = "string" /\ w.pair = "text" => New(n, "key", w.form) \in copies
      /\ \A b \in copies :
            /\ b.call = n /\ b.copy /\ w.form = "string" /\ b # NoBuffer
            /\ b \in Slices(tls'[d])
  <2>1. tls[d] \in Tls /\ tls'[d] = UseTls(tls[d], n, w.form, w.ca, w.pair)
        /\ \A e \in Endpoints \ {d} : tls'[e] = tls[e]
    BY <1>1, <1>2, <1>4 DEF TypeOK
  <2> QED
    BY <1>1, <1>3, <1>6, <2>1, UseTlsSlices DEF Slices
<1>8. \A part : /\ Of(New(n, part, w.form), d)'
                /\ New(n, part, w.form).copy <=> w.form = "string"
                /\ New(n, part, w.form).part = part
  BY <1>1, <1>2, <1>3, NewBuffer DEF Of
<1>9. \A e \in Endpoints :
         /\ endpoints[e].state = "none" => tls'[e] = NoTls
         /\ tls'[e].alloc <=> StringGiven(e)'
  <2>1. \A e \in Endpoints : StringGiven(e)' <=> StringGiven(e) \/ (e = d /\ w.form = "string")
    BY <1>1, <1>2, <1>3 DEF StringGiven
  <2>2. \A e \in Endpoints : tls'[e].alloc <=> tls[e].alloc \/ (e = d /\ w.form = "string")
    BY <1>7
  <2>3. endpoints[d].state # "none"
    BY <1>1, <1>2 DEF Live
  <2> QED
    BY <1>7, <2>1, <2>2, <2>3 DEF TlsInv
<1>10. \A e \in Endpoints : \A b \in Slices(tls'[e]) \ {NoBuffer} :
          Of(b, e)' /\ (Live(e) /\ b.copy => b \in heap')
  <2> TAKE e \in Endpoints
  <2> TAKE b \in Slices(tls'[e]) \ {NoBuffer}
  <2>1. CASE b \in Slices(tls[e])
    BY <1>4, <1>5, <2>1 DEF TlsInv
  <2>2. CASE e = d /\ \E part \in Part : b = New(n, part, w.form)
            /\ (part = "ca" => w.ca = "text") /\ (part # "ca" => w.pair = "text")
    BY <1>4, <1>6, <1>7, <1>8, <2>2 DEF Part
  <2>3. b \in Slices(tls[e]) \/ (e = d /\ \E part \in Part : b = New(n, part, w.form)
            /\ (part = "ca" => w.ca = "text") /\ (part # "ca" => w.pair = "text"))
    BY <1>3, <1>7 DEF Slices, Part, Given
  <2> QED
    BY <2>1, <2>2, <2>3
<1>11. \A e \in Endpoints : /\ tls'[e].cert # NoBuffer => tls'[e].cert.part # "ca"
                            /\ tls'[e].key # NoBuffer => tls'[e].key.part # "ca"
  BY <1>7, <1>8 DEF TlsInv
<1>12. ASSUME NEW b \in heap'
       PROVE  /\ b # NoBuffer /\ b.copy
              /\ \E e \in Endpoints :
                    /\ Of(b, e)'
                    /\ Replaced(b, e)' \/ (Live(e) /\ b \in Slices(tls'[e]))
  <2>1. CASE b \in copies
    <3>1. Of(b, d)'
      BY <1>1, <1>2, <1>3, <1>7, <2>1 DEF Of
    <3> QED
      BY <1>1, <1>2, <1>7, <2>1, <3>1
  <2>2. CASE b \in heap
    <3>1. PICK e \in Endpoints : Of(b, e) /\ (Replaced(b, e) \/ (Live(e) /\ b \in Slices(tls[e])))
      BY <2>2 DEF TlsInv
    <3>2. b # NoBuffer /\ b.copy
      BY <2>2 DEF TlsInv
    <3>3. CASE Replaced(b, e) \/ e # d
      BY <1>5, <1>7, <3>1, <3>2, <3>3
    <3>4. CASE e = d /\ b \in Slices(tls[d])
      <4>1. b.call \in 1..Len(calls)
        BY <3>1 DEF Of
      <4>2. CASE w.ca # "absent" \/ b.part # "ca"
        <5>1. Replaced(b, d)'
          BY <1>1, <1>2, <1>3, <4>1, <4>2 DEF Replaced
        <5> QED
          BY <1>1, <1>2, <1>5, <3>1, <3>2, <3>4, <5>1
      <4>3. CASE w.ca = "absent" /\ b.part = "ca"
        <5>1. b = tls[d].ca
          BY <1>1, <1>2, <3>2, <3>4, <4>3 DEF TlsInv, Slices
        <5>2. b \in Slices(tls'[d])
          BY <1>7, <4>3, <5>1 DEF Slices
        <5> QED
          BY <1>1, <1>2, <1>5, <3>1, <3>2, <3>4, <5>2
      <4> QED
        BY <4>2, <4>3
    <3> QED
      BY <3>1, <3>3, <3>4
  <2> QED
    BY <1>4, <1>6, <2>1, <2>2
<1> QED
  BY <1>1, <1>9, <1>10, <1>11, <1>12 DEF TlsInv, Live

\* The other calls are not use_tls calls.
LEMMA RegisterTls ==
  ASSUME TypeOK, TlsInv, NEW call \in Calls, Register(call.e, call.what)
  PROVE  TlsInv'
<1>0. PICK n : n = Len(calls) + 1
  OBVIOUS
<1>1. /\ \A k \in 1..Len(calls') : k \in 1..Len(calls) \/ k = n
      /\ \A k \in 1..Len(calls) : calls'[k] = calls[k]
      /\ calls'[n].what.op # "use_tls"
      /\ UNCHANGED <<endpoints, tls, heap>>
  <2>1. call.what.op # "use_tls" /\ UNCHANGED <<tls, heap>>
    BY DEF Register
  <2> QED
    BY <1>0, <2>1, CallGrows
<1>2. \A e, b :
            /\ Of(b, e) => Of(b, e)'
            /\ Replaced(b, e) => Replaced(b, e)'
            /\ StringGiven(e) => StringGiven(e)'
  BY OldCalls
<1>3. \A e : StringGiven(e)' => StringGiven(e)
  BY <1>1 DEF StringGiven
<1> QED
  BY <1>1, <1>2, <1>3 DEF TlsInv, Live

\* Calls and slices that stay as they are, for endpoints that stay as they are.
LEMMA SameTls ==
  ASSUME TypeOK, TlsInv, UNCHANGED <<endpoints, tls, heap, calls>>
  PROVE  TlsInv'
BY DEF TlsInv, Live, Of, Replaced, StringGiven

\* Endpoints that are destroyed free their slices and no other copy: no two
\* endpoints share one, and a copy is freed because its call has set m_tls_alloc.
LEMMA DestroyTls ==
  ASSUME TypeOK, TlsInv, UNCHANGED <<tls, calls>>, NEW S \in SUBSET Endpoints,
         \A d \in Endpoints :
            endpoints'[d].state = IF d \in S THEN "destroyed" ELSE endpoints[d].state,
         heap' = heap \ UNION {Freed(tls[d]) : d \in S}
  PROVE  TlsInv'
<1>1. \A d, b : /\ Of(b, d)' <=> Of(b, d)
                /\ Replaced(b, d)' <=> Replaced(b, d)
                /\ StringGiven(d)' <=> StringGiven(d)
  BY DEF Of, Replaced, StringGiven
<1>2. \A d \in Endpoints : Live(d)' <=> Live(d) /\ d \notin S
  BY DEF Live
<1>3. \A d \in Endpoints : \A b \in Freed(tls[d]) : Of(b, d)
  <2> TAKE d \in Endpoints
  <2> TAKE b \in Freed(tls[d])
  <2>1. tls[d] \in Tls
    BY DEF TypeOK
  <2>2. b \in Slices(tls[d]) \ {NoBuffer}
    BY <2>1, FreedSlices
  <2> QED
    BY <2>2 DEF TlsInv
<1>4. \A d, e, b : Of(b, d) /\ Of(b, e) => d = e
  BY DEF Of
<1>5. ASSUME NEW d \in Endpoints, NEW b \in heap, b \in Slices(tls[d])
      PROVE  b \in Freed(tls[d])
  <2>1. b # NoBuffer /\ b.copy
    BY DEF TlsInv
  <2>2. Of(b, d)
    BY <1>5, <2>1 DEF TlsInv
  <2>3. StringGiven(d)
    BY <2>1, <2>2 DEF Of, StringGiven
  <2>4. tls[d].alloc /\ tls[d] \in Tls
    BY <2>3 DEF TlsInv, TypeOK
  <2> QED
    BY <1>5, <2>1, <2>4, FreedSlices
<1>6. \A d \in Endpoints :
         /\ endpoints'[d].state = "none" => tls[d] = NoTls
         /\ \A b \in Slices(tls[d]) \ {NoBuffer} : Live(d)' /\ b.copy => b \in heap'
  <2> TAKE d \in Endpoints
  <2>1. endpoints'[d].state = "none" => tls[d] = NoTls
    BY DEF TlsInv
  <2>2. ASSUME NEW b \in Slices(tls[d]) \ {NoBuffer}, Live(d)', b.copy
        PROVE  b \in heap'
    <3>1. Of(b, d) /\ d \notin S /\ b \in heap
      BY <1>2, <2>2 DEF TlsInv
    <3>2. \A e \in S : b \notin Freed(tls[e])
      BY <1>3, <1>4, <3>1
    <3> QED
      BY <3>1, <3>2
  <2> QED
    BY <2>1, <2>2
<1>7. \A b \in heap' :
         /\ b # NoBuffer /\ b.copy
         /\ \E d \in Endpoints : Of(b, d) /\ (Replaced(b, d) \/ (Live(d)' /\ b \in Slices(tls[d])))
  <2> TAKE b \in heap'
  <2>1. b \in heap /\ \A d \in S : b \notin Freed(tls[d])
    OBVIOUS
  <2>2. b # NoBuffer /\ b.copy
    BY <2>1 DEF TlsInv
  <2>3. PICK d \in Endpoints : Of(b, d) /\ (Replaced(b, d) \/ (Live(d) /\ b \in Slices(tls[d])))
    BY <2>1 DEF TlsInv
  <2>4. b \in Slices(tls[d]) => d \notin S
    BY <1>5, <2>1
  <2> QED
    BY <1>2, <2>2, <2>3, <2>4
<1> QED
  BY <1>1, <1>6, <1>7 DEF TlsInv

\* An endpoint that is made, dropped or stops listening.
LEMMA EndpointTls ==
  ASSUME TypeOK, TlsInv, NEW e \in Endpoints, ListenHttp(e) \/ Drop(e) \/ CloseListening(e)
  PROVE  TlsInv'
<1>1. /\ UNCHANGED <<tls, calls>>
      /\ \A d \in Endpoints : d # e => endpoints'[d] = endpoints[d]
  BY DEF ListenHttp, Drop, CloseListening, TypeOK
<1>2. \A d, b : /\ Of(b, d)' <=> Of(b, d)
                /\ Replaced(b, d)' <=> Replaced(b, d)
                /\ StringGiven(d)' <=> StringGiven(d)
  BY <1>1 DEF Of, Replaced, StringGiven
<1>3. tls[e] \in Tls
  BY DEF TypeOK
<1>4. CASE ListenHttp(e)
  <2>1. /\ endpoints[e].state = "none" /\ endpoints'[e].state \in {"live", "destroyed"}
        /\ heap' = heap
    BY <1>4 DEF ListenHttp, TypeOK
  <2>2. tls[e] = NoTls
    BY <2>1 DEF TlsInv
  <2>3. Slices(tls[e]) = {NoBuffer}
    BY <2>2 DEF Slices, NoTls
  <2>4. ~Live(e)
    BY <2>1 DEF Live
  <2>5. \A b \in heap : \E d \in Endpoints :
           Of(b, d) /\ (Replaced(b, d) \/ (Live(d)' /\ b \in Slices(tls[d])))
    BY <1>1, <2>4 DEF TlsInv, Live
  <2>6. \A d \in Endpoints : \A b \in Slices(tls[d]) \ {NoBuffer} : Live(d)' /\ b.copy => b \in heap
    BY <1>1, <2>3 DEF TlsInv, Live
  <2> QED
    BY <1>1, <1>2, <2>1, <2>5, <2>6 DEF TlsInv
<1>5. CASE CloseListening(e)
  <2>1. endpoints'[e].state = endpoints[e].state /\ heap' = heap
    BY <1>5 DEF CloseListening, TypeOK
  <2> QED
    BY <1>1, <1>2, <2>1 DEF TlsInv, Live
<1>6. CASE Drop(e) /\ endpoints[e].owned
  <2>1. endpoints'[e].state = endpoints[e].state /\ heap' = heap
    BY <1>6 DEF Drop, TypeOK
  <2> QED
    BY <1>1, <1>2, <2>1 DEF TlsInv, Live
<1>7. CASE Drop(e) /\ ~endpoints[e].owned
  <2>1. endpoints'[e].state = "destroyed" /\ heap' = heap \ Freed(tls[e])
    BY <1>7 DEF Drop, TypeOK
  <2>2. PICK S \in SUBSET Endpoints : S = {e}
    OBVIOUS
  <2>3. heap' = heap \ UNION {Freed(tls[d]) : d \in S}
    BY <2>1, <2>2
  <2>4. \A d \in Endpoints :
           endpoints'[d].state = IF d \in S THEN "destroyed" ELSE endpoints[d].state
    BY <1>1, <2>1, <2>2
  <2> QED
    BY <1>1, <2>3, <2>4, DestroyTls
<1> QED
  BY <1>4, <1>5, <1>6, <1>7

\* The server, its connections and its handlers.
LEMMA ServerTls ==
  ASSUME TypeOK, TlsInv,
         \/ Start \/ Stop \/ Release \/ Return
         \/ \E callback \in BOOLEAN : Construct(callback)
         \/ \E c \in Conns : \/ Close(c)
                             \/ \E e \in Endpoints : Accept(e, c)
                             \/ \E uri \in Uris : Receive(c, uri)
  PROVE  TlsInv'
<1>1. CASE Release
  <2>1. /\ UNCHANGED <<tls, calls>> /\ Orphans \in SUBSET Endpoints
        /\ \A d \in Endpoints :
              endpoints'[d].state = IF d \in Orphans THEN "destroyed" ELSE endpoints[d].state
        /\ heap' = heap \ UNION {Freed(tls[d]) : d \in Orphans}
    BY <1>1 DEF Release, Orphans
  <2>2. PICK S : S = Orphans
    OBVIOUS
  <2> QED
    BY <2>1, <2>2, DestroyTls
<1>2. CASE ~Release
  <2>1. UNCHANGED <<endpoints, tls, heap, calls>>
    BY <1>2 DEF Start, Stop, Return, Construct, Close, Accept, Receive
  <2> QED
    BY <2>1, SameTls
<1> QED
  BY <1>1, <1>2

LEMMA TlsInductive == Spec => []TlsInv
<1>1. Init => TlsInv
  BY DEF Init, TlsInv, NoTls, Slices, StringGiven
<1>2. TypeOK /\ TlsInv /\ [Next]_vars => TlsInv'
  <2>1. TypeOK /\ TlsInv /\ Next => TlsInv'
    BY SecuredTls, RegisterTls, EndpointTls, ServerTls DEF Next
  <2>2. TypeOK /\ TlsInv /\ UNCHANGED vars => TlsInv'
    BY SameTls DEF vars
  <2> QED
    BY <2>1, <2>2
<1> QED
  BY <1>1, <1>2, TypeCorrect, PTL DEF Spec

\* What ~endpoint would free is a copy that use_tls made and nobody freed, as
\* long as strings and views are not both given to the endpoint. (use_tls, ~endpoint)
THEOREM OnlyCopiesFreed == Spec => []FreesItsCopies
<1>1. TypeOK /\ TlsInv => FreesItsCopies
  <2> SUFFICES ASSUME TypeOK, TlsInv, NEW e \in Endpoints, Live(e), ~FormsMixed(e),
                      NEW b \in Freed(tls[e])
               PROVE  b \in heap
    BY DEF FreesItsCopies
  <2>1. tls[e] \in Tls
    BY DEF TypeOK
  <2>2. tls[e].alloc /\ b \in Slices(tls[e]) \ {NoBuffer}
    BY <2>1, FreedSlices
  <2>3. PICK k \in 1..Len(calls) :
           calls[k].e = e /\ calls[k].what.op = "use_tls" /\ calls[k].what.form = "string"
    BY <2>2 DEF TlsInv, StringGiven
  <2>4. Of(b, e)
    BY <2>2 DEF TlsInv
  <2>5. b.call \in TlsCalls(e, Len(calls)) /\ k \in TlsCalls(e, Len(calls))
    BY <2>3, <2>4 DEF Of, TlsCalls
  <2>6. calls[b.call].what.form = "string"
    BY <2>3, <2>5 DEF FormsMixed
  <2> QED
    BY <2>2, <2>4, <2>6 DEF TlsInv, Of
<1> QED
  BY <1>1, TlsInductive, TypeCorrect, PTL

\* A copy outlives its endpoint only if a later use_tls took its place.
\* (use_tls overwrites the slices without freeing them)
THEOREM OnlyReplacedLeak == Spec => []LeaksOnlyReplaced
<1>1. TlsInv => LeaksOnlyReplaced
  BY DEF TlsInv, LeaksOnlyReplaced, Of, Replaced, TlsCalls
<1> QED
  BY <1>1, TlsInductive, PTL

-----------------------------------------------------------------------------
(***************************************************************************)
(* Why connections get what was asked for: the slices of an endpoint say   *)
(* what its last use_tls calls said, and handle_secure reads them at once. *)
(***************************************************************************)
CallsWithCA(e, n) == {k \in TlsCalls(e, n) : calls[k].what.ca # "absent"}

\* t says what the first n calls said for e.
PairSaid(t, e, n) ==
    \/ TlsCalls(e, n) = {} /\ t.cert = NoBuffer /\ t.key = NoBuffer
    \/ \E k \in TlsCalls(e, n) :
          /\ IsLast(k, TlsCalls(e, n))
          /\ IF calls[k].what.pair = "empty" THEN t.cert = NoBuffer /\ t.key = NoBuffer
             ELSE t.cert = AskedBuffer(k, "cert") /\ t.key = AskedBuffer(k, "key")

CASaid(t, e, n) ==
    \/ CallsWithCA(e, n) = {} /\ t.ca = NoBuffer
    \/ \E k \in CallsWithCA(e, n) :
          /\ IsLast(k, CallsWithCA(e, n))
          /\ IF calls[k].what.ca = "empty" THEN t.ca = NoBuffer
             ELSE calls[k].what.ca = "text" /\ t.ca = AskedBuffer(k, "ca")

Said(t, e, n) == PairSaid(t, e, n) /\ CASaid(t, e, n)

\* A connection has the credentials its endpoint had when it was accepted.
SaidInv ==
    /\ \A e \in Endpoints : Said(tls[e], e, Len(calls))
    /\ \A c \in Conns :
          conns[c].open =>
             /\ conns[c].at \in 0..Len(calls)
             /\ conns[c].via \notin Secure => conns[c].creds = NoCredentials
             /\ conns[c].via \in Secure =>
                   \E t \in Tls : /\ Said(t, conns[c].via, conns[c].at)
                                  /\ conns[c].creds = Offered(t)

\* The calls made so far keep saying what they said.
LEMMA StillSaid ==
  ASSUME TypeOK, NEW n \in 0..Len(calls),
         \A k \in 1..Len(calls) : calls'[k] = calls[k],
         NEW t, NEW e
  PROVE  Said(t, e, n) => Said(t, e, n)'
<1>1. \A k \in 1..n : calls'[k] = calls[k]
  BY DEF TypeOK
<1>2. TlsCalls(e, n)' = TlsCalls(e, n) /\ CallsWithCA(e, n)' = CallsWithCA(e, n)
  BY <1>1 DEF TlsCalls, CallsWithCA
<1>3. TlsCalls(e, n) \subseteq 1..n /\ CallsWithCA(e, n) \subseteq 1..n
  BY DEF TlsCalls, CallsWithCA
<1>4. \A k \in 1..n : \A part : AskedBuffer(k, part)' = AskedBuffer(k, part)
  BY <1>1 DEF AskedBuffer
<1>5. PairSaid(t, e, n) => PairSaid(t, e, n)'
  BY <1>1, <1>2, <1>3, <1>4 DEF PairSaid, IsLast
<1>6. CASaid(t, e, n) => CASaid(t, e, n)'
  BY <1>1, <1>2, <1>3, <1>4 DEF CASaid, IsLast
<1> QED
  BY <1>5, <1>6 DEF Said

\* So they do after a call that is not a use_tls on e.
LEMMA NothingSaid ==
  ASSUME TypeOK, NEW call \in Calls,
         Register(call.e, call.what) \/ Secured(call.e, call.what),
         NEW e, call.e # e \/ call.what.op # "use_tls", NEW t, Said(t, e, Len(calls))
  PROVE  Said(t, e, Len(calls))' 
<1>0. PICK m, n : m = Len(calls) /\ n = Len(calls) + 1
  OBVIOUS
<1>1. /\ m \in Nat /\ m \in 0..Len(calls) /\ n = m + 1 /\ Len(calls') = n
      /\ \A k \in 1..m : calls'[k] = calls[k]
      /\ calls'[n].e = call.e /\ calls'[n].what = call.what
  BY <1>0, CallGrows
<1>2. Said(t, e, m)'
  BY <1>0, <1>1, StillSaid
<1>3. \A k : k \in 1..n <=> k \in 1..m \/ k = n
  BY <1>1
<1>4. TlsCalls(e, n)' = TlsCalls(e, m)'
  BY <1>1, <1>3 DEF TlsCalls
<1>5. Said(t, e, n)'
  BY <1>2, <1>4 DEF Said, PairSaid, CASaid, CallsWithCA
<1> QED
  BY <1>1, <1>5 DEF Said, PairSaid, CASaid, CallsWithCA, TlsCalls

\* use_tls makes the slices say what it was told.
LEMMA SecuredSaid ==
  ASSUME TypeOK, SaidInv, NEW call \in Calls, Secured(call.e, call.what)
  PROVE  Said(tls[call.e], call.e, Len(calls))'
<1>0. PICK d, w, m, n : d = call.e /\ w = call.what /\ m = Len(calls) /\ n = Len(calls) + 1
  OBVIOUS
<1>1. /\ d \in Endpoints /\ w \in What
      /\ m \in Nat /\ m \in 0..Len(calls) /\ n = m + 1 /\ n \in Nat \ {0} /\ Len(calls') = n
      /\ \A k \in 1..m : calls'[k] = calls[k]
      /\ calls'[n].e = d /\ calls'[n].what = w
  BY <1>0, CallGrows
<1>2. w.op = "use_tls" /\ w.form \in {"string", "view"} /\ w.ca \in Given /\ w.pair \in {"empty", "text"}
  BY <1>0, <1>1, WhatParts DEF Given, Secured
<1>3. tls[d] \in Tls /\ tls'[d] = UseTls(tls[d], n, w.form, w.ca, w.pair)
  BY <1>0, <1>1 DEF Secured, TypeOK
<1>4. PICK t : t = tls'[d]
  OBVIOUS
<1>5. /\ t.ca = IF w.ca = "absent" THEN tls[d].ca
                ELSE IF w.ca = "empty" THEN NoBuffer ELSE New(n, "ca", w.form)
      /\ t.cert = IF w.pair = "empty" THEN NoBuffer ELSE New(n, "cert", w.form)
      /\ t.key = IF w.pair = "empty" THEN NoBuffer ELSE New(n, "key", w.form)
  BY <1>1, <1>2, <1>3, <1>4, UseTlsSlices
<1>6. \A k : k \in 1..n <=> k \in 1..m \/ k = n
  BY <1>1
<1>7. \A k \in 1..m : k < n
  BY <1>1
<1>8. TlsCalls(d, n)' = TlsCalls(d, m)' \union {n} /\ TlsCalls(d, m)' \subseteq 1..m
  BY <1>1, <1>2, <1>6 DEF TlsCalls
<1>9. IsLast(n, TlsCalls(d, n)')
  BY <1>1, <1>7, <1>8 DEF IsLast
<1>10. \A part : AskedBuffer(n, part)' = New(n, part, w.form)
  BY <1>1 DEF AskedBuffer, New
<1>11. PairSaid(t, d, n)'
  BY <1>1, <1>2, <1>5, <1>8, <1>9, <1>10 DEF PairSaid
<1>12. CASaid(t, d, n)'
  <2>1. CASE w.ca = "absent"
    <3>1. CASaid(t, d, m)'
      <4>1. PICK old : old = tls[d]
        OBVIOUS
      <4>2. Said(old, d, m)
        BY <1>0, <1>1, <4>1 DEF SaidInv
      <4>3. CASaid(old, d, m)'
        BY <1>0, <1>1, <4>2, StillSaid DEF Said
      <4>4. t.ca = old.ca
        BY <1>5, <2>1, <4>1
      <4> QED
        BY <4>3, <4>4 DEF CASaid
    <3>2. CallsWithCA(d, n)' = CallsWithCA(d, m)'
      BY <1>1, <1>8, <2>1 DEF CallsWithCA
    <3> QED
      BY <3>1, <3>2 DEF CASaid
  <2>2. CASE w.ca # "absent"
    <3>1. n \in CallsWithCA(d, n)' /\ CallsWithCA(d, n)' \subseteq TlsCalls(d, n)'
      BY <1>1, <1>8, <2>2 DEF CallsWithCA
    <3>2. IsLast(n, CallsWithCA(d, n)')
      BY <1>9, <3>1 DEF IsLast
    <3> QED
      BY <1>1, <1>2, <1>5, <1>10, <2>2, <3>1, <3>2 DEF CASaid, Given
  <2> QED
    BY <2>1, <2>2
<1>13. Said(t, d, n)'
  BY <1>11, <1>12 DEF Said
<1>14. Len(calls)' = n
  BY <1>1
<1> QED
  BY <1>0, <1>4, <1>13, <1>14 DEF Said, PairSaid, CASaid, CallsWithCA, TlsCalls

\* Configuration calls keep the invariant.
LEMMA CallSaid ==
  ASSUME TypeOK, SaidInv, NEW call \in Calls,
         Register(call.e, call.what) \/ Secured(call.e, call.what)
  PROVE  SaidInv'
<1>1. /\ Len(calls) \in Nat /\ Len(calls') = Len(calls) + 1 /\ conns' = conns
      /\ \A k \in 1..Len(calls) : calls'[k] = calls[k]
      /\ call.e \in Endpoints
  BY CallGrows
<1>2. ASSUME NEW e \in Endpoints PROVE Said(tls[e], e, Len(calls))'
  <2>1. CASE call.what.op = "use_tls" /\ e = call.e
    <3>1. Secured(call.e, call.what)
      BY <2>1 DEF Register
    <3> QED
      BY <2>1, <3>1, SecuredSaid
  <2>2. CASE ~(call.what.op = "use_tls" /\ e = call.e)
    <3>1. PICK t : t = tls[e]
      OBVIOUS
    <3>2. Said(t, e, Len(calls))
      BY <3>1 DEF SaidInv
    <3>3. Said(t, e, Len(calls))'
      BY <2>2, <3>2, NothingSaid
    <3>4. tls'[e] = t
      BY <1>1, <2>2, <3>1 DEF TypeOK, Register, Secured
    <3> QED
      BY <3>3, <3>4 DEF Said, PairSaid, CASaid
  <2> QED
    BY <2>1, <2>2
<1>3. ASSUME NEW c \in Conns, conns[c].open
      PROVE  /\ conns[c].at \in 0..Len(calls')
             /\ conns[c].via \notin Secure => conns[c].creds = NoCredentials
             /\ conns[c].via \in Secure =>
                   \E t \in Tls : /\ Said(t, conns[c].via, conns[c].at)'
                                  /\ conns[c].creds = Offered(t)
  <2>1. PICK x : x = conns[c]
    OBVIOUS
  <2>2. /\ x.at \in 0..Len(calls)
        /\ x.via \notin Secure => x.creds = NoCredentials
        /\ x.via \in Secure =>
              \E t \in Tls : Said(t, x.via, x.at) /\ x.creds = Offered(t)
    BY <1>3, <2>1 DEF SaidInv
  <2>3. \A t : Said(t, x.via, x.at) => Said(t, x.via, x.at)'
    BY <1>1, <2>2, StillSaid
  <2>4. \A t : Said(t, x.via, x.at)' => Said(t, conns[c].via, conns[c].at)'
    BY <1>1, <2>1 DEF Said, PairSaid, CASaid, CallsWithCA, TlsCalls
  <2> QED
    BY <1>1, <2>1, <2>2, <2>3, <2>4
<1> QED
  BY <1>1, <1>2, <1>3 DEF SaidInv

\* So do the other steps: an accepted connection gets what the slices say.
LEMMA OtherSaid ==
  ASSUME TypeOK, SaidInv, UNCHANGED <<tls, calls>>,
         \/ UNCHANGED conns
         \/ \E c \in Conns : Close(c) \/ \E e \in Endpoints : Accept(e, c)
  PROVE  SaidInv'
<1>1. \A t, e, n : Said(t, e, n)' <=> Said(t, e, n)
  BY DEF Said, PairSaid, CASaid, CallsWithCA, TlsCalls, AskedBuffer
<1>2. CASE UNCHANGED conns
  BY <1>1, <1>2 DEF SaidInv
<1>3. ASSUME NEW c \in Conns, Close(c) PROVE SaidInv'
  <2>1. conns' = [conns EXCEPT ![c] = NoConn] /\ ~NoConn.open
    BY <1>3 DEF Close, NoConn
  <2>2. \A d \in Conns : conns'[d].open => conns'[d] = conns[d]
    BY <2>1 DEF TypeOK
  <2> QED
    BY <1>1, <2>2 DEF SaidInv
<1>4. ASSUME NEW c \in Conns, NEW e \in Endpoints, Accept(e, c) PROVE SaidInv'
  <2>1. /\ conns'[c].via = e /\ conns'[c].at = Len(calls)
        /\ conns'[c].creds = IF e \in Secure THEN Offered(tls[e]) ELSE NoCredentials
        /\ \A d \in Conns : d # c => conns'[d] = conns[d]
    BY <1>4 DEF Accept, TypeOK
  <2>2. tls[e] \in Tls /\ Said(tls[e], e, Len(calls)) /\ Len(calls) \in 0..Len(calls)
    BY DEF SaidInv, TypeOK
  <2> QED
    BY <1>1, <2>1, <2>2 DEF SaidInv
<1> QED
  BY <1>2, <1>3, <1>4

LEMMA SaidInductive == Spec => []SaidInv
<1>1. Init => SaidInv
  BY DEF Init, SaidInv, Said, PairSaid, CASaid, CallsWithCA, TlsCalls, NoTls, NoConn
<1>2. TypeOK /\ SaidInv /\ [Next]_vars => SaidInv'
  <2> SUFFICES ASSUME TypeOK, SaidInv, [Next]_vars PROVE SaidInv'
    OBVIOUS
  <2>1. CASE \E call \in Calls : Register(call.e, call.what) \/ Secured(call.e, call.what)
    BY <2>1, CallSaid
  <2>2. CASE \E c \in Conns : Close(c) \/ \E e \in Endpoints : Accept(e, c)
    <3>1. UNCHANGED <<tls, calls>>
      BY <2>2 DEF Close, Accept
    <3> QED
      BY <2>2, <3>1, OtherSaid
  <2>3. CASE \/ UNCHANGED vars \/ Start \/ Stop \/ Release \/ Return
             \/ \E callback \in BOOLEAN : Construct(callback)
             \/ \E e \in Endpoints : ListenHttp(e) \/ Drop(e) \/ CloseListening(e)
             \/ \E c \in Conns : \E uri \in Uris : Receive(c, uri)
    <3>1. UNCHANGED <<tls, calls, conns>>
      BY <2>3 DEF vars, Start, Stop, Release, Return, Construct, ListenHttp, Drop,
                  CloseListening, Receive
    <3> QED
      BY <3>1, OtherSaid
  <2> QED
    BY <2>1, <2>2, <2>3 DEF Next
<1> QED
  BY <1>1, <1>2, TypeCorrect, PTL DEF Spec

\* An https connection has the certificate and key of the last use_tls before it
\* was accepted, never a mixture, and the CA of the last one that named a CA.
\* (use_tls, handle_secure)
THEOREM CredentialsAsConfigured == Spec => []SecuredAsConfigured
<1>1. TypeOK /\ SaidInv => SecuredAsConfigured
  <2> SUFFICES ASSUME TypeOK, SaidInv, NEW c \in Conns, conns[c].open
               PROVE  LET mine == TlsCalls(conns[c].via, conns[c].at)
                          withCA == {k \in mine : calls[k].what.ca # "absent"}
                          creds == conns[c].creds
                      IN  IF creds.on
                          THEN /\ conns[c].via \in Secure
                               /\ \E k \in mine : /\ IsLast(k, mine)
                                                  /\ creds.cert = AskedBuffer(k, "cert")
                                                  /\ creds.key = AskedBuffer(k, "key")
                               /\ \/ creds.ca = NoBuffer
                                     /\ \A k \in withCA : IsLast(k, withCA) => calls[k].what.ca = "empty"
                                  \/ \E k \in withCA : /\ IsLast(k, withCA)
                                                       /\ calls[k].what.ca = "text"
                                                       /\ creds.ca = AskedBuffer(k, "ca")
                          ELSE \/ conns[c].via \notin Secure
                               \/ \A k \in mine : IsLast(k, mine) => calls[k].what.pair = "empty"
    BY DEF SecuredAsConfigured
  <2> DEFINE mine == TlsCalls(conns[c].via, conns[c].at)
             withCA == CallsWithCA(conns[c].via, conns[c].at)
  <2>1. withCA = {k \in mine : calls[k].what.ca # "absent"}
    BY DEF CallsWithCA
  <2>2. \A S, k, l : S \subseteq Nat /\ IsLast(k, S) /\ IsLast(l, S) => k = l
    BY DEF IsLast
  <2>3. mine \subseteq Nat /\ withCA \subseteq Nat /\ 0 \notin mine
    BY DEF TlsCalls, CallsWithCA
  <2>4. \A k \in mine : \A part : AskedBuffer(k, part) # NoBuffer
    BY <2>3 DEF AskedBuffer, NoBuffer
  <2>5. CASE conns[c].via \notin Secure
    <3>1. conns[c].creds = NoCredentials
      BY <2>5 DEF SaidInv
    <3> QED
      BY <2>5, <3>1 DEF NoCredentials
  <2>6. CASE conns[c].via \in Secure
    <3>1. PICK t \in Tls : Said(t, conns[c].via, conns[c].at) /\ conns[c].creds = Offered(t)
      BY <2>6 DEF SaidInv
    <3>2. /\ PairSaid(t, conns[c].via, conns[c].at)
          /\ CASaid(t, conns[c].via, conns[c].at)
      BY <3>1 DEF Said
    <3>3. CASE t.cert = NoBuffer \/ t.key = NoBuffer
      <4>1. ~conns[c].creds.on
        BY <3>1, <3>3 DEF Offered, NoCredentials
      <4>2. \A k \in mine : IsLast(k, mine) => calls[k].what.pair = "empty"
        BY <2>2, <2>3, <2>4, <3>2, <3>3 DEF PairSaid
      <4> QED
        BY <4>1, <4>2
    <3>4. CASE ~(t.cert = NoBuffer \/ t.key = NoBuffer)
      <4>1. /\ conns[c].creds.on /\ conns[c].creds.ca = t.ca
            /\ conns[c].creds.cert = t.cert /\ conns[c].creds.key = t.key
        BY <3>1, <3>4 DEF Offered
      <4>2. \E k \in mine : /\ IsLast(k, mine)
                            /\ t.cert = AskedBuffer(k, "cert")
                            /\ t.key = AskedBuffer(k, "key")
        BY <3>2, <3>4 DEF PairSaid
      <4>3. \/ t.ca = NoBuffer
               /\ \A k \in withCA : IsLast(k, withCA) => calls[k].what.ca = "empty"
            \/ \E k \in withCA : /\ IsLast(k, withCA)
                                 /\ calls[k].what.ca = "text"
                                 /\ t.ca = AskedBuffer(k, "ca")
        BY <2>2, <2>3, <3>2 DEF CASaid
      <4> QED
        BY <2>1, <2>6, <4>1, <4>2, <4>3
    <3> QED
      BY <3>3, <3>4
  <2> QED
    BY <2>5, <2>6
<1> QED
  BY <1>1, SaidInductive, TypeCorrect, PTL

-----------------------------------------------------------------------------
(***************************************************************************)
(* Who serves a request. The tables of an endpoint hold, for each path,    *)
(* what the last registration of that path asked for.                      *)
(***************************************************************************)
\* A file and a directory are entries of the same table.
KindOf(op) == IF op \in AssetOps THEN "asset" ELSE op

\* Call k registers something on e for the entry of path p (or the fallback).
About(k, e, kind, p) ==
    /\ calls[k].e = e /\ KindOf(calls[k].what.op) = kind
    /\ kind # "fallback" => calls[k].what.path = p

\* It is the last of the first n calls that does.
LastAbout(k, e, n, kind, p) ==
    k \in 1..n /\ About(k, e, kind, p) /\ \A l \in k + 1..n : ~About(l, e, kind, p)

NobodyAbout(e, n, kind, p) == \A k \in 1..n : ~About(k, e, kind, p)

\* What registration w, the nth call, puts in an entry that holds a.
NewListener(n, w, p) == [id |-> n, async |-> w.async, groups |-> count_groups(p)]
NewFallback(n, w) == [id |-> n, async |-> w.async, groups |-> 0]
NewFile(n, w, a) == [is_dir |-> a.is_dir, path |-> n, extras |-> IF w.extras THEN n ELSE 0]
NewDirectory(n, a) == [is_dir |-> TRUE, path |-> n, extras |-> a.extras]

\* The listener or asset of path p, and the fallback, that call k asks for.
ListenerOfCall(k, p) == NewListener(k, calls[k].what, p)
FallbackOfCall(k) == NewFallback(k, calls[k].what)
AssetOfCall(k) ==
    IF calls[k].what.op = "assets" THEN NewDirectory(k, NoAsset)
    ELSE NewFile(k, calls[k].what, NoAsset)

ListenerSaid(l, e, n, p) ==
    IF l = NoListener THEN NobodyAbout(e, n, "request", p)
    ELSE LastAbout(l.id, e, n, "request", p) /\ l = ListenerOfCall(l.id, p)

AssetSaid(a, e, n, p) ==
    IF a = NoAsset THEN NobodyAbout(e, n, "asset", p)
    ELSE LastAbout(a.path, e, n, "asset", p) /\ (a = AssetOfCall(a.path) \/ KindsMixed(e, p))

FallbackSaid(l, e, n) ==
    IF l = NoListener THEN NobodyAbout(e, n, "fallback", <<>>)
    ELSE LastAbout(l.id, e, n, "fallback", <<>>) /\ l = FallbackOfCall(l.id)

TableInv(e) ==
    /\ \A p \in Paths : /\ ListenerSaid(routes[e].listeners[p], e, Len(calls), p)
                        /\ AssetSaid(routes[e].assets[p], e, Len(calls), p)
    /\ FallbackSaid(routes[e].fallback, e, Len(calls))

\* The registrations in force for a URI, and those of them that come first.
For(ops, e, uri, n) ==
    {k \in Standing(e, n) :
       calls[k].what.op \in ops /\ (ops # {"fallback"} => calls[k].what.path \in Matching[uri])}

Foremost(e, uri, n) ==
    IF For({"request"}, e, uri, n) # {} THEN For({"request"}, e, uri, n)
    ELSE IF For(AssetOps, e, uri, n) # {} THEN For(AssetOps, e, uri, n)
    ELSE For({"fallback"}, e, uri, n)

\* What ServedAsRegistered says of outcome o, chosen after n calls.
Served(o, e, uri, n) ==
    \/ Foremost(e, uri, n) = {} /\ o = NotFound
    \/ \E k \in Foremost(e, uri, n) : o = Asked(k)
    \/ \E p \in Matching[uri] : o.by \in {"file", "dir"} /\ KindsMixed(e, p)

\* The calls are those that are made, and the request being handled was chosen
\* from what had been called by then.
RouteInv ==
    /\ \A k \in 1..Len(calls) : calls[k] \in Calls
    /\ \A e \in Endpoints : TableInv(e)
    /\ running.on => /\ running.at \in 0..Len(calls)
                     /\ Served(running.outcome, running.e, running.uri, running.at)

\* The entries after a registration: the one it is for, and the others.
LEMMA RegisteredEntries ==
  ASSUME TypeOK, NEW e \in Endpoints, NEW w \in What, Register(e, w),
         NEW n, n = Len(calls) + 1, NEW p \in Paths
  PROVE  /\ w.op = "request" /\ w.path = p => routes'[e].listeners[p] = NewListener(n, w, p)
         /\ ~(w.op = "request" /\ w.path = p) =>
               routes'[e].listeners[p] = routes[e].listeners[p]
         /\ w.op = "asset" /\ w.path = p =>
               routes'[e].assets[p] = NewFile(n, w, routes[e].assets[p])
         /\ w.op = "assets" /\ w.path = p =>
               routes'[e].assets[p] = NewDirectory(n, routes[e].assets[p])
         /\ ~(w.op \in {"asset", "assets"} /\ w.path = p) =>
               routes'[e].assets[p] = routes[e].assets[p]
<1>1. PICK r : r = routes[e] /\ r \in Routes
  BY DEF TypeOK
<1>2. CASE w.op = "request"
  <2>1. routes'[e] = OnRequest(r, w.path, w.async, n)
    BY <1>1, <1>2 DEF Register, TypeOK
  <2>2. w.path \in Paths
    BY <1>2, WhatParts
  <2>3. PICK l : l = NewListener(n, w, w.path)
    OBVIOUS
  <2>4. routes'[e] = [r EXCEPT !.listeners = [r.listeners EXCEPT ![w.path] = l]]
    BY <2>1, <2>3 DEF OnRequest, NewListener
  <2>5. /\ routes'[e].listeners = [r.listeners EXCEPT ![w.path] = l]
        /\ routes'[e].assets = r.assets /\ routes'[e].fallback = r.fallback
    BY <1>1, <2>4 DEF Routes
  <2>6. routes'[e].listeners[p] = IF w.path = p THEN l ELSE r.listeners[p]
    BY <1>1, <2>2, <2>5 DEF Routes
  <2> QED
    BY <1>1, <1>2, <2>3, <2>5, <2>6
<1>3. CASE w.op = "fallback"
  <2>1. routes'[e] = OnFallback(r, w.async, n)
    BY <1>1, <1>3 DEF Register, TypeOK
  <2> QED
    BY <1>1, <1>3, <2>1 DEF OnFallback, Routes
<1>4. CASE w.op \in {"asset", "assets"}
  <2>1. w.path \in Paths
    BY <1>4, WhatParts
  <2>2. PICK a : a = IF w.op = "asset"
                     THEN NewFile(n, w, r.assets[w.path])
                     ELSE NewDirectory(n, r.assets[w.path])
    OBVIOUS
  <2>3. routes'[e] = [r EXCEPT !.assets = [r.assets EXCEPT ![w.path] = a]]
    <3>1. CASE w.op = "asset"
      <4>1. routes'[e] = OnAsset(r, w.path, w.extras, n)
        BY <1>1, <3>1 DEF Register, TypeOK
      <4> QED
        BY <1>1, <2>1, <2>2, <3>1, <4>1 DEF OnAsset, Routes, NewFile
    <3>2. CASE w.op = "assets"
      <4>1. routes'[e] = OnAssets(r, w.path, n)
        BY <1>1, <3>2 DEF Register, TypeOK
      <4> QED
        BY <1>1, <2>1, <2>2, <3>2, <4>1 DEF OnAssets, Routes, NewDirectory
    <3> QED
      BY <1>4, <3>1, <3>2
  <2>4. /\ routes'[e].assets = [r.assets EXCEPT ![w.path] = a]
        /\ routes'[e].listeners = r.listeners /\ routes'[e].fallback = r.fallback
    BY <1>1, <2>3 DEF Routes
  <2>5. routes'[e].assets[p] = IF w.path = p THEN a ELSE r.assets[p]
    BY <1>1, <2>1, <2>4 DEF Routes
  <2> QED
    BY <1>1, <1>4, <2>2, <2>4, <2>5
<1> QED
  BY <1>2, <1>3, <1>4, WhatParts DEF Register

LEMMA RegisteredFallback ==
  ASSUME TypeOK, NEW e \in Endpoints, NEW w \in What, Register(e, w), NEW n, n = Len(calls) + 1
  PROVE  /\ w.op = "fallback" => routes'[e].fallback = NewFallback(n, w)
         /\ w.op # "fallback" => routes'[e].fallback = routes[e].fallback
<1>1. PICK r : r = routes[e] /\ r \in Routes
  BY DEF TypeOK
<1>2. CASE w.op = "request"
  <2>1. routes'[e] = OnRequest(r, w.path, w.async, n)
    BY <1>1, <1>2 DEF Register, TypeOK
  <2> QED
    BY <1>1, <1>2, <2>1 DEF OnRequest, Routes
<1>3. CASE w.op = "fallback"
  <2>1. routes'[e] = OnFallback(r, w.async, n)
    BY <1>1, <1>3 DEF Register, TypeOK
  <2> QED
    BY <1>1, <1>3, <2>1 DEF OnFallback, Routes, NewFallback
<1>4. CASE w.op = "asset"
  <2>1. routes'[e] = OnAsset(r, w.path, w.extras, n)
    BY <1>1, <1>4 DEF Register, TypeOK
  <2> QED
    BY <1>1, <1>4, <2>1 DEF OnAsset, Routes
<1>5. CASE w.op = "assets"
  <2>1. routes'[e] = OnAssets(r, w.path, n)
    BY <1>1, <1>5 DEF Register, TypeOK
  <2> QED
    BY <1>1, <1>5, <2>1 DEF OnAssets, Routes
<1> QED
  BY <1>2, <1>3, <1>4, <1>5, WhatParts DEF Register

\* What the earlier calls are about does not change with one more call.
LEMMA AboutGrows ==
  ASSUME TypeOK, NEW call \in Calls,
         Register(call.e, call.what) \/ Secured(call.e, call.what),
         NEW n, n = Len(calls), NEW e, NEW kind, NEW p
  PROVE  /\ \A k \in 1..n : About(k, e, kind, p)' <=> About(k, e, kind, p)
         /\ About(n + 1, e, kind, p)' <=>
               /\ call.e = e /\ KindOf(call.what.op) = kind
               /\ kind # "fallback" => call.what.path = p
         /\ About(n + 1, e, kind, p)' => LastAbout(n + 1, e, n + 1, kind, p)'
         /\ ~About(n + 1, e, kind, p)' =>
               /\ \A k : LastAbout(k, e, n, kind, p) => LastAbout(k, e, n + 1, kind, p)'
               /\ NobodyAbout(e, n, kind, p) => NobodyAbout(e, n + 1, kind, p)'
<1>1. /\ n \in Nat
      /\ \A k \in 1..n : calls'[k] = calls[k]
      /\ calls'[n + 1].e = call.e /\ calls'[n + 1].what = call.what
  BY CallGrows
<1>2. \A k \in 1..n : About(k, e, kind, p)' <=> About(k, e, kind, p)
  BY <1>1 DEF About
<1>3. About(n + 1, e, kind, p)' <=> /\ call.e = e /\ KindOf(call.what.op) = kind
                                    /\ kind # "fallback" => call.what.path = p
  BY <1>1 DEF About
<1>4. About(n + 1, e, kind, p)' => LastAbout(n + 1, e, n + 1, kind, p)'
  <2>1. n + 1 \in 1..(n + 1) /\ (n + 1) + 1..(n + 1) = {}
    BY <1>1
  <2> QED
    BY <2>1 DEF LastAbout
<1>5. ASSUME ~About(n + 1, e, kind, p)', NEW k, LastAbout(k, e, n, kind, p)
      PROVE  LastAbout(k, e, n + 1, kind, p)'
  <2>1. k \in 1..n /\ About(k, e, kind, p)' /\ \A l \in k + 1..n : ~About(l, e, kind, p)'
    BY <1>1, <1>2, <1>5 DEF LastAbout
  <2>2. k \in 1..(n + 1) /\ \A l \in k + 1..(n + 1) : l \in k + 1..n \/ l = n + 1
    BY <1>1, <2>1
  <2> QED
    BY <1>5, <2>1, <2>2 DEF LastAbout
<1>6. ASSUME ~About(n + 1, e, kind, p)', NobodyAbout(e, n, kind, p)
      PROVE  NobodyAbout(e, n + 1, kind, p)'
  <2>1. \A k \in 1..(n + 1) : k \in 1..n \/ k = n + 1
    BY <1>1
  <2> QED
    BY <1>2, <1>6, <2>1 DEF NobodyAbout
<1> QED
  BY <1>2, <1>3, <1>4, <1>5, <1>6

\* A path once registered both ways stays so.
LEMMA MixedGrows ==
  ASSUME TypeOK, NEW call \in Calls,
         Register(call.e, call.what) \/ Secured(call.e, call.what), NEW e, NEW p
  PROVE  KindsMixed(e, p) => KindsMixed(e, p)'
<1>1. \A k \in 1..Len(calls) : k \in 1..Len(calls') /\ calls'[k] = calls[k]
  BY CallGrows
<1>2. DOMAIN calls = 1..Len(calls)
  BY DEF TypeOK
<1>3. calls' \in Seq(ConfigCall)
  BY CallTypes DEF TypeOK
<1>4. DOMAIN calls' = 1..Len(calls')
  BY <1>3
<1>5. \A k \in DOMAIN calls : k \in DOMAIN calls' /\ calls'[k] = calls[k]
  BY <1>1, <1>2, <1>4
<1> QED
  BY <1>5 DEF KindsMixed

\* The table of listeners after one more call.
LEMMA ListenerStep ==
  ASSUME TypeOK, NEW call \in Calls,
         Register(call.e, call.what) \/ Secured(call.e, call.what),
         NEW e \in Endpoints, NEW p \in Paths,
         ListenerSaid(routes[e].listeners[p], e, Len(calls), p)
  PROVE  ListenerSaid(routes[e].listeners[p], e, Len(calls), p)'
<1>1. PICK d, w, n : d = call.e /\ w = call.what /\ n = Len(calls)
  OBVIOUS
<1>2. /\ d \in Endpoints /\ w \in What /\ n \in Nat /\ Len(calls') = n + 1
      /\ \A k \in 1..n : calls'[k] = calls[k]
      /\ calls'[n + 1].e = d /\ calls'[n + 1].what = w
  BY <1>1, CallGrows
<1>3. CASE d = e /\ w.op = "request" /\ w.path = p
  <2>1. Register(e, w)
    BY <1>1, <1>3 DEF Secured
  <2>2. routes'[e].listeners[p] = NewListener(n + 1, w, p)
    BY <1>1, <1>2, <1>3, <2>1, RegisteredEntries
  <2>3. About(n + 1, e, "request", p)'
    BY <1>2, <1>3 DEF About, KindOf, AssetOps
  <2>4. LastAbout(n + 1, e, n + 1, "request", p)'
    BY <1>1, <2>3, AboutGrows
  <2>5. routes'[e].listeners[p] # NoListener /\ routes'[e].listeners[p].id = n + 1
    BY <1>2, <2>2 DEF NoListener, NewListener
  <2> QED
    BY <1>2, <2>2, <2>4, <2>5 DEF ListenerSaid, ListenerOfCall
<1>4. CASE ~(d = e /\ w.op = "request" /\ w.path = p)
  <2>1. routes'[e].listeners[p] = routes[e].listeners[p]
    <3>1. CASE Register(d, w) /\ d = e
      BY <1>1, <1>2, <1>4, <3>1, RegisteredEntries
    <3>2. CASE Register(d, w) /\ d # e
      BY <3>2 DEF Register, TypeOK
    <3>3. CASE Secured(d, w)
      BY <3>3 DEF Secured
    <3> QED
      BY <1>1, <3>1, <3>2, <3>3
  <2>2. ~About(n + 1, e, "request", p)'
    <3>1. KindOf(w.op) = "request" => w.op = "request"
      BY DEF KindOf, AssetOps
    <3> QED
      BY <1>2, <1>4, <3>1 DEF About
  <2>3. CASE routes[e].listeners[p] = NoListener
    <3>1. NobodyAbout(e, n + 1, "request", p)'
      BY <1>1, <2>2, <2>3, AboutGrows DEF ListenerSaid
    <3> QED
      BY <1>2, <2>1, <2>3, <3>1 DEF ListenerSaid
  <2>4. CASE routes[e].listeners[p] # NoListener
    <3>1. PICK k : k = routes[e].listeners[p].id
      OBVIOUS
    <3>2. LastAbout(k, e, n, "request", p) /\ routes[e].listeners[p] = ListenerOfCall(k, p)
      BY <1>1, <2>4, <3>1 DEF ListenerSaid
    <3>3. LastAbout(k, e, n + 1, "request", p)' /\ k \in 1..n
      BY <1>1, <2>2, <3>2, AboutGrows DEF LastAbout
    <3>4. ListenerOfCall(k, p)' = ListenerOfCall(k, p)
      BY <1>2, <3>3 DEF ListenerOfCall
    <3> QED
      BY <1>2, <2>1, <2>4, <3>1, <3>2, <3>3, <3>4 DEF ListenerSaid
  <2> QED
    BY <2>3, <2>4
<1> QED
  BY <1>3, <1>4

\* An asset registered over another: if none of the calls is of the other kind,
\* nothing of the old entry shows.
LEMMA AssetOverAsset ==
  ASSUME TypeOK, NEW call \in Calls, Register(call.e, call.what),
         NEW w, w = call.what, NEW e, e = call.e, NEW n, n = Len(calls),
         NEW p, w.op \in AssetOps, w.path = p,
         NEW a, NEW b, AssetSaid(a, e, n, p),
         w.op = "asset" => b = NewFile(n + 1, w, a),
         w.op = "assets" => b = NewDirectory(n + 1, a)
  PROVE  b = AssetOfCall(n + 1)' \/ KindsMixed(e, p)'
<1>1. /\ n \in Nat /\ Len(calls') = n + 1 /\ \A k \in 1..n : calls'[k] = calls[k]
      /\ calls'[n + 1].e = e /\ calls'[n + 1].what = w
  BY CallGrows
<1>2. CASE a = NoAsset
  <2>1. w.op = "asset" \/ w.op = "assets"
    BY DEF AssetOps
  <2>2. AssetOfCall(n + 1)' = IF w.op = "assets" THEN NewDirectory(n + 1, NoAsset)
                              ELSE NewFile(n + 1, w, NoAsset)
    BY <1>1 DEF AssetOfCall
  <2> QED
    BY <1>2, <2>1, <2>2
<1>3. CASE KindsMixed(e, p)
  BY <1>3, MixedGrows
<1>4. CASE a # NoAsset /\ ~KindsMixed(e, p)
  <2>1. PICK k : k = a.path
    OBVIOUS
  <2>2. /\ k \in 1..n /\ About(k, e, "asset", p) /\ a = AssetOfCall(k)
    BY <1>4, <2>1 DEF AssetSaid, LastAbout
  <2>3. PICK v : v = calls[k].what
    OBVIOUS
  <2>4. calls[k].e = e /\ v.op \in AssetOps /\ v.path = p
    BY <2>2, <2>3 DEF About, KindOf, AssetOps
  <2>5. CASE v.op # w.op
    <3>1. {v.op, w.op} = AssetOps
      BY <2>4, <2>5 DEF AssetOps
    <3>2. calls' \in Seq(ConfigCall)
      BY CallTypes DEF TypeOK
    <3>3. k \in DOMAIN calls' /\ n + 1 \in DOMAIN calls'
      BY <1>1, <2>2, <3>2
    <3>4. calls'[k].e = e /\ calls'[k].what.op = v.op /\ calls'[k].what.path = p
      BY <1>1, <2>2, <2>3, <2>4
    <3>5. \A op \in AssetOps : op = v.op \/ op = w.op
      BY <3>1
    <3> QED
      BY <1>1, <3>3, <3>4, <3>5 DEF KindsMixed
  <2>6. CASE v.op = w.op /\ w.op = "asset"
    <3>1. a.is_dir = FALSE
      BY <2>2, <2>3, <2>6 DEF AssetOfCall, NewFile, NoAsset
    <3>2. NewFile(n + 1, w, a) = NewFile(n + 1, w, NoAsset)
      BY <3>1 DEF NewFile, NoAsset
    <3>3. AssetOfCall(n + 1)' = NewFile(n + 1, w, NoAsset)
      BY <1>1, <2>6 DEF AssetOfCall
    <3> QED
      BY <2>6, <3>2, <3>3
  <2>7. CASE v.op = w.op /\ w.op = "assets"
    <3>1. a.extras = 0
      BY <2>2, <2>3, <2>7 DEF AssetOfCall, NewDirectory, NoAsset
    <3>2. NewDirectory(n + 1, a) = NewDirectory(n + 1, NoAsset)
      BY <3>1 DEF NewDirectory, NoAsset
    <3>3. AssetOfCall(n + 1)' = NewDirectory(n + 1, NoAsset)
      BY <1>1, <2>7 DEF AssetOfCall
    <3> QED
      BY <2>7, <3>2, <3>3
  <2> QED
    BY <2>5, <2>6, <2>7 DEF AssetOps
<1> QED
  BY <1>2, <1>3, <1>4

\* The table of assets after one more call.
LEMMA AssetStep ==
  ASSUME TypeOK, NEW call \in Calls,
         Register(call.e, call.what) \/ Secured(call.e, call.what),
         NEW e \in Endpoints, NEW p \in Paths,
         AssetSaid(routes[e].assets[p], e, Len(calls), p)
  PROVE  AssetSaid(routes[e].assets[p], e, Len(calls), p)'
<1>1. PICK d, w, n : d = call.e /\ w = call.what /\ n = Len(calls)
  OBVIOUS
<1>2. /\ d \in Endpoints /\ w \in What /\ n \in Nat /\ Len(calls') = n + 1
      /\ \A k \in 1..n : calls'[k] = calls[k]
      /\ calls'[n + 1].e = d /\ calls'[n + 1].what = w
  BY <1>1, CallGrows
<1>3. CASE d = e /\ w.op \in AssetOps /\ w.path = p
  <2>1. Register(d, w) /\ Register(call.e, call.what)
    BY <1>1, <1>3 DEF Secured, AssetOps
  <2>2. PICK a, b : a = routes[e].assets[p] /\ b = routes'[e].assets[p]
    OBVIOUS
  <2>3. /\ w.op = "asset" => b = NewFile(n + 1, w, a)
        /\ w.op = "assets" => b = NewDirectory(n + 1, a)
    BY <1>1, <1>2, <1>3, <2>1, <2>2, RegisteredEntries
  <2>4. w.op = "asset" \/ w.op = "assets"
    BY <1>3 DEF AssetOps
  <2>5. b.path = n + 1 /\ b # NoAsset
    BY <1>2, <2>3, <2>4 DEF NewFile, NewDirectory, NoAsset
  <2>6. About(n + 1, e, "asset", p)'
    BY <1>2, <1>3 DEF About, KindOf
  <2>7. LastAbout(n + 1, e, n + 1, "asset", p)'
    BY <1>1, <2>6, AboutGrows
  <2>8. AssetSaid(a, e, n, p)
    BY <1>1, <2>2
  <2>9. b = AssetOfCall(n + 1)' \/ KindsMixed(e, p)'
    BY <1>1, <1>3, <2>1, <2>3, <2>8, AssetOverAsset
  <2>10. /\ LastAbout(b.path, e, Len(calls), "asset", p)'
         /\ b = AssetOfCall(b.path)' \/ KindsMixed(e, p)'
    BY <1>2, <2>5, <2>7, <2>9
  <2> QED
    BY <2>2, <2>5, <2>10 DEF AssetSaid
<1>4. CASE ~(d = e /\ w.op \in AssetOps /\ w.path = p)
  <2>1. routes'[e].assets[p] = routes[e].assets[p]
    <3>1. CASE Register(d, w) /\ d = e
      BY <1>1, <1>2, <1>4, <3>1, RegisteredEntries DEF AssetOps
    <3>2. CASE Register(d, w) /\ d # e
      BY <3>2 DEF Register, TypeOK
    <3>3. CASE Secured(d, w)
      BY <3>3 DEF Secured
    <3> QED
      BY <1>1, <3>1, <3>2, <3>3
  <2>2. ~About(n + 1, e, "asset", p)'
    <3>1. w.op \in {"request", "fallback", "asset", "assets", "use_tls"}
      BY <1>2, WhatParts
    <3>2. KindOf(w.op) = "asset" => w.op \in AssetOps
      BY <3>1 DEF KindOf, AssetOps
    <3> QED
      BY <1>2, <1>4, <3>2 DEF About
  <2>3. CASE routes[e].assets[p] = NoAsset
    <3>1. NobodyAbout(e, n + 1, "asset", p)'
      BY <1>1, <2>2, <2>3, AboutGrows DEF AssetSaid
    <3> QED
      BY <1>2, <2>1, <2>3, <3>1 DEF AssetSaid
  <2>4. CASE routes[e].assets[p] # NoAsset
    <3>1. PICK a, k : a = routes[e].assets[p] /\ k = a.path
      OBVIOUS
    <3>2. LastAbout(k, e, n, "asset", p) /\ (a = AssetOfCall(k) \/ KindsMixed(e, p))
      BY <1>1, <2>4, <3>1 DEF AssetSaid
    <3>3. LastAbout(k, e, n + 1, "asset", p)' /\ k \in 1..n
      BY <1>1, <2>2, <3>2, AboutGrows DEF LastAbout
    <3>4. AssetOfCall(k)' = AssetOfCall(k)
      BY <1>2, <3>3 DEF AssetOfCall
    <3>5. a = AssetOfCall(k)' \/ KindsMixed(e, p)'
      BY <3>2, <3>4, MixedGrows
    <3> QED
      BY <1>2, <2>1, <2>4, <3>1, <3>3, <3>5 DEF AssetSaid
  <2> QED
    BY <2>3, <2>4
<1> QED
  BY <1>3, <1>4

\* The fallback after one more call.
LEMMA FallbackStep ==
  ASSUME TypeOK, NEW call \in Calls,
         Register(call.e, call.what) \/ Secured(call.e, call.what),
         NEW e \in Endpoints,
         FallbackSaid(routes[e].fallback, e, Len(calls))
  PROVE  FallbackSaid(routes[e].fallback, e, Len(calls))'
<1>1. PICK d, w, n : d = call.e /\ w = call.what /\ n = Len(calls)
  OBVIOUS
<1>2. /\ d \in Endpoints /\ w \in What /\ n \in Nat /\ Len(calls') = n + 1
      /\ \A k \in 1..n : calls'[k] = calls[k]
      /\ calls'[n + 1].e = d /\ calls'[n + 1].what = w
  BY <1>1, CallGrows
<1>3. CASE d = e /\ w.op = "fallback"
  <2>1. Register(e, w)
    BY <1>1, <1>3 DEF Secured
  <2>2. routes'[e].fallback = NewFallback(n + 1, w)
    BY <1>1, <1>2, <1>3, <2>1, RegisteredFallback
  <2>3. About(n + 1, e, "fallback", <<>>)'
    BY <1>2, <1>3 DEF About, KindOf, AssetOps
  <2>4. LastAbout(n + 1, e, n + 1, "fallback", <<>>)'
    BY <1>1, <2>3, AboutGrows
  <2>5. routes'[e].fallback # NoListener /\ routes'[e].fallback.id = n + 1
    BY <1>2, <2>2 DEF NoListener, NewFallback
  <2> QED
    BY <1>2, <2>2, <2>4, <2>5 DEF FallbackSaid, FallbackOfCall
<1>4. CASE ~(d = e /\ w.op = "fallback")
  <2>1. routes'[e].fallback = routes[e].fallback
    <3>1. CASE Register(d, w) /\ d = e
      BY <1>1, <1>2, <1>4, <3>1, RegisteredFallback
    <3>2. CASE Register(d, w) /\ d # e
      BY <3>2 DEF Register, TypeOK
    <3>3. CASE Secured(d, w)
      BY <3>3 DEF Secured
    <3> QED
      BY <1>1, <3>1, <3>2, <3>3
  <2>2. ~About(n + 1, e, "fallback", <<>>)'
    <3>1. KindOf(w.op) = "fallback" => w.op = "fallback"
      BY DEF KindOf, AssetOps
    <3> QED
      BY <1>2, <1>4, <3>1 DEF About
  <2>3. CASE routes[e].fallback = NoListener
    <3>1. NobodyAbout(e, n + 1, "fallback", <<>>)'
      BY <1>1, <2>2, <2>3, AboutGrows DEF FallbackSaid
    <3> QED
      BY <1>2, <2>1, <2>3, <3>1 DEF FallbackSaid
  <2>4. CASE routes[e].fallback # NoListener
    <3>1. PICK k : k = routes[e].fallback.id
      OBVIOUS
    <3>2. LastAbout(k, e, n, "fallback", <<>>) /\ routes[e].fallback = FallbackOfCall(k)
      BY <1>1, <2>4, <3>1 DEF FallbackSaid
    <3>3. LastAbout(k, e, n + 1, "fallback", <<>>)' /\ k \in 1..n
      BY <1>1, <2>2, <3>2, AboutGrows DEF LastAbout
    <3>4. FallbackOfCall(k)' = FallbackOfCall(k)
      BY <1>2, <3>3 DEF FallbackOfCall
    <3> QED
      BY <1>2, <2>1, <2>4, <3>1, <3>2, <3>3, <3>4 DEF FallbackSaid
  <2> QED
    BY <2>3, <2>4
<1> QED
  BY <1>3, <1>4

\* The last call about an entry stands.
LEMMA LastStands ==
  ASSUME calls \in Seq(ConfigCall), NEW n, n = Len(calls), NEW e, NEW p,
         NEW kind \in {"request", "asset", "fallback"}, NEW k, LastAbout(k, e, n, kind, p)
  PROVE  k \in Standing(e, n)
<1>1. n \in Nat /\ \A l \in 1..n : calls[l].what \in What
  <2>1. \A call \in ConfigCall : call.what \in What
    BY DEF ConfigCall
  <2>2. n \in Nat /\ \A l \in 1..n : calls[l] \in ConfigCall
    OBVIOUS
  <2> QED
    BY <2>1, <2>2
<1>2. k \in 1..n /\ About(k, e, kind, p) /\ \A l \in k + 1..n : l \in 1..n /\ ~About(l, e, kind, p)
  BY <1>1 DEF LastAbout
<1>3. calls[k].e = e /\ KindOf(calls[k].what.op) = kind /\ calls[k].what.op # "use_tls"
  BY <1>2 DEF About, KindOf, AssetOps
<1>4. ASSUME NEW l \in k + 1..n, calls[l].e = e, calls[l].what.op # "use_tls",
             SameEntry(calls[l].what, calls[k].what)
      PROVE  FALSE
  <2>1. PICK v, w : v = calls[l].what /\ w = calls[k].what
    OBVIOUS
  <2>2. v \in What /\ w \in What /\ SameEntry(v, w)
    BY <1>1, <1>2, <1>4, <2>1
  <2>3. KindOf(v.op) = KindOf(w.op)
    BY <2>2 DEF SameEntry, KindOf, AssetOps
  <2>4. kind # "fallback" => v.path = w.path
    BY <1>3, <2>1, <2>2, <2>3 DEF SameEntry, KindOf, AssetOps
  <2>5. kind # "fallback" => w.path = p
    BY <1>2, <2>1 DEF About
  <2> QED
    BY <1>2, <1>3, <1>4, <2>1, <2>3, <2>4, <2>5 DEF About
<1> QED
  BY <1>2, <1>3, <1>4 DEF Standing

\* What the tables say of a URI: which registrations stand for it.
LEMMA ForKind ==
  ASSUME calls \in Seq(ConfigCall), NEW n, n = Len(calls), NEW e, NEW uri \in Uris,
         NEW kind \in {"request", "asset"}, NEW ops,
         ops = IF kind = "asset" THEN AssetOps ELSE {"request"}
  PROVE  /\ \A p \in Matching[uri] : \A k :
               LastAbout(k, e, n, kind, p) => k \in For(ops, e, uri, n)
         /\ (\A p \in Matching[uri] : NobodyAbout(e, n, kind, p)) => For(ops, e, uri, n) = {}
<1>1. ops # {"fallback"} /\ \A op : op \in ops <=> KindOf(op) = kind
  BY DEF KindOf, AssetOps
<1>2. ASSUME NEW p \in Matching[uri], NEW k, LastAbout(k, e, n, kind, p)
      PROVE  k \in For(ops, e, uri, n)
  <2>1. k \in Standing(e, n)
    BY <1>2, LastStands
  <2>2. KindOf(calls[k].what.op) = kind /\ calls[k].what.path = p
    BY <1>2 DEF LastAbout, About
  <2> QED
    BY <1>1, <2>1, <2>2 DEF For
<1>3. ASSUME \A p \in Matching[uri] : NobodyAbout(e, n, kind, p), NEW k \in For(ops, e, uri, n)
      PROVE  FALSE
  <2>1. /\ k \in 1..n /\ calls[k].e = e
        /\ calls[k].what.op \in ops /\ calls[k].what.path \in Matching[uri]
    BY <1>1 DEF For, Standing
  <2>2. KindOf(calls[k].what.op) = kind
    BY <1>1, <2>1
  <2> QED
    BY <1>3, <2>1, <2>2 DEF NobodyAbout, About
<1> QED
  BY <1>2, <1>3

LEMMA ForFallback ==
  ASSUME calls \in Seq(ConfigCall), NEW n, n = Len(calls), NEW e, NEW uri \in Uris
  PROVE  /\ \A k : LastAbout(k, e, n, "fallback", <<>>) => k \in For({"fallback"}, e, uri, n)
         /\ NobodyAbout(e, n, "fallback", <<>>) => For({"fallback"}, e, uri, n) = {}
<1>1. \A op : KindOf(op) = "fallback" <=> op = "fallback"
  BY DEF KindOf, AssetOps
<1>2. ASSUME NEW k, LastAbout(k, e, n, "fallback", <<>>)
      PROVE  k \in For({"fallback"}, e, uri, n)
  <2>1. k \in Standing(e, n)
    BY <1>2, LastStands
  <2>2. calls[k].what.op = "fallback"
    BY <1>1, <1>2 DEF LastAbout, About
  <2> QED
    BY <2>1, <2>2 DEF For
<1>3. ASSUME NobodyAbout(e, n, "fallback", <<>>), NEW k \in For({"fallback"}, e, uri, n)
      PROVE  FALSE
  <2>1. k \in 1..n /\ calls[k].e = e /\ calls[k].what.op = "fallback"
    BY DEF For, Standing
  <2> QED
    BY <1>1, <1>3, <2>1 DEF NobodyAbout, About
<1> QED
  BY <1>2, <1>3

\* The directory of a path that ends in a wildcard segment.
LEMMA RootIsDirectory ==
  ASSUME NEW u \in Seq(STRING), NEW path, path = u \o <<"/", "#">>
  PROVE  RootDir(path) = DirectoryUri(path)
<1>1. PICK s, S : s = <<"/", "#">> /\ S = STRING \union {"/", "#"}
  OBVIOUS
<1>2. /\ s \in Seq(S) /\ u \in Seq(S) /\ Len(s) = 2 /\ Len(u) \in Nat /\ path = u \o s /\ path \in Seq(S)
      /\ Len(path) = Len(u) + 2
  <2>1. s \in Seq(S) /\ Len(s) = 2
    BY <1>1
  <2>2. u \in Seq(S)
    BY <1>1, SeqMonotonic
  <2> QED
    BY <1>1, <2>1, <2>2
<1>3. SubSeq(path, 1, Len(u)) = u
  <2>1. \A i \in 1..Len(u) : path[i] = u[i]
    BY <1>2
  <2>2. SubSeq(path, 1, Len(u)) \in Seq(S) /\ Len(SubSeq(path, 1, Len(u))) = Len(u)
    BY <1>2
  <2>3. \A i \in 1..Len(u) : SubSeq(path, 1, Len(u))[i] = u[i]
    BY <1>2, <2>1
  <2> QED
    BY <1>2, <2>2, <2>3, SeqEqual
<1>4. RootDir(path) = u
  <2>1. ~(Len(path) < 2) /\ Len(path) - 2 = Len(u)
    BY <1>2
  <2> QED
    BY <1>3, <2>1 DEF RootDir
<1>5. ASSUME NEW v \in {SubSeq(path, 1, k) : k \in 0..Len(path)}, v \o s = path
      PROVE  v = u
  <2>1. v \in Seq(S)
    <3>1. PICK k \in 0..Len(path) : v = SubSeq(path, 1, k)
      OBVIOUS
    <3> QED
      BY <1>2, <3>1
  <2>2. Len(v) = Len(u)
    BY <1>2, <1>5, <2>1
  <2>3. \A i \in 1..Len(u) : (v \o s)[i] = v[i] /\ (u \o s)[i] = u[i]
    BY <1>2, <2>1, <2>2
  <2>4. \A i \in 1..Len(u) : v[i] = u[i]
    BY <1>2, <1>5, <2>3
  <2> QED
    BY <1>2, <2>1, <2>2, <2>4, SeqEqual
<1>6. u \in {SubSeq(path, 1, k) : k \in 0..Len(path)} /\ u \o s = path
  <2>1. Len(u) \in 0..Len(path)
    BY <1>2
  <2> QED
    BY <1>2, <1>3, <2>1
<1> QED
  BY <1>1, <1>4, <1>5, <1>6 DEF DirectoryUri

\* What is asked for is what an entry holding it gives.
LEMMA AskedListener ==
  ASSUME NEW k, NEW w, w = calls[k].what, w.op = "request", NEW p, w.path = p,
         NEW l, l = NewListener(k, w, p)
  PROVE  Asked(k) = Called("listener", l, l.groups + 1)
<1>1. Asked(k) = [by |-> "listener", id |-> k, async |-> w.async, slots |-> MgSlots(p),
                  extras |-> 0, root |-> <<>>]
  BY DEF Asked, NotFound
<1>2. l.id = k /\ l.async = w.async /\ l.groups + 1 = MgSlots(p)
  BY DEF NewListener, MgSlots, count_groups
<1> QED
  BY <1>1, <1>2 DEF Called

LEMMA AskedFallback ==
  ASSUME NEW k, NEW w, w = calls[k].what, w.op = "fallback"
  PROVE  Asked(k) = Called("fallback", NewFallback(k, w), 0)
BY DEF Asked, NotFound, Called, NewFallback

LEMMA AskedAsset ==
  ASSUME NEW k, NEW w \in What, w = calls[k].what, w.op \in AssetOps, NEW p, p = w.path,
         w.op = "assets" => \E u \in Seq(STRING) : p = u \o <<"/", "#">>
  PROVE  Asked(k) = FromAsset(p, AssetOfCall(k))
<1>1. CASE w.op = "asset"
  <2>1. Asked(k) = [by |-> "file", id |-> k, async |-> FALSE, slots |-> 0,
                    extras |-> IF w.extras THEN k ELSE 0, root |-> <<>>]
    BY <1>1 DEF Asked, NotFound
  <2>2. AssetOfCall(k) = [is_dir |-> FALSE, path |-> k, extras |-> IF w.extras THEN k ELSE 0]
    BY <1>1 DEF AssetOfCall, NewFile, NoAsset
  <2> QED
    BY <2>1, <2>2 DEF FromAsset
<1>2. CASE w.op = "assets"
  <2>1. Asked(k) = [by |-> "dir", id |-> k, async |-> FALSE, slots |-> 0, extras |-> 0,
                    root |-> DirectoryUri(p)]
    BY <1>2 DEF Asked, NotFound
  <2>2. AssetOfCall(k) = [is_dir |-> TRUE, path |-> k, extras |-> 0]
    BY <1>2 DEF AssetOfCall, NewDirectory, NoAsset
  <2>3. RootDir(p) = DirectoryUri(p)
    BY <1>2, RootIsDirectory
  <2> QED
    BY <2>1, <2>2, <2>3 DEF FromAsset
<1> QED
  BY <1>1, <1>2 DEF AssetOps

\* The paths that on_assets is given end in a wildcard segment, as in
\* on_assets("/assets/#", ...): of any other path handle_http_message would cut
\* off two characters all the same.
DirectoriesEndInWildcard ==
    \A call \in Calls :
       call.what.op = "assets" => \E u \in Seq(STRING) : call.what.path = u \o <<"/", "#">>

\* A request is served from tables that hold the last registrations.
LEMMA TablesServe ==
  ASSUME DirectoriesEndInWildcard, calls \in Seq(ConfigCall),
         \A k \in 1..Len(calls) : calls[k] \in Calls,
         NEW e \in Endpoints, TableInv(e), NEW uri \in Uris,
         NEW r, r = routes[e], NEW o \in Serve(r, uri), NEW n, n = Len(calls)
  PROVE  Served(o, e, uri, n)
<1>1. \A p \in Matching[uri] :
         /\ p \in Paths
         /\ ListenerSaid(r.listeners[p], e, n, p) /\ AssetSaid(r.assets[p], e, n, p)
  BY DEF TableInv, Matching
<1>2. FallbackSaid(r.fallback, e, n)
  BY DEF TableInv
<1>3. CASE \E p \in Matching[uri] : r.listeners[p] # NoListener
  <2>1. PICK p \in Matching[uri] : /\ r.listeners[p] # NoListener
                                   /\ o = Called("listener", r.listeners[p], r.listeners[p].groups + 1)
    BY <1>3 DEF Serve
  <2>2. PICK l, k : l = r.listeners[p] /\ k = l.id
    OBVIOUS
  <2>3. LastAbout(k, e, n, "request", p) /\ l = ListenerOfCall(k, p)
    BY <1>1, <2>1, <2>2 DEF ListenerSaid
  <2>4. k \in For({"request"}, e, uri, n)
    BY <2>3, ForKind
  <2>5. calls[k].what.op = "request" /\ calls[k].what.path = p
    BY <2>3 DEF LastAbout, About, KindOf, AssetOps
  <2>6. PICK w : w = calls[k].what
    OBVIOUS
  <2>7. l = NewListener(k, w, p)
    BY <2>3, <2>6 DEF ListenerOfCall
  <2>8. Asked(k) = Called("listener", l, l.groups + 1)
    BY <2>5, <2>6, <2>7, AskedListener
  <2> QED
    BY <2>1, <2>2, <2>4, <2>8 DEF Served, Foremost
<1>4. CASE \A p \in Matching[uri] : r.listeners[p] = NoListener
  <2>1. For({"request"}, e, uri, n) = {}
    <3>1. \A p \in Matching[uri] : NobodyAbout(e, n, "request", p)
      BY <1>1, <1>4 DEF ListenerSaid
    <3> QED
      BY <3>1, ForKind
  <2>2. CASE \E p \in Matching[uri] : r.assets[p] # NoAsset
    <3>1. PICK p \in Matching[uri] : r.assets[p] # NoAsset /\ o = FromAsset(p, r.assets[p])
      BY <1>4, <2>2 DEF Serve
    <3>2. PICK a, k : a = r.assets[p] /\ k = a.path
      OBVIOUS
    <3>3. LastAbout(k, e, n, "asset", p) /\ (a = AssetOfCall(k) \/ KindsMixed(e, p))
      BY <1>1, <3>1, <3>2 DEF AssetSaid
    <3>4. k \in For(AssetOps, e, uri, n)
      BY <3>3, ForKind
    <3>5. CASE KindsMixed(e, p)
      <4>1. o.by \in {"file", "dir"}
        BY <3>1 DEF FromAsset
      <4> QED
        BY <3>5, <4>1 DEF Served
    <3>6. CASE a = AssetOfCall(k)
      <4>1. /\ k \in 1..Len(calls) /\ calls[k] \in Calls
            /\ calls[k].what.op \in AssetOps /\ calls[k].what.path = p
        BY <3>3 DEF LastAbout, About, KindOf, AssetOps
      <4>2. calls[k].what \in What
        BY <4>1, ServerAssumption DEF ConfigCall
      <4>3. calls[k].what.op = "assets" => \E u \in Seq(STRING) : p = u \o <<"/", "#">>
        BY <4>1 DEF DirectoriesEndInWildcard
      <4>4. Asked(k) = FromAsset(p, AssetOfCall(k))
        BY <4>1, <4>2, <4>3, AskedAsset
      <4> QED
        BY <2>1, <3>1, <3>2, <3>4, <3>6, <4>4 DEF Served, Foremost
    <3> QED
      BY <3>3, <3>5, <3>6
  <2>3. CASE \A p \in Matching[uri] : r.assets[p] = NoAsset
    <3>1. For(AssetOps, e, uri, n) = {}
      <4>1. \A p \in Matching[uri] : NobodyAbout(e, n, "asset", p)
        BY <1>1, <2>3 DEF AssetSaid
      <4> QED
        BY <4>1, ForKind
    <3>2. CASE r.fallback # NoListener
      <4>1. o = Called("fallback", r.fallback, 0)
        BY <1>4, <2>3, <3>2 DEF Serve
      <4>2. PICK l, k : l = r.fallback /\ k = l.id
        OBVIOUS
      <4>3. LastAbout(k, e, n, "fallback", <<>>) /\ l = FallbackOfCall(k)
        BY <1>2, <3>2, <4>2 DEF FallbackSaid
      <4>4. k \in For({"fallback"}, e, uri, n)
        BY <4>3, ForFallback
      <4>5. calls[k].what.op = "fallback"
        BY <4>3 DEF LastAbout, About, KindOf, AssetOps
      <4>6. Asked(k) = Called("fallback", l, 0)
        BY <4>3, <4>5, AskedFallback DEF FallbackOfCall
      <4> QED
        BY <2>1, <3>1, <4>1, <4>2, <4>4, <4>6 DEF Served, Foremost
    <3>3. CASE r.fallback = NoListener
      <4>1. o = NotFound
        BY <1>4, <2>3, <3>3 DEF Serve
      <4>2. For({"fallback"}, e, uri, n) = {}
        BY <1>2, <3>3, ForFallback DEF FallbackSaid
      <4> QED
        BY <2>1, <3>1, <4>1, <4>2 DEF Served, Foremost
    <3> QED
      BY <3>2, <3>3
  <2> QED
    BY <2>2, <2>3
<1> QED
  BY <1>3, <1>4

\* What was chosen stays what was asked for by then.
LEMMA ServedKept ==
  ASSUME TypeOK, NEW call \in Calls,
         Register(call.e, call.what) \/ Secured(call.e, call.what),
         NEW o, NEW e, NEW uri, NEW n \in 0..Len(calls), Served(o, e, uri, n)
  PROVE  Served(o, e, uri, n)'
<1>1. \A k \in 1..n : calls'[k] = calls[k]
  BY CallGrows
<1>2. Standing(e, n)' = Standing(e, n)
  <2>1. \A k \in 1..n : \A l \in k + 1..n : l \in 1..n
    BY CallGrows
  <2> QED
    BY <1>1, <2>1 DEF Standing
<1>3. \A k \in Standing(e, n) : k \in 1..n
  BY DEF Standing
<1>4. \A ops : For(ops, e, uri, n)' = For(ops, e, uri, n)
  BY <1>1, <1>2, <1>3 DEF For
<1>5. Foremost(e, uri, n)' = Foremost(e, uri, n)
  BY <1>4 DEF Foremost
<1>6. \A k \in Foremost(e, uri, n) : k \in 1..n
  BY <1>3 DEF Foremost, For
<1>7. \A k \in 1..n : Asked(k)' = Asked(k)
  BY <1>1 DEF Asked
<1>8. \A p : KindsMixed(e, p) => KindsMixed(e, p)'
  BY MixedGrows
<1>9. CASE Foremost(e, uri, n) = {} /\ o = NotFound
  BY <1>5, <1>9 DEF Served
<1>10. CASE \E k \in Foremost(e, uri, n) : o = Asked(k)
  <2>1. PICK k \in Foremost(e, uri, n) : o = Asked(k)
    BY <1>10
  <2>2. k \in Foremost(e, uri, n)' /\ o = Asked(k)'
    BY <1>5, <1>6, <1>7, <2>1
  <2> QED
    BY <2>2 DEF Served
<1>11. CASE \E p \in Matching[uri] : o.by \in {"file", "dir"} /\ KindsMixed(e, p)
  <2>1. PICK p \in Matching[uri] : o.by \in {"file", "dir"} /\ KindsMixed(e, p)
    BY <1>11
  <2>2. KindsMixed(e, p)'
    BY <1>8, <2>1
  <2> QED
    BY <2>1, <2>2 DEF Served
<1> QED
  BY <1>9, <1>10, <1>11 DEF Served

LEMMA CallRoute ==
  ASSUME TypeOK, RouteInv, NEW call \in Calls,
         Register(call.e, call.what) \/ Secured(call.e, call.what)
  PROVE  RouteInv'
<1>1. \A k \in 1..Len(calls') : calls'[k] \in Calls
  <2>1. calls' = Append(calls, [e |-> call.e, what |-> call.what])
    BY DEF Register, Secured, Call
  <2>2. [e |-> call.e, what |-> call.what] = call
    BY ServerAssumption DEF ConfigCall
  <2>3. /\ Len(calls') = Len(calls) + 1 /\ Len(calls) \in Nat
        /\ \A k \in 1..Len(calls) : calls'[k] = calls[k]
        /\ calls'[Len(calls) + 1] = call
    BY <2>1, <2>2 DEF TypeOK
  <2> QED
    BY <2>3 DEF RouteInv
<1>2. ASSUME NEW e \in Endpoints PROVE TableInv(e)'
  <2>1. TableInv(e)
    BY DEF RouteInv
  <2>2. ASSUME NEW p \in Paths
        PROVE  /\ ListenerSaid(routes[e].listeners[p], e, Len(calls), p)'
               /\ AssetSaid(routes[e].assets[p], e, Len(calls), p)'
    BY <2>1, ListenerStep, AssetStep DEF TableInv
  <2>3. FallbackSaid(routes[e].fallback, e, Len(calls))'
    BY <2>1, FallbackStep DEF TableInv
  <2> QED
    BY <2>2, <2>3 DEF TableInv
<1>3. running.on' => /\ running'.at \in 0..Len(calls')
                     /\ Served(running.outcome, running.e, running.uri, running.at)'
  <2> SUFFICES ASSUME running.on'
               PROVE  /\ running'.at \in 0..Len(calls')
                      /\ Served(running.outcome, running.e, running.uri, running.at)'
    OBVIOUS
  <2>1. running' = running
    BY DEF Register, Secured, Call
  <2>2. PICK o, e, uri, n : /\ o = running.outcome /\ e = running.e
                            /\ uri = running.uri /\ n = running.at
    OBVIOUS
  <2>3. n \in 0..Len(calls) /\ Served(o, e, uri, n)
    BY <2>1, <2>2 DEF RouteInv
  <2>4. Served(o, e, uri, n)'
    BY <2>3, ServedKept
  <2>5. Len(calls) \in Nat /\ Len(calls') = Len(calls) + 1
    BY CallGrows
  <2> QED
    BY <2>1, <2>2, <2>3, <2>4, <2>5
<1> QED
  BY <1>1, <1>2, <1>3 DEF RouteInv

\* Without a call what the tables and the history say stays.
LEMMA SameRoute ==
  ASSUME UNCHANGED <<routes, calls>>
  PROVE  /\ \A e : TableInv(e)' <=> TableInv(e)
         /\ \A o, e, uri, n : Served(o, e, uri, n)' <=> Served(o, e, uri, n)
<1>1. \A k, e, kind, p : About(k, e, kind, p)' <=> About(k, e, kind, p)
  BY DEF About
<1>2. /\ \A k, e, n, kind, p : LastAbout(k, e, n, kind, p)' <=> LastAbout(k, e, n, kind, p)
      /\ \A e, n, kind, p : NobodyAbout(e, n, kind, p)' <=> NobodyAbout(e, n, kind, p)
  BY <1>1 DEF LastAbout, NobodyAbout
<1>3. \A e, p : KindsMixed(e, p)' <=> KindsMixed(e, p)
  BY DEF KindsMixed
<1>4. /\ \A k, p : ListenerOfCall(k, p)' = ListenerOfCall(k, p)
      /\ \A k : FallbackOfCall(k)' = FallbackOfCall(k)
      /\ \A k : AssetOfCall(k)' = AssetOfCall(k)
  BY DEF ListenerOfCall, FallbackOfCall, AssetOfCall
<1>5. /\ \A l, e, n, p : ListenerSaid(l, e, n, p)' <=> ListenerSaid(l, e, n, p)
      /\ \A a, e, n, p : AssetSaid(a, e, n, p)' <=> AssetSaid(a, e, n, p)
      /\ \A l, e, n : FallbackSaid(l, e, n)' <=> FallbackSaid(l, e, n)
  BY <1>2, <1>3, <1>4 DEF ListenerSaid, AssetSaid, FallbackSaid
<1>6. ASSUME NEW e PROVE TableInv(e)' <=> TableInv(e)
  BY <1>5 DEF TableInv
<1>7. \A e, n : Standing(e, n)' = Standing(e, n)
  BY DEF Standing
<1>8. \A ops, e, uri, n : For(ops, e, uri, n)' = For(ops, e, uri, n)
  BY <1>7 DEF For
<1>9. \A e, uri, n : Foremost(e, uri, n)' = Foremost(e, uri, n)
  BY <1>8 DEF Foremost
<1>10. \A k : Asked(k)' = Asked(k)
  BY DEF Asked
<1>11. ASSUME NEW o, NEW e, NEW uri, NEW n PROVE Served(o, e, uri, n)' <=> Served(o, e, uri, n)
  BY <1>3, <1>9, <1>10 DEF Served
<1> QED
  BY <1>6, <1>11

LEMMA ReceiveRoute ==
  ASSUME DirectoriesEndInWildcard, TypeOK, RouteInv,
         NEW c \in Conns, NEW uri \in Uris, Receive(c, uri)
  PROVE  RouteInv'
<1>1. PICK e, r, o, n : e = conns[c].via /\ r = routes[e] /\ o = running'.outcome /\ n = Len(calls)
  OBVIOUS
<1>2. /\ e \in Endpoints /\ n \in Nat /\ calls \in Seq(ConfigCall)
      /\ o \in Serve(r, uri) /\ running'.e = e /\ running'.uri = uri /\ running'.at = n
      /\ UNCHANGED <<routes, calls>>
  BY <1>1 DEF Receive, TypeOK, Conn
<1>3. Served(o, e, uri, n)
  BY <1>1, <1>2, TablesServe DEF RouteInv
<1>4. Served(o, e, uri, n)' /\ \A d \in Endpoints : TableInv(d)'
  BY <1>2, <1>3, SameRoute DEF RouteInv
<1>5. Served(running.outcome, running.e, running.uri, running.at)'
  BY <1>1, <1>2, <1>4
<1>6. running'.at \in 0..Len(calls')
  BY <1>1, <1>2
<1> QED
  BY <1>2, <1>4, <1>5, <1>6 DEF RouteInv

LEMMA OtherRoute ==
  ASSUME RouteInv, UNCHANGED <<routes, calls>>, UNCHANGED running \/ Return
  PROVE  RouteInv'
<1>1. \A e \in Endpoints : TableInv(e)'
  BY SameRoute DEF RouteInv
<1>2. CASE UNCHANGED running
  <2>1. PICK o, e, uri, n : /\ o = running.outcome /\ e = running.e
                            /\ uri = running.uri /\ n = running.at
    OBVIOUS
  <2>2. running.on => Served(o, e, uri, n) /\ n \in 0..Len(calls)
    BY <2>1 DEF RouteInv
  <2>3. running.on => Served(o, e, uri, n)'
    BY <2>2, SameRoute
  <2>4. running.on' => Served(running.outcome, running.e, running.uri, running.at)'
    BY <1>2, <2>1, <2>3
  <2> QED
    BY <1>1, <1>2, <2>1, <2>2, <2>4 DEF RouteInv
<1>3. CASE Return
  <2>1. ~running'.on
    BY <1>3 DEF Return, NotRunning
  <2> QED
    BY <1>1, <2>1 DEF RouteInv
<1> QED
  BY <1>2, <1>3

\* A request is served as the last registration of some matching path asked:
\* listeners before assets before the fallback before 404, with the kind of
\* callback it was registered with and room for the captures of its own path.
\* An asset path changed from file to directory or back is left out: it keeps
\* parts of what it was. (handle_http_message)
THEOREM RequestsServed == DirectoriesEndInWildcard => (Spec => []ServedAsRegistered)
<1> SUFFICES ASSUME DirectoriesEndInWildcard PROVE Spec => []ServedAsRegistered
  OBVIOUS
<1>1. Init => RouteInv
  <2> SUFFICES ASSUME Init PROVE RouteInv
    OBVIOUS
  <2>1. calls = <<>> /\ Len(calls) = 0 /\ 1..Len(calls) = {} /\ ~running.on
    BY DEF Init, NotRunning
  <2>2. \A e, kind, p : NobodyAbout(e, Len(calls), kind, p)
    BY <2>1 DEF NobodyAbout
  <2>3. ASSUME NEW e \in Endpoints PROVE TableInv(e)
    <3>1. /\ \A p \in Paths : routes[e].listeners[p] = NoListener /\ routes[e].assets[p] = NoAsset
          /\ routes[e].fallback = NoListener
      BY DEF Init, NoRoutes
    <3> QED
      BY <2>2, <3>1 DEF TableInv, ListenerSaid, AssetSaid, FallbackSaid
  <2> QED
    BY <2>1, <2>3 DEF RouteInv
<1>2. TypeOK /\ RouteInv /\ [Next]_vars => RouteInv'
  <2> SUFFICES ASSUME TypeOK, RouteInv, [Next]_vars PROVE RouteInv'
    OBVIOUS
  <2>1. CASE \E call \in Calls : Register(call.e, call.what) \/ Secured(call.e, call.what)
    BY <2>1, CallRoute
  <2>2. CASE \E c \in Conns : \E uri \in Uris : Receive(c, uri)
    BY <2>2, ReceiveRoute
  <2>3. CASE \/ UNCHANGED vars \/ Start \/ Stop \/ Release \/ Return
             \/ \E callback \in BOOLEAN : Construct(callback)
             \/ \E e \in Endpoints : ListenHttp(e) \/ Drop(e) \/ CloseListening(e)
             \/ \E c \in Conns : Close(c) \/ \E e \in Endpoints : Accept(e, c)
    <3>1. UNCHANGED <<routes, calls>> /\ (UNCHANGED running \/ Return)
      BY <2>3 DEF vars, Start, Stop, Release, Return, Construct, ListenHttp, Drop,
                  CloseListening, Close, Accept
    <3> QED
      BY <3>1, OtherRoute
  <2> QED
    BY <2>1, <2>2, <2>3 DEF Next
<1>3. RouteInv => ServedAsRegistered
  BY DEF RouteInv, ServedAsRegistered, Served, Foremost, For
<1> QED
  BY <1>1, <1>2, <1>3, TypeCorrect, PTL DEF Spec
=============================================================================
