------------------------------ MODULE Mongoose ------------------------------
(***************************************************************************)
(* What mgxx relies on in the vendored mongoose library: connections, the  *)
(* output side of a connection and the wakeup pipe of the event manager.   *)
(* The library is a git submodule, so this module models it from how the   *)
(* code in src/ calls it.                                                  *)
(***************************************************************************)
EXTENDS Naturals, Sequences, FiniteSets

CONSTANTS
    Conns,          \* connections a client may open; an id is never reused
    IoSize,         \* MG_IO_SIZE, in frames: the back-pressure threshold
    Pipelined,      \* TRUE: requests are dispatched before the last is answered
    MaxRequests,    \* bound: requests per connection
    Disruptions     \* which of Disruption may happen

Disruption == {"disconnect", "shutdown", "wakeup_fails", "wakeup_lost"}

ASSUME MongooseAssumption ==
    /\ Conns # {}
    /\ IoSize \in Nat \ {0}
    /\ Pipelined \in BOOLEAN
    /\ MaxRequests \in Nat
    /\ Disruptions \subseteq Disruption

VARIABLES
    phase,  \* phase[c]: mg_connection c is "idle" (not accepted yet), "open" or "closed"
    out,    \* out[c]: the output side of connection c, an Outlet
    reqs,   \* reqs[c]: number of requests dispatched on c
    pipe,   \* wakeups sent by mg_wakeup and not dispatched yet
    mgr     \* server::m_mgr: "running", "stopping" (in mg_mgr_free) or "released"

mongooseVars == <<phase, out, reqs, pipe, mgr>>

(***************************************************************************)
(* A frame is what one mg_* call appends to a connection's send buffer.    *)
(* req is the request it answers (0 when the handler knows of none), n     *)
(* counts the frames of one chunked response.                              *)
(***************************************************************************)
Whole == {"reply", "invalid", "error"}
FrameKind == Whole \union {"preamble", "chunk", "last"}
Frame == [req : Nat, kind : FrameKind, n : Nat]

\* len: conn->send.len; busy: the request being served has no full answer yet
\* (is_resp); wire: every frame ever written to the connection, in order.
Outlet == [busy : BOOLEAN, len : Nat, wire : Seq(Frame)]

\* One more frame in the send buffer.
Put(o, req, kind, n, busy) ==
    [busy |-> busy, len |-> o.len + 1,
     wire |-> Append(o.wire, [req |-> req, kind |-> kind, n |-> n])]

\* mg_send
MgSend(o, req, kind, n) == Put(o, req, kind, n, o.busy)

\* mg_http_reply: a whole response, which ends the exchange.
MgHttpReply(o, req, kind) == Put(o, req, kind, 0, FALSE)

\* mg_http_write_chunk: a chunk of size 0 is the terminating one.
MgHttpWriteChunk(o, req, n, size) ==
    IF size = 0 THEN Put(o, req, "last", n, FALSE)
                ELSE Put(o, req, "chunk", n, o.busy)

\* mg_wakeup(mgr, conn, id): queues the wakeup, or fails, as it always does once
\* the manager is gone. The pipe is a datagram socket: a wakeup may be lost though
\* mg_wakeup says it was sent, and those that come while mg_mgr_free runs are.
MgWakeup(id, ok) ==
    \/ /\ ok /\ mgr = "running"
       /\ pipe' = Append(pipe, id)
    \/ /\ ok /\ mgr # "released"
       /\ mgr = "running" => "wakeup_lost" \in Disruptions
       /\ pipe' = pipe
    \/ /\ ~ok
       /\ mgr = "running" => "wakeup_fails" \in Disruptions
       /\ pipe' = pipe

MongooseInit ==
    /\ phase = [c \in Conns |-> "idle"]
    /\ out = [c \in Conns |-> [busy |-> FALSE, len |-> 0, wire |-> <<>>]]
    /\ reqs = [c \in Conns |-> 0]
    /\ pipe = <<>>
    /\ mgr = "running"

=============================================================================
