----------------------------- MODULE AsyncStream -----------------------------
(***************************************************************************)
(* async_stream and its producer: the thread that runs the loop of the     *)
(* README and of examples/simple (while wait(): send() or close()). The    *)
(* event loop and the producer share m_state (atomic) and m_data (not).    *)
(* Request id i owns at most one stream, so streams are indexed by Ids.    *)
(***************************************************************************)
EXTENDS Mongoose

CONSTANTS
    MaxAsync,    \* bound: asynchronous requests of the endpoint
    MaxChunks,   \* bound: chunks of one stream
    ChunkSizes   \* sizes a chunk may have; 0 is the empty string

Ids == 0 .. MaxAsync - 1

ASSUME StreamAssumption ==
    /\ MaxAsync \in Nat \ {0}
    /\ MaxChunks \in Nat
    /\ ChunkSizes \subseteq Nat

VARIABLES
    owner,   \* owner[i]: m_conn, the connection of request i
    ord,     \* ord[i]: history; which request of its connection i is (0: none)
    sState,  \* async_stream::m_state
    sData,   \* async_stream::m_data: its size, and which write of the stream it holds
    pc       \* what the worker thread of request i does next

streamVars == <<sState, sData>>

StreamState ==
    {"start", "has_data", "flush", "empty", "close", "completed", "failed"}
Data == [n : Nat, size : Nat]
NoData == [n |-> 0, size |-> 0]

ResponsePC == {"begin", "send_wake", "send_mark", "stream_wake", "publish", "return"}
StreamPC == {"wait", "parked", "ready", "data_wake", "close_wake"}
FinalPC == {"done", "null", "exit"}
PC == {"none"} \union ResponsePC \union StreamPC \union FinalPC

\* async_response::send and stream keep the manager alive from lock() to return.
Holding == {"send_wake", "send_mark", "stream_wake", "publish", "return"}

\* weak_ptr<mg_mgr>::lock() yields the manager while anyone owns it.
CanLock == mgr # "released" \/ \E i \in Ids : pc[i] \in Holding

Goto(i, from, to) == pc[i] = from /\ pc' = [pc EXCEPT ![i] = to]

\* Mutant of Notify: the state is stored and nobody is notified.
NotifyNobody(S) == pc

\* notify_one and notify_all: one thread at most waits on a stream.
Notify(S) == [i \in Ids |-> IF i \in S /\ pc[i] = "parked" THEN "wait" ELSE pc[i]]

-----------------------------------------------------------------------------
\* Mutant of WaitReturn: the loop of wait() goes on while the state is flush.
WaitReturnUnlessFlush(i) ==
    /\ \/ sState[i] \notin {"flush", "failed", "completed"} /\ Goto(i, "wait", "ready")
       \/ sState[i] \in {"failed", "completed"} /\ Goto(i, "wait", "exit")
    /\ UNCHANGED <<mongooseVars, streamVars>>

\* wait(): returns true on empty and false on a final state.
WaitReturn(i) ==
    /\ \/ sState[i] = "empty" /\ Goto(i, "wait", "ready")
       \/ sState[i] \in {"failed", "completed"} /\ Goto(i, "wait", "exit")
    /\ UNCHANGED <<mongooseVars, streamVars>>

\* wait(): m_state.wait(current) parks the thread; the comparison with the
\* current value and the parking are one step.
WaitPark(i) ==
    /\ sState[i] \notin {"empty", "failed", "completed"}
    /\ Goto(i, "wait", "parked")
    /\ UNCHANGED <<mongooseVars, streamVars>>

\* send(): fill m_data, then publish it. The state found there is overwritten.
SendChunk(i) ==
    /\ sData[i].n < MaxChunks
    /\ \E size \in ChunkSizes :
          sData' = [sData EXCEPT ![i] = [n |-> @.n + 1, size |-> size]]
    /\ sState' = [sState EXCEPT ![i] = "has_data"]
    /\ Goto(i, "ready", "data_wake")
    /\ UNCHANGED mongooseVars

\* close(): the stream has no more data.
CloseStream(i) ==
    /\ sData' = [sData EXCEPT ![i] = [n |-> @.n + 1, size |-> 0]]
    /\ sState' = [sState EXCEPT ![i] = "close"]
    /\ Goto(i, "ready", "close_wake")
    /\ UNCHANGED mongooseVars

\* Mutant of WakeStream: close() does not wake the loop.
WakeStreamSendOnly(i) ==
    /\ \/ /\ Goto(i, "data_wake", "wait")
          /\ \E ok \in BOOLEAN :
                /\ CanLock
                /\ MgWakeup(i, ok)
                /\ sState' = IF ok THEN sState ELSE [sState EXCEPT ![i] = "failed"]
       \/ Goto(i, "data_wake", "wait") /\ ~CanLock /\ UNCHANGED <<pipe, sState>>
       \/ Goto(i, "close_wake", "exit") /\ UNCHANGED <<pipe, sState>>
    /\ UNCHANGED <<phase, out, reqs, mgr, sData>>

\* send() and close(): wake the event loop. Nothing is recorded when the
\* manager is gone.
WakeStream(i) ==
    /\ Goto(i, "data_wake", "wait") \/ Goto(i, "close_wake", "exit")
    /\ \/ \E ok \in BOOLEAN :
             /\ CanLock
             /\ MgWakeup(i, ok)
             /\ sState' = IF ok THEN sState ELSE [sState EXCEPT ![i] = "failed"]
       \/ ~CanLock /\ UNCHANGED <<pipe, sState>>
    /\ UNCHANGED <<phase, out, reqs, mgr, sData>>

Producer(i) ==
    \/ WaitReturn(i) \/ WaitPark(i)
    \/ SendChunk(i) \/ CloseStream(i) \/ WakeStream(i)

=============================================================================
