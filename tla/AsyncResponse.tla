---------------------------- MODULE AsyncResponse ----------------------------
(***************************************************************************)
(* async_response: the handle a worker thread answers a request with, once *)
(* and by one of send() and stream(). Each wakes the event loop before it  *)
(* stores the state that tells the loop what was asked for.                *)
(***************************************************************************)
EXTENDS AsyncStream

CONSTANT Jobs    \* what a worker does with its response: "send", "stream"

ASSUME ResponseAssumption == Jobs \subseteq {"send", "stream"}

VARIABLES
    rState,    \* async_response::m_state
    rPayload,  \* m_payload has been filled in
    rStream    \* m_stream is not null

responseVars == <<rState, rPayload, rStream>>

ResponseState == {"pending", "sending", "streaming", "completed", "failed"}

-----------------------------------------------------------------------------
\* send(), up to the wakeup: a response that is not pending is left alone.
SendOpen(i) ==
    /\ "send" \in Jobs
    /\ \/ rState[i] # "pending" /\ Goto(i, "begin", "done")
          /\ UNCHANGED <<rState, rPayload>>
       \/ rState[i] = "pending" /\ ~CanLock /\ Goto(i, "begin", "done")
          /\ rState' = [rState EXCEPT ![i] = "failed"]
          /\ UNCHANGED rPayload
       \/ rState[i] = "pending" /\ CanLock /\ Goto(i, "begin", "send_wake")
          /\ rPayload' = [rPayload EXCEPT ![i] = TRUE]
          /\ UNCHANGED rState
    /\ UNCHANGED <<mongooseVars, streamVars, rStream>>

\* Mutant of SendWake: a wakeup that fails leaves the response pending.
SendWakeForgetful(i) ==
    /\ \/ MgWakeup(i, TRUE) /\ Goto(i, "send_wake", "send_mark")
       \/ MgWakeup(i, FALSE) /\ Goto(i, "send_wake", "done")
    /\ UNCHANGED <<phase, out, reqs, mgr, streamVars, responseVars>>

\* send(), the wakeup: m_state = state::failed when it cannot be sent.
SendWake(i) ==
    /\ \/ MgWakeup(i, TRUE) /\ Goto(i, "send_wake", "send_mark") /\ UNCHANGED rState
       \/ MgWakeup(i, FALSE) /\ Goto(i, "send_wake", "done")
          /\ rState' = [rState EXCEPT ![i] = "failed"]
    /\ UNCHANGED <<phase, out, reqs, mgr, streamVars, rPayload, rStream>>

\* m_state = state::sending, whatever the loop has stored since the wakeup.
SendMark(i) ==
    /\ Goto(i, "send_mark", "done")
    /\ rState' = [rState EXCEPT ![i] = "sending"]
    /\ UNCHANGED <<mongooseVars, streamVars, rPayload, rStream>>

\* stream(), up to the wakeup: "null" is a nullptr handed to the caller.
StreamOpen(i) ==
    /\ "stream" \in Jobs
    /\ \/ rState[i] # "pending" /\ Goto(i, "begin", "null")
          /\ UNCHANGED <<rState, rStream, streamVars>>
       \/ rState[i] = "pending" /\ ~CanLock /\ Goto(i, "begin", "null")
          /\ rState' = [rState EXCEPT ![i] = "failed"]
          /\ UNCHANGED <<rStream, streamVars>>
       \/ rState[i] = "pending" /\ CanLock /\ Goto(i, "begin", "stream_wake")
          /\ rStream' = [rStream EXCEPT ![i] = TRUE]
          /\ sState' = [sState EXCEPT ![i] = "start"]
          /\ sData' = [sData EXCEPT ![i] = [n |-> 0, size |-> 1]]
          /\ UNCHANGED rState
    /\ UNCHANGED <<mongooseVars, rPayload>>

\* Mutant of StreamWake: a wakeup that fails leaves the response pending.
StreamWakeForgetful(i) ==
    /\ \/ MgWakeup(i, TRUE) /\ Goto(i, "stream_wake", "publish")
       \/ MgWakeup(i, FALSE) /\ Goto(i, "stream_wake", "null")
    /\ UNCHANGED <<phase, out, reqs, mgr, streamVars, responseVars>>

\* stream(), the wakeup: m_state = state::failed and nullptr when it cannot be sent.
StreamWake(i) ==
    /\ \/ MgWakeup(i, TRUE) /\ Goto(i, "stream_wake", "publish") /\ UNCHANGED rState
       \/ MgWakeup(i, FALSE) /\ Goto(i, "stream_wake", "null")
          /\ rState' = [rState EXCEPT ![i] = "failed"]
    /\ UNCHANGED <<phase, out, reqs, mgr, streamVars, rPayload, rStream>>

\* m_state.store(streaming), whatever the loop has stored since the wakeup.
StreamPublish(i) ==
    /\ Goto(i, "publish", "return")
    /\ rState' = [rState EXCEPT ![i] = "streaming"]
    /\ UNCHANGED <<mongooseVars, streamVars, rPayload, rStream>>

\* return m_stream: copied after the loop was free to move it away, which is a
\* data race. The copy is the stream or nullptr.
StreamReturn(i) ==
    /\ Goto(i, "return", IF rStream[i] THEN "wait" ELSE "null")
    /\ UNCHANGED <<mongooseVars, streamVars, responseVars>>

Responder(i) ==
    \/ SendOpen(i) \/ SendWake(i) \/ SendMark(i)
    \/ StreamOpen(i) \/ StreamWake(i) \/ StreamPublish(i) \/ StreamReturn(i)

=============================================================================
