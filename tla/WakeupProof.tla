---------------------------- MODULE WakeupProof ----------------------------
(***************************************************************************)
(* WakeupInv is an invariant of HttpEndpoint, hence EveryWakeupHasTarget,  *)
(* and the hand-over of a stream between the loop and its producer.        *)
(***************************************************************************)
EXTENDS HttpEndpointProof

\* The wakeups in the pipe are for different requests.
Distinct == \A k, l \in DOMAIN pipe : pipe[k] = pipe[l] => k = l

\* mg_wakeup queues at most the request it is given.
LEMMA PushWakeup ==
  ASSUME pipe \in Seq(Ids), Distinct, NEW i \in Ids, ~InPipe(i),
         NEW ok \in BOOLEAN, MgWakeup(i, ok)
  PROVE  /\ Distinct'
         /\ \A j \in Ids : j # i /\ InPipe(j)' => InPipe(j)
         /\ ~ok => ~InPipe(i)'
<1>1. CASE pipe' = pipe
  BY <1>1 DEF Distinct, InPipe
<1>2. CASE pipe' = Append(pipe, i) /\ ok
  <2>1. /\ Len(pipe) \in Nat
        /\ DOMAIN pipe = 1..Len(pipe)
        /\ DOMAIN pipe' = 1..(Len(pipe) + 1)
        /\ pipe'[Len(pipe) + 1] = i
        /\ \A k \in 1..Len(pipe) : pipe'[k] = pipe[k]
    BY <1>2, AppendProperties
  <2> QED
    BY <1>2, <2>1 DEF Distinct, InPipe
<1> QED
  BY <1>1, <1>2 DEF MgWakeup

\* The loop takes the oldest wakeup out of the pipe.
LEMMA PopWakeup ==
  ASSUME pipe \in Seq(Ids), Distinct, NEW i \in Ids, TakeWakeup(i)
  PROVE  /\ Distinct'
         /\ InPipe(i) /\ ~InPipe(i)'
         /\ \A j \in Ids : InPipe(j)' => InPipe(j)
<1>1. /\ Len(pipe) \in Nat /\ Len(pipe) > 0
      /\ DOMAIN pipe = 1..Len(pipe)
      /\ i = pipe[1]
      /\ DOMAIN pipe' = 1..(Len(pipe) - 1)
      /\ \A k \in 1..(Len(pipe) - 1) : pipe'[k] = pipe[k + 1]
  BY EmptySeq, HeadTailProperties DEF TakeWakeup
<1>2. \A k \in DOMAIN pipe' : k + 1 \in DOMAIN pipe /\ k + 1 # 1 /\ pipe'[k] = pipe[k + 1]
  BY <1>1
<1>3. Distinct'
  BY <1>1, <1>2 DEF Distinct
<1>4. InPipe(i) /\ ~InPipe(i)'
  BY <1>1, <1>2 DEF Distinct, InPipe
<1>5. \A j \in Ids : InPipe(j)' => InPipe(j)
  BY <1>2 DEF InPipe
<1> QED
  BY <1>3, <1>4, <1>5
\* A worker's step concerns its own request alone: WakeupInv holds after it if
\* the parts about that request do.
LEMMA WorkerStep ==
  ASSUME TypeOK, WakeupInv, NEW i \in Ids,
         UNCHANGED <<owner, phase, endpointVars>>,
         \A j \in Ids : j # i =>
            pc'[j] = pc[j] /\ sState'[j] = sState[j] /\ rState'[j] = rState[j],
         Distinct',
         \A j \in Ids : j # i /\ InPipe(j)' => InPipe(j),
         InPipe(i)' => InPipe(i) \/ (pc[i] \in Opening \union Turn),
         TurnTaking(i)', Remembered(i)',
         pc'[i] # "none",
         i \in responses[owner[i]] /\ rState'[i] = "failed"
            => pc'[i] \in {"done", "null"} /\ ~InFlight(i)',
         i \in streams[owner[i]] => pc'[i] \in Streaming
  PROVE  WakeupInv'
<1> USE DEF WakeupInv, endpointVars
<1>1. OneWakeup'
  <2>1. loop.op # "idle" => loop.id \in Ids /\ ~InPipe(loop.id) /\ InFlight(loop.id)
    BY DEF OneWakeup, TypeOK, Loop, InFlight, InLoop
  <2>2. pc[i] \in Opening \union Turn => ~InFlight(i)
    BY DEF TurnTaking
  <2>3. loop.op # "idle" => ~InPipe(loop.id)'
    BY <2>1, <2>2
  <2> QED
    BY <2>3 DEF OneWakeup, Distinct
<1>2. LoopHasTarget'
  BY DEF LoopHasTarget
<1>3. ASSUME NEW j \in Ids
      PROVE  TurnTaking(j)' /\ Remembered(j)'
  <2>1. CASE j = i
    BY <2>1
  <2>2. CASE j # i
    <3>1. InFlight(j)' => InFlight(j)
      BY <2>2 DEF InFlight, InLoop
    <3>2. TurnTaking(j) /\ Remembered(j)
      OBVIOUS
    <3> QED
      BY <2>2, <3>1, <3>2 DEF TurnTaking, Remembered, Known
  <2> QED
    BY <2>1, <2>2
<1>4. ASSUME NEW c \in Conns
      PROVE  Entries(c)'
  <2>1. Entries(c) /\ responses[c] \subseteq Ids /\ streams[c] \subseteq Ids
    BY DEF TypeOK
  <2>2. ASSUME NEW j \in responses[c]
        PROVE  /\ owner'[j] = c /\ pc'[j] # "none"
               /\ rState'[j] = "failed" => pc'[j] \in {"done", "null"} /\ ~InFlight(j)'
    <3>1. CASE j = i
      BY <2>1, <3>1 DEF Entries
    <3>2. CASE j # i
      <4>1. InFlight(j)' => InFlight(j)
        BY <2>1, <3>2 DEF InFlight, InLoop
      <4> QED
        BY <2>1, <3>2, <4>1 DEF Entries
    <3> QED
      BY <3>1, <3>2
  <2>3. ASSUME NEW j \in streams[c]
        PROVE  owner'[j] = c /\ pc'[j] \in Streaming
    BY <2>1 DEF Entries
  <2> QED
    BY <2>2, <2>3 DEF Entries
<1> QED
  BY <1>1, <1>2, <1>3, <1>4
\* Without a wakeup the pipe stays as it is.
LEMMA SamePipe ==
  ASSUME WakeupInv, pipe' = pipe
  PROVE  Distinct' /\ \A j : InPipe(j)' <=> InPipe(j)
  BY DEF WakeupInv, OneWakeup, Distinct, InPipe

\* What the invariant says of one request.
LEMMA OfRequest ==
  ASSUME TypeOK, WakeupInv, NEW i \in Ids
  PROVE  /\ TurnTaking(i) /\ Remembered(i) /\ Distinct
         /\ owner[i] \in Conns /\ Entries(owner[i])
         /\ pc[i] \in {"none"} \union Opening \union Turn => ~InPipe(i) /\ ~InLoop(i)
  BY DEF TypeOK, WakeupInv, OneWakeup, Distinct, TurnTaking, InFlight

\* async_response::send keeps the invariant: the response is pending, hence in
\* m_pending_responses, when it wakes the loop.
LEMMA SendInv ==
  ASSUME TypeOK, WakeupInv, NEW i \in Ids, UNCHANGED <<owner, ord, endpointVars>>,
         SendOpen(i) \/ SendWake(i) \/ SendMark(i)
  PROVE  WakeupInv'
<1> USE OfRequest DEF TypeOK, Goto, Opening, Turn, Streaming, endpointVars, mongooseVars,
                      streamVars
<1>1. CASE SendOpen(i)
  <2>1. pc[i] = "begin" /\ pc'[i] \in {"done", "send_wake"}
        /\ \A j \in Ids : j # i => pc'[j] = pc[j]
    BY <1>1 DEF SendOpen
  <2>2. rState'[i] \in {rState[i], "failed"} /\ (rState'[i] = "failed" => pc'[i] = "done")
        /\ \A j \in Ids : j # i => rState'[j] = rState[j]
    BY <1>1, <2>1 DEF SendOpen, Entries, Remembered
  <2>3. UNCHANGED <<pipe, phase, sState, loop>>
    BY <1>1 DEF SendOpen
  <2>4. ~InFlight(i) /\ ~InFlight(i)' /\ ~InPipe(i)'
    BY <2>1, <2>3, SamePipe DEF InFlight, InLoop
  <2>5. TurnTaking(i)' /\ Remembered(i)'
    BY <2>1, <2>2, <2>3, <2>4 DEF TurnTaking, Remembered, Known
  <2>6. i \notin streams[owner[i]]
    BY <2>1 DEF Entries
  <2> QED
    BY <2>1, <2>2, <2>3, <2>4, <2>5, <2>6, SamePipe, WorkerStep
<1>2. CASE SendWake(i)
  <2>1. pc[i] = "send_wake" /\ \A j \in Ids : j # i => pc'[j] = pc[j]
    BY <1>2 DEF SendWake
  <2>2. UNCHANGED <<phase, sState, loop>>
    BY <1>2 DEF SendWake
  <2>3. PICK ok \in BOOLEAN :
           /\ MgWakeup(i, ok)
           /\ pc'[i] = IF ok THEN "send_mark" ELSE "done"
           /\ ok => rState' = rState
           /\ ~ok => rState' = [rState EXCEPT ![i] = "failed"]
    BY <1>2 DEF SendWake
  <2>4. /\ Distinct'
        /\ \A j \in Ids : j # i /\ InPipe(j)' => InPipe(j)
        /\ ~ok => ~InPipe(i)'
    BY <2>1, <2>3, PushWakeup
  <2>5. ~InLoop(i) /\ ~InLoop(i)'
    BY <2>1, <2>2 DEF InLoop
  <2>6. rState[i] = "failed" => i \notin responses[owner[i]]
    BY <2>1 DEF Entries
  <2>7. sState[i] = "start" /\ rState[i] # "streaming"
    BY <2>1 DEF TurnTaking
  <2>8. TurnTaking(i)'
    BY <2>1, <2>2, <2>3, <2>4, <2>5, <2>7 DEF TurnTaking, InFlight
  <2>9. Remembered(i)'
    BY <2>1, <2>2, <2>3, <2>7 DEF Remembered, Known
  <2>10. i \notin streams[owner[i]]
    BY <2>1 DEF Entries
  <2> QED
    BY <2>1, <2>2, <2>3, <2>4, <2>5, <2>6, <2>8, <2>9, <2>10, WorkerStep DEF InFlight
<1>3. CASE SendMark(i)
  <2>1. pc[i] = "send_mark" /\ pc'[i] = "done" /\ \A j \in Ids : j # i => pc'[j] = pc[j]
    BY <1>3 DEF SendMark
  <2>2. rState'[i] = "sending" /\ \A j \in Ids : j # i => rState'[j] = rState[j]
    BY <1>3 DEF SendMark
  <2>3. UNCHANGED <<pipe, phase, sState, loop>>
    BY <1>3 DEF SendMark
  <2>4. TurnTaking(i)' /\ Remembered(i)'
    BY <2>1, <2>2, <2>3, SamePipe DEF TurnTaking, Remembered, Known, InFlight, InLoop
  <2>5. i \notin streams[owner[i]]
    BY <2>1 DEF Entries
  <2> QED
    BY <2>1, <2>2, <2>3, <2>4, <2>5, SamePipe, WorkerStep
<1> QED
  BY <1>1, <1>2, <1>3
\* async_response::stream keeps the invariant: like send it wakes the loop from
\* m_pending_responses, and the response is streaming only after the wakeup.
LEMMA StreamInv ==
  ASSUME TypeOK, WakeupInv, NEW i \in Ids, UNCHANGED <<owner, ord, endpointVars>>,
         StreamOpen(i) \/ StreamWake(i) \/ StreamPublish(i) \/ StreamReturn(i)
  PROVE  WakeupInv'
<1> USE OfRequest DEF TypeOK, Goto, Opening, Turn, Streaming, endpointVars, mongooseVars,
                      streamVars, responseVars
<1>1. CASE StreamOpen(i)
  <2>1. pc[i] = "begin" /\ pc'[i] \in {"null", "stream_wake"}
        /\ \A j \in Ids : j # i => pc'[j] = pc[j]
    BY <1>1 DEF StreamOpen
  <2>2. rState'[i] \in {rState[i], "failed"} /\ (rState'[i] = "failed" => pc'[i] = "null")
        /\ \A j \in Ids : j # i => rState'[j] = rState[j]
    BY <1>1, <2>1 DEF StreamOpen
  <2>3. sState[i] = "start" /\ sState'[i] = "start"
        /\ \A j \in Ids : j # i => sState'[j] = sState[j]
    BY <1>1, <2>1 DEF StreamOpen, TurnTaking
  <2>4. UNCHANGED <<pipe, phase, loop>>
    BY <1>1 DEF StreamOpen
  <2>5. ~InFlight(i) /\ ~InFlight(i)' /\ ~InPipe(i)'
    BY <2>1, <2>4, SamePipe DEF InFlight, InLoop
  <2>6. TurnTaking(i)' /\ Remembered(i)'
    BY <2>1, <2>2, <2>3, <2>4, <2>5 DEF TurnTaking, Remembered, Known
  <2>7. i \notin streams[owner[i]]
    BY <2>1 DEF Entries
  <2> QED
    BY <2>1, <2>2, <2>3, <2>4, <2>5, <2>6, <2>7, SamePipe, WorkerStep
<1>2. CASE StreamWake(i)
  <2>1. pc[i] = "stream_wake" /\ \A j \in Ids : j # i => pc'[j] = pc[j]
    BY <1>2 DEF StreamWake
  <2>2. UNCHANGED <<phase, sState, loop>>
    BY <1>2 DEF StreamWake
  <2>3. PICK ok \in BOOLEAN :
           /\ MgWakeup(i, ok)
           /\ pc'[i] = IF ok THEN "publish" ELSE "null"
           /\ ok => rState' = rState
           /\ ~ok => rState' = [rState EXCEPT ![i] = "failed"]
    BY <1>2 DEF StreamWake
  <2>4. /\ Distinct'
        /\ \A j \in Ids : j # i /\ InPipe(j)' => InPipe(j)
        /\ ~ok => ~InPipe(i)'
    BY <2>1, <2>3, PushWakeup
  <2>5. ~InLoop(i) /\ ~InLoop(i)'
    BY <2>1, <2>2 DEF InLoop
  <2>6. rState[i] = "failed" => i \notin responses[owner[i]]
    BY <2>1 DEF Entries
  <2>7. sState[i] = "start" /\ rState[i] # "streaming"
    BY <2>1 DEF TurnTaking
  <2>8. TurnTaking(i)'
    BY <2>1, <2>2, <2>3, <2>4, <2>5, <2>7 DEF TurnTaking, InFlight
  <2>9. Remembered(i)'
    BY <2>1, <2>2, <2>3, <2>7 DEF Remembered, Known
  <2>10. i \notin streams[owner[i]]
    BY <2>1 DEF Entries
  <2> QED
    BY <2>1, <2>2, <2>3, <2>4, <2>5, <2>6, <2>8, <2>9, <2>10, WorkerStep DEF InFlight
<1>3. CASE StreamPublish(i)
  <2>1. pc[i] = "publish" /\ pc'[i] = "return" /\ \A j \in Ids : j # i => pc'[j] = pc[j]
    BY <1>3 DEF StreamPublish
  <2>2. rState'[i] = "streaming" /\ \A j \in Ids : j # i => rState'[j] = rState[j]
    BY <1>3 DEF StreamPublish
  <2>3. UNCHANGED <<pipe, phase, sState, loop>>
    BY <1>3 DEF StreamPublish
  <2>4. TurnTaking(i)' /\ Remembered(i)'
    BY <2>1, <2>2, <2>3, SamePipe DEF TurnTaking, Remembered, Known, InFlight, InLoop
  <2> QED
    BY <2>1, <2>2, <2>3, <2>4, SamePipe, WorkerStep
<1>4. CASE StreamReturn(i)
  <2>1. pc[i] = "return" /\ pc'[i] \in {"wait", "null"}
        /\ \A j \in Ids : j # i => pc'[j] = pc[j]
    BY <1>4 DEF StreamReturn
  <2>2. UNCHANGED <<pipe, phase, sState, rState, loop>>
    BY <1>4 DEF StreamReturn
  <2>3. TurnTaking(i)' /\ Remembered(i)'
    BY <2>1, <2>2, SamePipe DEF TurnTaking, Remembered, Known, InFlight, InLoop
  <2>4. rState[i] = "failed" => i \notin responses[owner[i]]
    BY <2>1 DEF Entries
  <2> QED
    BY <2>1, <2>2, <2>3, <2>4, SamePipe, WorkerStep
<1> QED
  BY <1>1, <1>2, <1>3, <1>4

\* async_stream and its producer keep the invariant: the producer has a turn
\* only while its stream is in m_pending_streams or its connection is closed.
LEMMA ProducerInv ==
  ASSUME TypeOK, WakeupInv, NEW i \in Ids, Producer(i),
         UNCHANGED <<owner, ord, responseVars, endpointVars>>
  PROVE  WakeupInv'
<1> USE OfRequest DEF TypeOK, Goto, Opening, Turn, Streaming, endpointVars, mongooseVars,
                      streamVars, responseVars
<1>1. pc[i] \in {"wait", "ready", "data_wake", "close_wake"}
      /\ \A j \in Ids : j # i => pc'[j] = pc[j]
  BY DEF Producer, WaitReturn, WaitPark, SendChunk, CloseStream, WakeStream
<1>2. rState[i] = "failed" => i \notin responses[owner[i]]
  BY <1>1 DEF Entries
<1>3. UNCHANGED <<phase, loop>>
  BY DEF Producer, WaitReturn, WaitPark, SendChunk, CloseStream, WakeStream
<1>4. CASE WaitReturn(i) \/ WaitPark(i)
  <2>1. pc'[i] \in {"ready", "exit", "parked"} /\ (pc'[i] = "ready" => sState[i] = "empty")
    BY <1>4 DEF WaitReturn, WaitPark
  <2>2. UNCHANGED <<pipe, sState>>
    BY <1>4 DEF WaitReturn, WaitPark
  <2>3. TurnTaking(i)' /\ Remembered(i)'
    BY <1>1, <1>3, <1>4, <2>1, <2>2, SamePipe
       DEF TurnTaking, Remembered, Known, InFlight, InLoop
  <2> QED
    BY <1>1, <1>2, <1>3, <2>1, <2>2, <2>3, SamePipe, WorkerStep
<1>5. CASE SendChunk(i) \/ CloseStream(i)
  <2>1. pc[i] = "ready" /\ pc'[i] \in {"data_wake", "close_wake"}
    BY <1>5 DEF SendChunk, CloseStream
  <2>2. sState'[i] \in {"has_data", "close"} /\ \A j \in Ids : j # i => sState'[j] = sState[j]
    BY <1>5 DEF SendChunk, CloseStream
  <2>3. pipe' = pipe
    BY <1>5 DEF SendChunk, CloseStream
  <2>4. TurnTaking(i)' /\ Remembered(i)'
    BY <1>1, <1>3, <2>1, <2>2, <2>3, SamePipe
       DEF TurnTaking, Remembered, Known, InFlight, InLoop
  <2> QED
    BY <1>1, <1>2, <1>3, <2>1, <2>2, <2>3, <2>4, SamePipe, WorkerStep
<1>6. CASE WakeStream(i)
  <2>1. pc[i] \in {"data_wake", "close_wake"} /\ pc'[i] \in {"wait", "exit"}
    BY <1>6 DEF WakeStream
  <2>2. sState'[i] \in {sState[i], "failed"} /\ \A j \in Ids : j # i => sState'[j] = sState[j]
    BY <1>6 DEF WakeStream
  <2>3. sState[i] \in {"has_data", "close", "failed"}
    BY <2>1 DEF TurnTaking
  <2>4. /\ Distinct'
        /\ \A j \in Ids : j # i /\ InPipe(j)' => InPipe(j)
    BY <1>6, <2>1, PushWakeup, SamePipe DEF WakeStream
  <2>5. TurnTaking(i)' /\ Remembered(i)'
    BY <1>1, <1>3, <2>1, <2>2, <2>3 DEF TurnTaking, Remembered, Known
  <2> QED
    BY <1>1, <1>2, <1>3, <2>1, <2>2, <2>4, <2>5, WorkerStep
<1> QED
  BY <1>4, <1>5, <1>6 DEF Producer
\* A step that changes none of the variables WakeupInv is about.
LEMMA Untouched ==
  ASSUME WakeupInv,
         UNCHANGED <<phase, pipe, owner, sState, pc, rState, counter, responses, streams, loop>>
  PROVE  WakeupInv'
  BY DEF WakeupInv, OneWakeup, LoopHasTarget, TurnTaking, Remembered, Entries, Known,
         InFlight, InPipe, InLoop

\* A new connection has no request yet, and a new request no wakeup.
LEMMA RequestInv ==
  ASSUME TypeOK, WakeupInv, NEW c \in Conns, Accept(c) \/ HttpMessage(c)
  PROVE  WakeupInv'
<1> USE DEF TypeOK, streamVars, workerVars, responseVars
<1>1. CASE Accept(c)
  <2>1. UNCHANGED <<pipe, owner, sState, pc, rState, counter, responses, streams, loop>>
        /\ phase' = [phase EXCEPT ![c] = "open"] /\ phase[c] = "idle"
    BY <1>1 DEF Accept
  <2>2. OneWakeup' /\ LoopHasTarget'
    BY <2>1, SamePipe DEF WakeupInv, OneWakeup, LoopHasTarget, Distinct
  <2>3. ASSUME NEW j \in Ids
        PROVE  TurnTaking(j)' /\ Remembered(j)'
    <3>1. TurnTaking(j) /\ Remembered(j)
      BY DEF WakeupInv
    <3>2. TurnTaking(j)'
      BY <2>1, <3>1, SamePipe DEF TurnTaking, InFlight, InLoop
    <3>3. CASE owner[j] # c
      BY <2>1, <3>1, <3>2, <3>3, SamePipe DEF Remembered, Known
    <3>4. CASE owner[j] = c
      <4>1. pc[j] = "none" /\ sState[j] = "start" /\ ~InPipe(j)
        BY <2>1, <3>1, <3>4 DEF Remembered, TurnTaking, InFlight
      <4> QED
        BY <2>1, <3>1, <3>2, <4>1, SamePipe DEF Remembered, Opening, Turn
    <3> QED
      BY <3>3, <3>4
  <2>4. \A d \in Conns : Entries(d)'
    BY <2>1, SamePipe DEF WakeupInv, Entries, InFlight, InLoop
  <2> QED
    BY <2>2, <2>3, <2>4 DEF WakeupInv
<1>2. CASE ServeReply(c) \/ ServeStream(c) \/ ServeSilent(c)
  BY <1>2, Untouched DEF ServeReply, ServeStream, ServeSilent, Dispatch
<1>3. CASE ServeAsync(c)
  <2>1. /\ counter \in Ids /\ counter \in Nat /\ counter' = counter + 1
        /\ phase[c] = "open" /\ loop = Idle
        /\ responses' = [responses EXCEPT ![c] = @ \union {counter}]
        /\ owner' = [owner EXCEPT ![counter] = c]
        /\ pc' = [pc EXCEPT ![counter] = "begin"]
        /\ UNCHANGED <<phase, pipe, sState, rState, streams, loop>>
    BY <1>3, IdsType DEF ServeAsync, Dispatch
  <2>2. pc[counter] = "none" /\ sState[counter] = "start" /\ rState[counter] = "pending"
        /\ ~InFlight(counter)
    BY <2>1 DEF WakeupInv, Remembered, TurnTaking
  <2>3. \A j : (InPipe(j)' <=> InPipe(j)) /\ (InFlight(j)' <=> InFlight(j))
    BY <2>1, SamePipe DEF InFlight, InLoop
  <2>4. OneWakeup' /\ LoopHasTarget'
    BY <2>1, SamePipe DEF WakeupInv, OneWakeup, LoopHasTarget, Distinct, Idle
  <2>5. ASSUME NEW j \in Ids
        PROVE  TurnTaking(j)' /\ Remembered(j)'
    <3>1. TurnTaking(j) /\ Remembered(j) /\ owner[j] \in Conns /\ j \in Nat
      BY IdsType DEF WakeupInv
    <3>2. CASE j = counter
      <4>1. TurnTaking(j)'
        BY <2>1, <2>2, <2>3, <3>2 DEF TurnTaking, Opening
      <4>2. Remembered(j)'
        BY <2>1, <2>2, <2>3, <3>2 DEF Remembered, InFlight, Turn
      <4> QED
        BY <4>1, <4>2
    <3>3. CASE j # counter
      <4>1. TurnTaking(j)'
        BY <2>1, <2>3, <3>1, <3>3 DEF TurnTaking
      <4>2. owner'[j] = owner[j] /\ pc'[j] = pc[j]
            /\ (j \in responses'[owner[j]] <=> j \in responses[owner[j]])
        BY <2>1, <3>1, <3>3
      <4>3. Remembered(j)'
        BY <2>1, <2>3, <3>1, <3>3, <4>2 DEF Remembered, Known
      <4> QED
        BY <4>1, <4>3
    <3> QED
      BY <3>2, <3>3
  <2>6. ASSUME NEW d \in Conns
        PROVE  Entries(d)'
    <3>1. Entries(d)
      BY DEF WakeupInv
    <3>2. counter \notin responses[d] /\ counter \notin streams[d]
      BY <2>2, <3>1 DEF Entries, Streaming, Turn
    <3>3. \A j \in responses[d] \union streams[d] : owner'[j] = owner[j] /\ pc'[j] = pc[j]
      BY <2>1, <3>2
    <3>4. \A j \in responses'[d] : j \in responses[d] \/ (j = counter /\ d = c)
      BY <2>1
    <3> QED
      BY <2>1, <2>2, <2>3, <3>1, <3>3, <3>4 DEF Entries
  <2> QED
    BY <2>4, <2>5, <2>6 DEF WakeupInv
<1> QED
  BY <1>1, <1>2, <1>3 DEF HttpMessage
\* Delivering a wakeup keeps the invariant: the request goes from the pipe to
\* the loop, and stays in one of the maps.
LEMMA WakeupDeliveryInv == TypeOK /\ WakeupInv /\ HandleWakeup => WakeupInv'
<1> SUFFICES ASSUME TypeOK, WakeupInv, HandleWakeup
             PROVE  WakeupInv'
  OBVIOUS
<1> USE DEF TypeOK, streamVars, workerVars
<1>1. PICK i \in Ids : WakeUnknown(i) \/ WakeResponse(i) \/ WakeStreamOf(i)
  BY DEF HandleWakeup
<1> DEFINE c == owner[i]
<1>2. TakeWakeup(i)
  BY <1>1 DEF WakeUnknown, WakeResponse, WakeStreamOf
<1>3. UNCHANGED <<phase, owner, sState, pc, rState, counter>> /\ loop = Idle
  BY <1>2 DEF TakeWakeup
<1>4. /\ Distinct'
      /\ InPipe(i) /\ ~InPipe(i)'
      /\ \A j \in Ids : InPipe(j)' => InPipe(j)
  BY <1>2, PopWakeup DEF WakeupInv, OneWakeup, Distinct
<1>5. /\ loop' = Idle \/ (loop'.op \in {"reply", "stream"} /\ loop'.id = i)
      /\ loop'.op = "reply" => i \in responses'[c]
      /\ loop'.op = "stream" => i \in streams'[c]
  <2>1. CASE WakeUnknown(i)
    BY <1>3, <2>1 DEF WakeUnknown, Idle
  <2>2. CASE WakeResponse(i)
    BY <2>2 DEF WakeResponse
  <2>3. CASE WakeStreamOf(i)
    BY <2>3 DEF WakeStreamOf, Idle
  <2> QED
    BY <1>1, <2>1, <2>2, <2>3
<1>6. ASSUME NEW d \in Conns
      PROVE  /\ responses'[d] \in {responses[d], responses[d] \ {i}}
             /\ \/ streams'[d] = streams[d]
                \/ /\ streams'[d] = streams[d] \union {i} /\ d = c
                   /\ i \in streams[d] \/ rState[i] = "streaming"
  <2>1. CASE WakeUnknown(i) \/ WakeResponse(i)
    BY <2>1 DEF WakeUnknown, WakeResponse
  <2>2. CASE WakeStreamOf(i)
    <3>1. /\ streams' = [streams EXCEPT ![c] = @ \union {i}]
          /\ i \notin streams[c] => rState[i] = "streaming"
      BY <2>2 DEF WakeStreamOf
    <3>2. responses' = responses \/ responses' = [responses EXCEPT ![c] = @ \ {i}]
      BY <2>2 DEF WakeStreamOf
    <3> QED
      BY <3>1, <3>2
  <2> QED
    BY <1>1, <2>1, <2>2
<1>7. pc[i] \notin {"none"} \union Opening \union Turn /\ sState[i] \notin {"flush", "empty"}
  BY <1>4 DEF WakeupInv, TurnTaking, InFlight
<1>8. \A j \in Ids : InFlight(j)' => InFlight(j)
  BY <1>3, <1>4, <1>5 DEF InFlight, InLoop, Idle
<1>9. OneWakeup'
  BY <1>3, <1>4, <1>5 DEF OneWakeup, Distinct, Idle
<1>10. LoopHasTarget'
  BY <1>3, <1>5 DEF LoopHasTarget, Idle
<1>11. ASSUME NEW j \in Ids
       PROVE  TurnTaking(j)' /\ Remembered(j)'
  <2>1. TurnTaking(j) /\ Remembered(j)
    BY DEF WakeupInv
  <2>2. TurnTaking(j)'
    BY <1>3, <1>8, <2>1 DEF TurnTaking
  <2>3. CASE j = i
    BY <1>3, <1>4, <1>7, <2>1, <2>2, <2>3 DEF Remembered
  <2>4. CASE j # i
    <3>1. owner[j] \in Conns
      OBVIOUS
    <3>2. ASSUME NEW d \in Conns
          PROVE  /\ j \in responses'[d] <=> j \in responses[d]
                 /\ j \in streams'[d] <=> j \in streams[d]
      <4>1. j \in responses'[d] <=> j \in responses[d]
        BY <1>6, <2>4
      <4>2. CASE streams'[d] = streams[d] \union {i}
        BY <2>4, <4>1, <4>2
      <4>3. CASE streams'[d] = streams[d]
        BY <4>1, <4>3
      <4>4. streams'[d] = streams[d] \/ streams'[d] = streams[d] \union {i}
        BY <1>6
      <4> QED
        BY <4>2, <4>3, <4>4
    <3> QED
      BY <1>3, <1>4, <2>1, <2>2, <3>1, <3>2 DEF Remembered, Known
  <2> QED
    BY <2>3, <2>4
<1>12. ASSUME NEW d \in Conns
       PROVE  Entries(d)'
  <2>1. Entries(d) /\ (rState[i] = "streaming" => pc[i] \in Streaming)
    BY DEF WakeupInv, TurnTaking
  <2>2. responses'[d] \subseteq responses[d] /\ responses[d] \subseteq Ids
    BY <1>6
  <2>3. \A j \in streams'[d] : j \in streams[d] \/ (j = i /\ d = c /\ pc[i] \in Streaming)
    <3>1. CASE streams'[d] = streams[d]
      BY <3>1
    <3>2. CASE streams'[d] = streams[d] \union {i} /\ d = c /\ i \in streams[d]
      BY <3>2
    <3>3. CASE streams'[d] = streams[d] \union {i} /\ d = c /\ rState[i] = "streaming"
      BY <2>1, <3>3
    <3> QED
      BY <1>6, <3>1, <3>2, <3>3
  <2> QED
    BY <1>3, <1>8, <2>1, <2>2, <2>3 DEF Entries
<1> QED
  BY <1>9, <1>10, <1>11, <1>12 DEF WakeupInv
\* Completing a handler keeps the invariant: the request it was serving, and
\* may now forget, has no other wakeup in flight.
LEMMA FinishInv == TypeOK /\ WakeupInv /\ Finish => WakeupInv'
<1> SUFFICES ASSUME TypeOK, WakeupInv, Finish
             PROVE  WakeupInv'
  OBVIOUS
<1>0. PICK i \in Ids : i = loop.id
  BY DEF TypeOK, Loop
<1> DEFINE c == owner[i]
<1>1. /\ c \in Conns /\ loop.op # "idle" /\ loop' = Idle
      /\ UNCHANGED <<phase, pipe, owner, counter>>
  BY DEF Finish, FinishReply, FinishData, FinishClose, TypeOK, workerVars
<1>2. /\ ~InPipe(i) /\ InFlight(i)
      /\ \A j : InFlight(j)' => InFlight(j) /\ j # i
      /\ \A j : InPipe(j)' => InPipe(j) /\ j # i
  BY <1>0, <1>1, SamePipe DEF WakeupInv, OneWakeup, InFlight, InLoop, Idle
<1>3. /\ pc[i] \notin {"none"} \union Opening \union Turn
      /\ sState[i] \notin {"flush", "empty"}
  BY <1>1, <1>2 DEF WakeupInv, TurnTaking
<1>4. OneWakeup' /\ LoopHasTarget'
  BY <1>1, SamePipe DEF OneWakeup, LoopHasTarget, Distinct, Idle
<1>5. /\ \A j \in Ids : pc'[j] = pc[j] \/ (j = i /\ pc[j] = "parked" /\ pc'[j] = "wait")
      /\ \A j \in Ids : j # i => sState'[j] = sState[j] /\ rState'[j] = rState[j]
  <2>1. CASE FinishReply
    BY <1>0, <2>1 DEF FinishReply, TypeOK, workerVars, streamVars
  <2>2. CASE FinishData
    BY <1>0, <2>2 DEF FinishData, Notify, TypeOK, responseVars
  <2>3. CASE FinishClose
    BY <1>0, <2>3 DEF FinishClose, Notify, TypeOK, responseVars
  <2> QED
    BY <2>1, <2>2, <2>3 DEF Finish
<1>6. /\ sState'[i] \in {sState[i], "completed"} \/ (sState'[i] = "flush" /\ i \in streams'[c])
      /\ rState'[i] \in {rState[i], "completed"}
  <2>1. CASE FinishReply
    BY <1>0, <2>1 DEF FinishReply, TypeOK, streamVars
  <2>2. CASE FinishData
    BY <1>0, <2>2 DEF FinishData, TypeOK, responseVars, WakeupInv, LoopHasTarget
  <2>3. CASE FinishClose
    BY <1>0, <2>3 DEF FinishClose, TypeOK, responseVars
  <2> QED
    BY <2>1, <2>2, <2>3 DEF Finish
<1>7. ASSUME NEW d \in Conns
      PROVE  /\ responses'[d] \in {responses[d], responses[d] \ {i}}
             /\ streams'[d] \in {streams[d], streams[d] \ {i}}
  <2>1. CASE FinishReply
    BY <1>0, <2>1 DEF FinishReply, TypeOK
  <2>2. CASE FinishData
    BY <1>0, <2>2 DEF FinishData
  <2>3. CASE FinishClose
    BY <1>0, <2>3 DEF FinishClose, TypeOK
  <2> QED
    BY <2>1, <2>2, <2>3 DEF Finish
<1>8. ASSUME NEW j \in Ids
      PROVE  TurnTaking(j)' /\ Remembered(j)'
  <2>1. TurnTaking(j) /\ Remembered(j) /\ owner[j] \in Conns
    BY DEF WakeupInv, TypeOK
  <2>2. CASE j = i
    <3>1. pc'[i] \notin {"none"} \union Opening \union Turn
      BY <1>1, <1>3, <1>5 DEF Opening, Turn
    <3>2. TurnTaking(i)'
      BY <1>1, <1>2, <1>5, <1>6, <2>1, <2>2, <3>1 DEF TurnTaking, Turn, Streaming
    <3>3. Remembered(i)'
      BY <1>1, <1>2, <1>3, <1>5, <1>6, <2>1, <2>2, <3>1 DEF Remembered
    <3> QED
      BY <2>2, <3>2, <3>3
  <2>3. CASE j # i
    <3>1. TurnTaking(j)'
      BY <1>2, <1>5, <2>1, <2>3 DEF TurnTaking
    <3>2. /\ j \in responses'[owner[j]] <=> j \in responses[owner[j]]
          /\ j \in streams'[owner[j]] <=> j \in streams[owner[j]]
      BY <1>7, <2>1, <2>3
    <3>3. Remembered(j)'
      BY <1>1, <1>2, <1>5, <2>1, <2>3, <3>2 DEF Remembered, Known
    <3> QED
      BY <3>1, <3>3
  <2> QED
    BY <2>2, <2>3
<1>9. ASSUME NEW d \in Conns
      PROVE  Entries(d)'
  <2>1. Entries(d) /\ responses[d] \subseteq Ids /\ streams[d] \subseteq Ids
    BY DEF WakeupInv, TypeOK
  <2>2. \A j \in Ids : rState'[j] = "failed" => rState[j] = "failed"
    BY <1>5, <1>6
  <2>3. \A j \in Ids : /\ pc[j] # "none" => pc'[j] # "none"
                       /\ pc[j] \in {"done", "null"} => pc'[j] = pc[j]
                       /\ pc[j] \in Streaming => pc'[j] \in Streaming
    BY <1>5 DEF Streaming
  <2> QED
    BY <1>1, <1>2, <1>7, <2>1, <2>2, <2>3 DEF Entries
<1> QED
  BY <1>4, <1>8, <1>9 DEF WakeupInv
\* handle_poll keeps the invariant: a failed response has no wakeup in flight.
LEMMA PollInv ==
  ASSUME TypeOK, WakeupInv, NEW c \in Conns, HandlePoll(c)
  PROVE  WakeupInv'
<1> DEFINE failed == {i \in responses[c] : rState[i] = "failed"}
<1>1. /\ responses' = [responses EXCEPT ![c] = @ \ failed]
      /\ UNCHANGED <<phase, pipe, owner, sState, pc, rState, counter, streams, loop>>
      /\ loop = Idle
  BY DEF HandlePoll, streamVars, workerVars, responseVars
<1>2. \A i \in failed : i \in Ids /\ owner[i] = c /\ ~InFlight(i) /\ pc[i] \in {"done", "null"}
  BY DEF TypeOK, WakeupInv, Entries
<1>3. \A j : (InPipe(j)' <=> InPipe(j)) /\ (InFlight(j)' <=> InFlight(j))
  BY <1>1, SamePipe DEF InFlight, InLoop
<1>4. OneWakeup' /\ LoopHasTarget'
  BY <1>1, SamePipe DEF WakeupInv, OneWakeup, LoopHasTarget, Distinct, Idle
<1>5. ASSUME NEW j \in Ids
      PROVE  TurnTaking(j)' /\ Remembered(j)'
  <2>1. TurnTaking(j) /\ Remembered(j) /\ owner[j] \in Conns
    BY DEF WakeupInv, TypeOK
  <2>2. TurnTaking(j)'
    BY <1>1, <1>3, <2>1 DEF TurnTaking
  <2>3. CASE j \in failed
    <3>1. pc[j] \notin {"none"} \union Opening \union Turn /\ ~InPipe(j)'
      BY <1>2, <1>3, <2>3 DEF Opening, Turn, InFlight
    <3> QED
      BY <1>1, <2>1, <2>2, <3>1 DEF Remembered
  <2>4. CASE j \notin failed
    <3>1. j \in responses'[owner[j]] <=> j \in responses[owner[j]]
      BY <1>1, <2>1, <2>4 DEF TypeOK
    <3> QED
      BY <1>1, <1>3, <2>1, <2>2, <3>1 DEF Remembered, Known
  <2> QED
    BY <2>2, <2>3, <2>4
<1>6. ASSUME NEW d \in Conns
      PROVE  Entries(d)'
  <2>1. responses'[d] \subseteq responses[d]
    BY <1>1 DEF TypeOK
  <2> QED
    BY <1>1, <1>3, <2>1 DEF WakeupInv, Entries
<1> QED
  BY <1>4, <1>5, <1>6 DEF WakeupInv

\* handle_write keeps the invariant: only a flushed stream becomes empty.
LEMMA WriteInv ==
  ASSUME TypeOK, WakeupInv, NEW c \in Conns, HandleWrite(c)
  PROVE  WakeupInv'
<1>1. /\ \A j \in Ids : sState'[j] = sState[j] \/ (sState[j] = "flush" /\ sState'[j] = "empty")
      /\ \A j \in Ids : pc'[j] = pc[j] \/ (pc[j] = "parked" /\ pc'[j] = "wait")
  BY DEF HandleWrite, PumpAsyncStreams, Notify
<1>2. UNCHANGED <<phase, pipe, owner, rState, counter, responses, streams, loop>>
  BY DEF HandleWrite, responseVars
<1>3. \A j : (InPipe(j)' <=> InPipe(j)) /\ (InFlight(j)' <=> InFlight(j))
  BY <1>2, SamePipe DEF InFlight, InLoop
<1>4. OneWakeup' /\ LoopHasTarget'
  BY <1>2, SamePipe DEF WakeupInv, OneWakeup, LoopHasTarget, Distinct
<1>5. ASSUME NEW j \in Ids
      PROVE  TurnTaking(j)' /\ Remembered(j)'
  <2>1. TurnTaking(j) /\ Remembered(j)
    BY DEF WakeupInv
  <2>2. TurnTaking(j)'
    BY <1>1, <1>2, <1>3, <2>1 DEF TurnTaking, Opening, Turn, Streaming
  <2>3. Remembered(j)'
    BY <1>1, <1>2, <1>3, <2>1 DEF Remembered, Known, Opening, Turn
  <2> QED
    BY <2>2, <2>3
<1>6. ASSUME NEW d \in Conns
      PROVE  Entries(d)'
  <2>1. Entries(d) /\ responses[d] \subseteq Ids /\ streams[d] \subseteq Ids
    BY DEF WakeupInv, TypeOK
  <2>2. \A j \in Ids : /\ pc[j] # "none" => pc'[j] # "none"
                       /\ pc[j] \in {"done", "null"} => pc'[j] = pc[j]
                       /\ pc[j] \in Streaming => pc'[j] \in Streaming
    BY <1>1 DEF Streaming
  <2> QED
    BY <1>2, <1>3, <2>1, <2>2 DEF Entries
<1> QED
  BY <1>4, <1>5, <1>6 DEF WakeupInv

\* handle_close keeps the invariant: it forgets the requests of a connection to
\* which no wakeup is delivered any more.
LEMMA CloseInv ==
  ASSUME TypeOK, WakeupInv, NEW c \in Conns, HandleClose(c)
  PROVE  WakeupInv'
<1>1. /\ loop = Idle
      /\ phase' = [phase EXCEPT ![c] = "closed"]
      /\ responses' = [responses EXCEPT ![c] = {}]
      /\ streams' = [streams EXCEPT ![c] = {}]
      /\ UNCHANGED <<pipe, owner, counter, loop>>
  BY DEF HandleClose
<1>2. \A j \in Ids :
         /\ sState'[j] = IF j \in streams[c] THEN "failed" ELSE sState[j]
         /\ rState'[j] = IF j \in responses[c] THEN "failed" ELSE rState[j]
         /\ pc'[j] = pc[j] \/ (pc[j] = "parked" /\ pc'[j] = "wait")
  BY DEF HandleClose, Notify
<1>3. \A j : (InPipe(j)' <=> InPipe(j)) /\ (InFlight(j)' <=> InFlight(j))
  BY <1>1, SamePipe DEF InFlight, InLoop
<1>4. OneWakeup' /\ LoopHasTarget'
  BY <1>1, SamePipe DEF WakeupInv, OneWakeup, LoopHasTarget, Distinct, Idle
<1>5. ASSUME NEW j \in Ids
      PROVE  TurnTaking(j)' /\ Remembered(j)'
  <2>1. TurnTaking(j) /\ Remembered(j) /\ owner[j] \in Conns
    BY DEF WakeupInv, TypeOK
  <2>2. /\ j \in responses[c] => owner[j] = c /\ pc[j] # "none"
        /\ j \in streams[c] => owner[j] = c /\ pc[j] \in Streaming
    BY DEF WakeupInv, Entries
  <2>3. TurnTaking(j)'
    BY <1>2, <1>3, <2>1, <2>2 DEF TurnTaking, Opening, Turn, Streaming
  <2>4. CASE owner[j] = c
    <3>1. phase'[owner'[j]] = "closed"
      BY <1>1, <2>4 DEF TypeOK
    <3> QED
      BY <1>1, <1>2, <2>1, <2>2, <2>3, <3>1 DEF Remembered
  <2>5. CASE owner[j] # c
    <3>1. /\ phase'[owner[j]] = phase[owner[j]]
          /\ responses'[owner[j]] = responses[owner[j]]
          /\ streams'[owner[j]] = streams[owner[j]]
      BY <1>1, <2>1, <2>5 DEF TypeOK
    <3>2. /\ sState'[j] = sState[j] /\ rState'[j] = rState[j]
      BY <1>2, <2>2, <2>5
    <3>3. \A S \in {{"none"}, Opening, Turn} : pc'[j] \in S <=> pc[j] \in S
      BY <1>2 DEF Opening, Turn
    <3> QED
      BY <1>1, <1>3, <2>1, <2>3, <3>1, <3>2, <3>3 DEF Remembered, Known
  <2> QED
    BY <2>4, <2>5
<1>6. ASSUME NEW d \in Conns
      PROVE  Entries(d)'
  <2>1. CASE d = c
    BY <1>1, <2>1 DEF Entries, TypeOK
  <2>2. CASE d # c
    <3>1. Entries(d) /\ Entries(c) /\ responses[d] \subseteq Ids /\ streams[d] \subseteq Ids
      BY DEF WakeupInv, TypeOK
    <3>2. responses'[d] = responses[d] /\ streams'[d] = streams[d]
      BY <1>1, <2>2 DEF TypeOK
    <3>3. \A j \in responses[d] : rState'[j] = rState[j]
      BY <1>2, <2>2, <3>1 DEF Entries
    <3> QED
      BY <1>1, <1>2, <1>3, <3>1, <3>2, <3>3 DEF Entries, Streaming
  <2> QED
    BY <2>1, <2>2
<1> QED
  BY <1>4, <1>5, <1>6 DEF WakeupInv
\* The shutdown keeps the invariant: it drops every wakeup.
LEMMA StopInv == TypeOK /\ WakeupInv /\ Stop => WakeupInv'
<1> SUFFICES ASSUME TypeOK, WakeupInv, Stop
             PROVE  WakeupInv'
  OBVIOUS
<1>1. /\ pipe' = <<>> /\ loop = Idle
      /\ UNCHANGED <<phase, owner, sState, pc, rState, counter, responses, streams, loop>>
  BY DEF Stop, streamVars, workerVars, responseVars, endpointVars
<1>2. \A j : ~InPipe(j)' /\ ~InFlight(j)'
  BY <1>1 DEF InPipe, InFlight, InLoop, Idle
<1> QED
  BY <1>1, <1>2 DEF WakeupInv, OneWakeup, LoopHasTarget, TurnTaking, Remembered, Entries,
                    Known, Idle

\* WakeupInv holds initially.
LEMMA InitWakeupInv == Init => WakeupInv
<1> SUFFICES ASSUME Init PROVE WakeupInv
  OBVIOUS
<1>1. \A j : ~InPipe(j) /\ ~InFlight(j)
  BY DEF Init, MongooseInit, InPipe, InFlight, InLoop, Idle
<1> QED
  BY <1>1 DEF Init, MongooseInit, WakeupInv, OneWakeup, LoopHasTarget, TurnTaking,
              Remembered, Entries, Idle, Opening, Turn

\* WakeupInv is inductive relative to TypeOK: an invariant of the endpoint.
THEOREM WakeupInvariant == Spec => []WakeupInv
<1>1. TypeOK /\ WakeupInv /\ [Next]_vars => WakeupInv'
  <2> SUFFICES ASSUME TypeOK, WakeupInv, [Next]_vars
               PROVE  WakeupInv'
    OBVIOUS
  <2>1. CASE \E c \in Conns : \/ Accept(c) \/ HttpMessage(c) \/ HandlePoll(c)
                              \/ HandleWrite(c) \/ HandleClose(c)
    BY <2>1, RequestInv, PollInv, WriteInv, CloseInv
  <2>2. CASE HandleWakeup \/ Finish
    BY <2>2, WakeupDeliveryInv, FinishInv
  <2>3. CASE Stop
    BY <2>3, StopInv
  <2>4. CASE Release
    BY <2>4, Untouched DEF Release, streamVars, workerVars, responseVars, endpointVars
  <2>5. CASE \E i \in Ids : Worker(i)
    <3>1. PICK i \in Ids : Worker(i)
      BY <2>5
    <3>2. CASE Producer(i) /\ UNCHANGED responseVars
      BY <3>1, <3>2, ProducerInv DEF Worker
    <3>3. CASE Responder(i)
      BY <3>1, <3>3, SendInv, StreamInv DEF Worker, Responder
    <3> QED
      BY <3>1, <3>2, <3>3 DEF Worker
  <2>6. CASE UNCHANGED vars
    BY <2>6, Untouched DEF vars, mongooseVars, streamVars, workerVars, responseVars,
                           endpointVars
  <2> QED
    BY <2>1, <2>2, <2>3, <2>4, <2>5, <2>6 DEF Next
<1> QED
  BY <1>1, InitWakeupInv, TypeCorrect, PTL DEF Spec

\* No wakeup of a request on an open connection finds the endpoint without an
\* entry for it: the two 500s of handle_wakeup are never sent.
THEOREM WakeupsFindTheirTarget == Spec => []EveryWakeupHasTarget
<1>1. TypeOK /\ WakeupInv => EveryWakeupHasTarget
  <2> SUFFICES ASSUME TypeOK, WakeupInv, NEW k \in DOMAIN pipe, phase[owner[pipe[k]]] = "open"
               PROVE  Known(pipe[k])
    BY DEF EveryWakeupHasTarget
  <2>1. pipe[k] \in Ids /\ InPipe(pipe[k])
    BY DEF TypeOK, InPipe
  <2> QED
    BY <2>1 DEF WakeupInv, Remembered
<1> QED
  BY <1>1, TypeCorrect, WakeupInvariant, PTL

-----------------------------------------------------------------------------
(***************************************************************************)
(* The hand-over of a stream between the event loop and its producer: what *)
(* the loop has loaded stays what is stored, and no notify is missed.      *)
(***************************************************************************)
\* A worker writes a stream's state only while it has the turn to, and it parks
\* only on a state that wait() parks on.
LEMMA WorkerStores ==
  ASSUME TypeOK, NEW i \in Ids, Worker(i)
  PROVE  /\ UNCHANGED loop
         /\ \A j \in Ids : sState'[j] = sState[j] \/ (j = i /\ pc[i] \in Opening \union Turn)
         /\ \A j \in Ids : pc'[j] = pc[j] \/ j = i
         /\ pc'[i] = "ready" => pc[i] = "wait" /\ sState[i] = "empty" /\ sState' = sState
         /\ pc'[i] = "parked" =>
               sState' = sState /\ sState[i] \notin {"empty", "failed", "completed"}
<1> USE DEF Goto, TypeOK, Opening, Turn, streamVars
<1>1. UNCHANGED loop
  BY DEF Worker, endpointVars
<1>2. CASE SendOpen(i) \/ SendWake(i) \/ SendMark(i)
  BY <1>1, <1>2 DEF SendOpen, SendWake, SendMark
<1>3. CASE StreamOpen(i)
  BY <1>1, <1>3 DEF StreamOpen
<1>4. CASE StreamWake(i) \/ StreamPublish(i) \/ StreamReturn(i)
  BY <1>1, <1>4 DEF StreamWake, StreamPublish, StreamReturn
<1>5. CASE WaitReturn(i) \/ WaitPark(i)
  BY <1>1, <1>5 DEF WaitReturn, WaitPark
<1>6. CASE SendChunk(i) \/ CloseStream(i)
  BY <1>1, <1>6 DEF SendChunk, CloseStream
<1>7. CASE WakeStream(i)
  BY <1>1, <1>7 DEF WakeStream
<1> QED
  BY <1>2, <1>3, <1>4, <1>5, <1>6, <1>7 DEF Worker, Responder, Producer

\* While the loop is between its load of m_state and its store, the state is
\* what was loaded and the producer does not have the turn to write m_data.
THEOREM LoadsStayFresh == Spec => []LoadedStateFresh
<1>1. Init => LoadedStateFresh
  BY DEF Init, Idle, LoadedStateFresh
<1>2. TypeOK /\ WakeupInv /\ WakeupInv' /\ LoadedStateFresh /\ [Next]_vars => LoadedStateFresh'
  <2> SUFFICES ASSUME TypeOK, WakeupInv, WakeupInv', LoadedStateFresh, [Next]_vars,
                      loop'.op = "stream"
               PROVE  sState'[loop'.id] = loop'.seen /\ pc'[loop'.id] # "ready"
    BY DEF LoadedStateFresh
  <2>1. CASE \E c \in Conns : \/ Accept(c) \/ HttpMessage(c) \/ HandlePoll(c)
                              \/ HandleWrite(c) \/ HandleClose(c)
    <3>1. loop' = Idle
      BY <2>1 DEF Accept, HttpMessage, ServeReply, ServeStream, ServeSilent, ServeAsync,
                  Dispatch, HandlePoll, HandleWrite, HandleClose
    <3> QED
      BY <3>1 DEF Idle
  <2>2. CASE Finish \/ Stop
    BY <2>2 DEF Finish, FinishReply, FinishData, FinishClose, Stop, endpointVars, Idle
  <2>3. CASE HandleWakeup
    <3>1. PICK i \in Ids : WakeUnknown(i) \/ WakeResponse(i) \/ WakeStreamOf(i)
      BY <2>3 DEF HandleWakeup
    <3>2. TakeWakeup(i) /\ UNCHANGED <<sState, pc>>
      BY <3>1 DEF WakeUnknown, WakeResponse, WakeStreamOf, TakeWakeup, streamVars, workerVars
    <3>3. loop' = [op |-> "stream", id |-> i, seen |-> sState[i]]
      BY <3>1, <3>2 DEF WakeUnknown, WakeResponse, WakeStreamOf, TakeWakeup, Idle
    <3>4. TurnTaking(i)' /\ InLoop(i)'
      BY <3>3 DEF WakeupInv, InLoop
    <3> QED
      BY <3>2, <3>3, <3>4 DEF TurnTaking, InFlight, Turn
  <2>4. CASE \E i \in Ids : Worker(i)
    <3>1. PICK i \in Ids : Worker(i)
      BY <2>4
    <3>2. UNCHANGED loop /\ loop.id \in Ids /\ InLoop(loop.id) /\ TurnTaking(loop.id)
      BY <3>1, WorkerStores DEF TypeOK, Loop, WakeupInv, InLoop
    <3>3. pc[loop.id] \notin Opening \union Turn /\ sState[loop.id] = loop.seen
          /\ sState[loop.id] # "empty"
      BY <3>2 DEF TurnTaking, InFlight, LoadedStateFresh
    <3>4. sState'[loop.id] = sState[loop.id]
      BY <3>1, <3>2, <3>3, WorkerStores
    <3>5. pc'[loop.id] # "ready"
      BY <3>1, <3>2, <3>3, WorkerStores DEF Turn
    <3> QED
      BY <3>2, <3>3, <3>4, <3>5
  <2>5. CASE Release \/ UNCHANGED vars
    BY <2>5 DEF Release, vars, streamVars, workerVars, endpointVars, LoadedStateFresh
  <2> QED
    BY <2>1, <2>2, <2>3, <2>4, <2>5 DEF Next
<1> QED
  BY <1>1, <1>2, TypeCorrect, WakeupInvariant, PTL DEF Spec

\* A thread parked in async_stream::wait() is never parked on a state that
\* wait() returns for: every such store is followed by its notify.
THEOREM NotifyIsNotLost == Spec => []NoLostNotify
<1>1. Init => NoLostNotify
  BY DEF Init, NoLostNotify
<1>2. TypeOK /\ NoLostNotify /\ [Next]_vars => NoLostNotify'
  <2> SUFFICES ASSUME TypeOK, NoLostNotify, [Next]_vars, NEW i \in Ids, pc'[i] = "parked"
               PROVE  sState'[i] \notin {"empty", "failed", "completed"}
    BY DEF NoLostNotify
  <2>1. CASE \E j \in Ids : Worker(j)
    <3>1. PICK j \in Ids : Worker(j)
      BY <2>1
    <3>2. CASE i = j
      BY <3>1, <3>2, WorkerStores
    <3>3. CASE i # j
      BY <3>1, <3>3, WorkerStores DEF NoLostNotify
    <3> QED
      BY <3>2, <3>3
  <2>2. CASE /\ pc'[i] = pc[i] \/ pc'[i] = "begin"
             /\ sState'[i] = sState[i]
    BY <2>2 DEF NoLostNotify
  <2>3. CASE \E c \in Conns : HandleWrite(c) \/ HandleClose(c)
    <3>1. PICK S \in SUBSET Ids : /\ pc' = Notify(S)
                                  /\ \A j \in Ids \ S : sState'[j] = sState[j]
      <4>1. PICK c \in Conns : HandleWrite(c) \/ HandleClose(c)
        BY <2>3
      <4>2. CASE HandleClose(c)
        BY <4>2 DEF HandleClose, TypeOK
      <4>3. CASE HandleWrite(c)
        <5>1. PICK o : LET ready == PumpAsyncStreams(o)
                       IN  /\ sState' = [j \in Ids |-> IF j \in ready THEN "empty" ELSE sState[j]]
                           /\ pc' = Notify(ready)
          BY <4>3 DEF HandleWrite
        <5>2. PumpAsyncStreams(o) \in SUBSET Ids
          BY DEF PumpAsyncStreams, TypeOK
        <5> QED
          BY <5>1, <5>2
      <4> QED
        BY <4>1, <4>2, <4>3
    <3>2. i \notin S /\ pc[i] = "parked"
      BY <3>1 DEF Notify
    <3> QED
      BY <3>1, <3>2 DEF NoLostNotify
  <2>4. CASE Finish
    <3>1. CASE FinishReply
      BY <2>2, <3>1 DEF FinishReply, streamVars, workerVars
    <3>2. CASE FinishData \/ FinishClose
      <4>1. /\ pc' = Notify({loop.id})
            /\ \A j \in Ids \ {loop.id} : sState'[j] = sState[j]
        BY <3>2 DEF FinishData, FinishClose, TypeOK
      <4>2. i # loop.id /\ pc[i] = "parked"
        BY <4>1 DEF Notify
      <4> QED
        BY <4>1, <4>2 DEF NoLostNotify
    <3> QED
      BY <2>4, <3>1, <3>2 DEF Finish
  <2>5. CASE \E c \in Conns : Accept(c) \/ HttpMessage(c) \/ HandlePoll(c)
    BY <2>2, <2>5 DEF Accept, HttpMessage, ServeReply, ServeStream, ServeSilent, ServeAsync,
                      Dispatch, HandlePoll, streamVars, workerVars, TypeOK
  <2>6. CASE HandleWakeup
    BY <2>2, <2>6 DEF HandleWakeup, WakeUnknown, WakeResponse, WakeStreamOf, TakeWakeup,
                      streamVars, workerVars
  <2>7. CASE Stop \/ Release \/ UNCHANGED vars
    BY <2>2, <2>7 DEF Stop, Release, vars, streamVars, workerVars
  <2> QED
    BY <2>1, <2>3, <2>4, <2>5, <2>6, <2>7 DEF Next
<1> QED
  BY <1>1, <1>2, TypeCorrect, PTL DEF Spec

=============================================================================
