------------------------------ MODULE WireProof ------------------------------
(***************************************************************************)
(* What the frames on the wire of a connection say: a stream that is over  *)
(* is terminated, and a client can parse what it gets.                     *)
(***************************************************************************)
EXTENDS AnswerProof, HttpExchange

-----------------------------------------------------------------------------
\* What ExitTerminated rests on: a closed stream whose wakeup was sent stays in
\* m_pending_streams and keeps its wakeup, and a completed one is terminated.
Exit(i) ==
    /\ sState[i] = "completed" => Answered(i)
    /\ pc[i] = "close_wake" => sState[i] \in {"close", "failed"}
    /\ pc[i] = "exit" => sState[i] \in {"close", "completed", "failed"}
    /\ pc[i] = "exit" /\ sState[i] = "close" /\ phase[owner[i]] = "open" /\ mgr = "running" =>
          i \in streams[owner[i]] /\ InFlight(i)

\* An answer that is complete stays complete.
LEMMA AnsweredStays ==
  ASSUME TypeOK, StepShape, NEW i \in Ids, pc[i] # "none", Answered(i)
  PROVE  Answered(i)'
<1>1. owner'[i] = owner[i] /\ ord'[i] = ord[i] /\ owner[i] \in Conns
  BY DEF StepShape, RequestShape, Registers, TypeOK
<1>2. Extends(out[owner[i]].wire, out'[owner[i]].wire)
  BY <1>1 DEF StepShape, WireShape
<1> QED
  BY <1>1, <1>2 DEF Answered, Extends

\* A step that does not write the state of stream i, nor lead its producer to
\* the end of its loop, leaves Exit(i) as it is if it loses neither the entry nor
\* the wakeup of a closed stream.
LEMMA ExitStill ==
  ASSUME TypeOK, MapInv, StepShape, NEW i \in Ids, Exit(i),
         sState'[i] = sState[i],
         pc'[i] = pc[i] \/ pc'[i] \notin {"close_wake", "exit"},
         mgr' = "running" => mgr = "running",
         pc[i] = "exit" /\ i \in streams[owner[i]] /\ InFlight(i) /\ sState[i] = "close"
            /\ phase'[owner[i]] = "open" /\ mgr' = "running"
            => i \in streams'[owner[i]] /\ InFlight(i)'
  PROVE  Exit(i)'
<1>1. TurnTaking(i) /\ Remembered(i) /\ owner[i] \in Conns
  BY OfRequest DEF MapInv
<1>2. sState'[i] = "completed" => Answered(i)'
  BY <1>1, AnsweredStays DEF Exit, TurnTaking
<1>3. pc'[i] \in {"close_wake", "exit"} => pc'[i] = pc[i]
  OBVIOUS
<1>4. ASSUME pc'[i] = "exit", sState'[i] = "close", phase'[owner'[i]] = "open", mgr' = "running"
      PROVE  i \in streams'[owner'[i]] /\ InFlight(i)'
  <2>1. pc[i] = "exit" /\ owner'[i] = owner[i]
    BY <1>3, <1>4 DEF StepShape, RequestShape, Registers
  <2>2. phase[owner[i]] = "open"
    BY <1>1, <1>4, <2>1 DEF StepShape, ConnShape, Remembered
  <2> QED
    BY <1>4, <2>1, <2>2 DEF Exit
<1> QED
  BY <1>2, <1>3, <1>4 DEF Exit

\* Sending a wakeup takes none out of the pipe.
LEMMA PushKeeps ==
  ASSUME pipe \in Seq(Ids), NEW i \in Ids, NEW ok \in BOOLEAN, MgWakeup(i, ok),
         NEW j \in Ids, InPipe(j)
  PROVE  InPipe(j)'
<1>1. CASE pipe' = pipe
  BY <1>1 DEF InPipe
<1>2. CASE pipe' = Append(pipe, i)
  <2>1. /\ DOMAIN pipe = 1..Len(pipe) /\ Len(pipe) \in Nat
        /\ DOMAIN pipe' = 1..(Len(pipe) + 1)
        /\ \A k \in 1..Len(pipe) : pipe'[k] = pipe[k]
    BY <1>2, AppendProperties
  <2> QED
    BY <2>1 DEF InPipe
<1> QED
  BY <1>1, <1>2 DEF MgWakeup

\* A wakeup that is sent, and not lost, is in the pipe.
LEMMA SentWakeup ==
  ASSUME pipe \in Seq(Ids), NEW i \in Ids, MgWakeup(i, TRUE), mgr = "running",
         "wakeup_lost" \notin Disruptions
  PROVE  InPipe(i)'
<1>1. pipe' = Append(pipe, i)
  BY DEF MgWakeup
<1>2. DOMAIN pipe' = 1..(Len(pipe) + 1) /\ pipe'[Len(pipe) + 1] = i /\ Len(pipe) \in Nat
  BY <1>1, AppendProperties
<1> QED
  BY <1>2 DEF InPipe

\* Taking a wakeup out of the pipe takes no other.
LEMMA PopKeeps ==
  ASSUME pipe \in Seq(Ids), NEW i \in Ids, TakeWakeup(i), NEW j \in Ids, j # i, InPipe(j)
  PROVE  InPipe(j)'
<1>1. /\ Len(pipe) \in Nat /\ Len(pipe) > 0
      /\ DOMAIN pipe = 1..Len(pipe)
      /\ i = pipe[1]
      /\ DOMAIN pipe' = 1..(Len(pipe) - 1)
      /\ \A k \in 1..(Len(pipe) - 1) : pipe'[k] = pipe[k + 1]
  BY EmptySeq, HeadTailProperties DEF TakeWakeup
<1>2. PICK k \in DOMAIN pipe : pipe[k] = j
  BY DEF InPipe
<1>3. k - 1 \in DOMAIN pipe' /\ (k - 1) + 1 = k
  BY <1>1, <1>2
<1> QED
  BY <1>1, <1>2, <1>3 DEF InPipe

\* A worker: close() stores the state and wakes the loop before the loop is over.
LEMMA ExitWorker ==
  ASSUME TypeOK, MapInv, StepShape, \A j \in Ids : Exit(j), "wakeup_lost" \notin Disruptions,
         NEW i \in Ids, Worker(i)
  PROVE  \A j \in Ids : Exit(j)'
<1> USE DEF TypeOK, Goto
<1>1. UNCHANGED <<loop, owner, streams, phase, mgr>>
  BY DEF Worker, Responder, Producer, SendOpen, SendWake, SendMark, StreamOpen, StreamWake,
         StreamPublish, StreamReturn, WaitReturn, WaitPark, SendChunk, CloseStream, WakeStream,
         mongooseVars, endpointVars
<1>2. \A j \in Ids : InPipe(j) => InPipe(j)'
  <2>1. CASE pipe' = pipe
    BY <2>1 DEF InPipe
  <2>2. CASE \E ok \in BOOLEAN : MgWakeup(i, ok)
    BY <2>2, PushKeeps
  <2> QED
    BY <2>1, <2>2, Zenon
       DEF Worker, Responder, Producer, SendOpen, SendWake, SendMark, StreamOpen, StreamWake,
           StreamPublish, StreamReturn, WaitReturn, WaitPark, SendChunk, CloseStream, WakeStream,
           mongooseVars
<1>3. \A j \in Ids : InFlight(j) => InFlight(j)'
  BY <1>1, <1>2 DEF InFlight, InLoop
<1>4. ASSUME NEW j \in Ids, j # i PROVE Exit(j)'
  <2>1. sState'[j] = sState[j] /\ pc'[j] = pc[j]
    BY <1>4 DEF Worker, Responder, Producer, SendOpen, SendWake, SendMark, StreamOpen, StreamWake,
                StreamPublish, StreamReturn, WaitReturn, WaitPark, SendChunk, CloseStream,
                WakeStream, streamVars
  <2> QED
    BY <1>1, <1>3, <2>1, ExitStill
<1>5. Exit(i)'
  <2>1. CASE UNCHANGED sState /\ pc'[i] \notin {"close_wake", "exit"}
    BY <1>1, <1>3, <2>1, ExitStill
  <2>2. CASE SendOpen(i) \/ SendWake(i) \/ SendMark(i)
    BY <2>1, <2>2 DEF SendOpen, SendWake, SendMark, streamVars
  <2>3. CASE StreamOpen(i)
    <3>1. sState'[i] \in {sState[i], "start"} /\ pc'[i] \in {"null", "stream_wake"}
      BY <2>3 DEF StreamOpen, streamVars
    <3>2. CASE sState'[i] = sState[i]
      BY <1>1, <1>3, <3>1, <3>2, ExitStill
    <3>3. CASE sState'[i] = "start"
      BY <3>1, <3>3 DEF Exit
    <3> QED
      BY <3>1, <3>2, <3>3
  <2>4. CASE StreamWake(i) \/ StreamPublish(i) \/ StreamReturn(i) \/ WaitPark(i)
    BY <2>1, <2>4 DEF StreamWake, StreamPublish, StreamReturn, WaitPark, streamVars
  <2>5. CASE WaitReturn(i)
    <3>1. sState' = sState /\ pc'[i] \in {"ready", "exit"} /\ pc[i] = "wait"
          /\ (pc'[i] = "exit" => sState[i] \in {"failed", "completed"})
      BY <2>5 DEF WaitReturn, streamVars
    <3>2. sState[i] = "completed" => Answered(i)'
      BY <3>1, AnsweredStays DEF Exit
    <3> QED
      BY <3>1, <3>2 DEF Exit
  <2>6. CASE SendChunk(i)
    <3>1. sState'[i] = "has_data" /\ pc'[i] = "data_wake"
      BY <2>6 DEF SendChunk
    <3> QED
      BY <3>1 DEF Exit
  <2>7. CASE CloseStream(i)
    <3>1. sState'[i] = "close" /\ pc'[i] = "close_wake"
      BY <2>7 DEF CloseStream
    <3> QED
      BY <3>1 DEF Exit
  <2>8. CASE WakeStream(i)
    <3>1. /\ pc[i] \in {"data_wake", "close_wake"}
          /\ pc'[i] = IF pc[i] = "data_wake" THEN "wait" ELSE "exit"
          /\ sState'[i] \in {sState[i], "failed"}
      BY <2>8 DEF WakeStream
    <3>2. sState[i] # "completed"
      BY <3>1, OfRequest DEF MapInv, TurnTaking
    <3>3. ASSUME pc[i] = "close_wake", sState'[i] = "close", phase'[owner'[i]] = "open",
                 mgr' = "running"
          PROVE  i \in streams'[owner'[i]] /\ InFlight(i)'
      <4>1. i \in streams[owner[i]]
        BY <1>1, <3>3, OfRequest DEF MapInv, Remembered, Turn
      <4>2. CanLock
        BY <1>1, <3>3 DEF CanLock
      <4>3. PICK ok \in BOOLEAN : /\ MgWakeup(i, ok)
                                  /\ sState' = IF ok THEN sState ELSE [sState EXCEPT ![i] = "failed"]
        BY <2>8, <4>2 DEF WakeStream
      <4>4. ok
        BY <3>3, <4>3
      <4> QED
        BY <1>1, <3>3, <4>1, <4>3, <4>4, SentWakeup DEF InFlight
    <3> QED
      BY <3>1, <3>2, <3>3 DEF Exit
  <2> QED
    BY <2>2, <2>3, <2>4, <2>5, <2>6, <2>7, <2>8 DEF Worker, Responder, Producer
<1> QED
  BY <1>4, <1>5

\* Delivering a wakeup: what is taken from the pipe for a closed stream is what
\* the loop then serves.
LEMMA ExitWakeup ==
  ASSUME TypeOK, MapInv, StepShape, \A j \in Ids : Exit(j), HandleWakeup
  PROVE  \A j \in Ids : Exit(j)'
<1>1. PICK i \in Ids : WakeUnknown(i) \/ WakeResponse(i) \/ WakeStreamOf(i)
  BY DEF HandleWakeup
<1>2. TakeWakeup(i) /\ UNCHANGED <<sState, pc, mgr, owner>> /\ loop = Idle
  BY <1>1 DEF WakeUnknown, WakeResponse, WakeStreamOf, TakeWakeup, streamVars, workerVars
<1>3. \A c \in Conns : streams[c] \subseteq streams'[c]
  BY <1>1 DEF WakeUnknown, WakeResponse, WakeStreamOf, TypeOK
<1>4. ASSUME NEW j \in Ids, InFlight(j), j \in streams[owner[j]], sState[j] = "close"
      PROVE  InFlight(j)'
  <2>1. InPipe(j)
    BY <1>2, <1>4 DEF InFlight, InLoop, Idle
  <2>2. CASE j # i
    BY <1>2, <2>1, <2>2, PopKeeps DEF InFlight, TypeOK
  <2>3. CASE j = i
    <3>1. WakeStreamOf(i)
      BY <1>1, <1>4, <2>3 DEF WakeUnknown, WakeResponse, Known
    <3>2. loop' = [op |-> "stream", id |-> i, seen |-> sState[i]]
      BY <1>4, <2>3, <3>1 DEF WakeStreamOf
    <3> QED
      BY <2>3, <3>2 DEF InFlight, InLoop
  <2> QED
    BY <2>2, <2>3
<1> QED
  BY <1>2, <1>3, <1>4, ExitStill DEF TypeOK

\* The second step of a handler: the stream that is closed gets its terminating
\* chunk, and no other is touched.
LEMMA ExitFinish ==
  ASSUME TypeOK, MapInv, StepShape, \A j \in Ids : Exit(j), Finish
  PROVE  \A j \in Ids : Exit(j)'
<1>0. PICK i \in Ids : i = loop.id
  BY DEF TypeOK, Loop
<1>1. /\ owner[i] \in Conns /\ InLoop(i) /\ UNCHANGED <<pipe, mgr, owner, ord>>
      /\ \A j \in Ids : pc'[j] = pc[j] \/ pc'[j] = "wait"
      /\ \A j \in Ids : j # i => sState'[j] = sState[j]
      /\ \A c \in Conns : streams[c] \ {i} \subseteq streams'[c]
  <2>1. CASE FinishReply
    BY <1>0, <2>1 DEF FinishReply, TypeOK, InLoop, streamVars, workerVars
  <2>2. CASE FinishData
    BY <1>0, <2>2 DEF FinishData, TypeOK, InLoop, Notify
  <2>3. CASE FinishClose
    BY <1>0, <2>3 DEF FinishClose, TypeOK, InLoop, Notify
  <2> QED
    BY <2>1, <2>2, <2>3 DEF Finish
<1>2. ASSUME NEW j \in Ids, j # i PROVE Exit(j)'
  <2>1. InFlight(j) => InFlight(j)'
    BY <1>0, <1>1, <1>2 DEF InFlight, InLoop, InPipe
  <2>2. sState'[j] = sState[j] /\ (pc'[j] = pc[j] \/ pc'[j] = "wait") /\ mgr' = mgr
    BY <1>1, <1>2
  <2>3. j \in streams[owner[j]] => j \in streams'[owner[j]]
    BY <1>1, <1>2 DEF TypeOK
  <2> QED
    BY <2>1, <2>2, <2>3, ExitStill
<1>3. Exit(i)'
  <2>1. TurnTaking(i) /\ LoopHasTarget /\ OneMap
    BY <1>1, OfRequest DEF MapInv, WakeupInv
  <2>2. CASE FinishReply
    <3>1. sState' = sState /\ pc' = pc /\ i \notin streams[owner[i]]
      BY <1>0, <1>1, <2>1, <2>2 DEF FinishReply, LoopHasTarget, OneMap, streamVars, workerVars
    <3> QED
      BY <1>1, <3>1, ExitStill
  <2>3. CASE FinishData
    <3>1. sState[i] \in {"start", "has_data"} /\ sState'[i] = "flush"
      BY <1>0, <1>1, <2>3 DEF FinishData, MapInv, Sized, LoadedStateFresh, TypeOK
    <3>2. pc[i] \notin {"close_wake", "exit"}
      BY <1>1, <3>1 DEF Exit
    <3> QED
      BY <1>1, <3>1, <3>2 DEF Exit
  <2>4. CASE FinishClose
    <3>1. sState'[i] = "completed"
      BY <1>0, <1>1, <2>4 DEF FinishClose, TypeOK
    <3>2. pc'[i] # "close_wake"
      BY <1>1, <2>1 DEF TurnTaking, InFlight, Turn
    <3>3. PICK f \in Replies : AddsOne(out[owner[i]].wire, out'[owner[i]].wire, f)
      BY <1>0, <1>1, FinishAdds
    <3>4. f.req = ord[i] /\ f.kind = "last"
      BY <1>0, <2>4 DEF Replies, FinishClose
    <3>5. Answered(i)'
      BY <1>1, <3>3, <3>4 DEF Answered, AddsOne
    <3> QED
      BY <3>1, <3>2, <3>5 DEF Exit
  <2> QED
    BY <2>2, <2>3, <2>4 DEF Finish
<1> QED
  BY <1>2, <1>3

\* The handlers of one step, and the end of the manager.
LEMMA ExitOther ==
  ASSUME TypeOK, MapInv, StepShape, \A j \in Ids : Exit(j),
         \/ \E c \in Conns : \/ Accept(c) \/ HttpMessage(c) \/ HandlePoll(c)
                             \/ HandleWrite(c) \/ HandleClose(c)
         \/ Stop \/ Release \/ UNCHANGED vars
  PROVE  \A j \in Ids : Exit(j)'
<1>1. CASE \E c \in Conns : HandleClose(c)
  <2>1. PICK c \in Conns : HandleClose(c)
    BY <1>1
  <2>2. /\ UNCHANGED <<pipe, loop, mgr>>
        /\ \A j \in Ids : pc'[j] = pc[j] \/ pc'[j] = "wait"
        /\ \A j \in Ids : sState'[j] = IF j \in streams[c] THEN "failed" ELSE sState[j]
        /\ phase'[c] # "open"
        /\ \A d \in Conns : d # c => streams'[d] = streams[d]
    BY <2>1 DEF HandleClose, Notify, TypeOK
  <2>3. ASSUME NEW j \in Ids PROVE Exit(j)'
    <3>1. CASE j \in streams[c]
      <4>1. sState'[j] = "failed"
        BY <2>2, <3>1
      <4> QED
        BY <4>1 DEF Exit
    <3>2. CASE j \notin streams[c]
      <4>1. InFlight(j) => InFlight(j)'
        BY <2>2 DEF InFlight, InPipe, InLoop
      <4> QED
        BY <2>2, <3>2, <4>1, ExitStill DEF TypeOK
    <3> QED
      BY <3>1, <3>2
  <2> QED
    BY <2>3
<1>2. CASE \E c \in Conns : HandleWrite(c)
  <2>1. /\ UNCHANGED <<pipe, loop, mgr, streams>>
        /\ \A j \in Ids : pc'[j] = pc[j] \/ pc'[j] = "wait"
        /\ \A j \in Ids : sState'[j] = sState[j] \/ (sState[j] = "flush" /\ sState'[j] = "empty")
    BY <1>2 DEF HandleWrite, Notify, PumpAsyncStreams
  <2>2. ASSUME NEW j \in Ids PROVE Exit(j)'
    <3>1. CASE sState'[j] = sState[j]
      BY <2>1, <3>1, ExitStill DEF InFlight, InPipe, InLoop
    <3>2. CASE sState[j] = "flush" /\ sState'[j] = "empty"
      <4>1. pc[j] \notin {"close_wake", "exit"}
        BY <3>2 DEF Exit
      <4> QED
        BY <2>1, <3>2, <4>1 DEF Exit
    <3> QED
      BY <2>1, <3>1, <3>2
  <2> QED
    BY <2>2
<1>3. CASE \/ \E c \in Conns : Accept(c) \/ HttpMessage(c) \/ HandlePoll(c)
           \/ UNCHANGED vars
  <2>1. /\ UNCHANGED <<pipe, loop, mgr, streams, sState>>
        /\ \A j \in Ids : pc'[j] = pc[j] \/ pc'[j] = "begin"
    <3>1. CASE \E c \in Conns : HttpMessage(c)
      BY <3>1 DEF HttpMessage, ServeReply, ServeStream, ServeSilent, ServeAsync, Dispatch,
                  streamVars, workerVars, TypeOK
    <3>2. CASE (\E c \in Conns : Accept(c) \/ HandlePoll(c)) \/ UNCHANGED vars
      BY <3>2 DEF Accept, HandlePoll, vars, mongooseVars, streamVars, workerVars, endpointVars
    <3> QED
      BY <1>3, <3>1, <3>2
  <2> QED
    BY <2>1, ExitStill DEF InFlight, InPipe, InLoop
<1>4. CASE Stop \/ Release
  <2>1. UNCHANGED <<sState, pc>> /\ mgr' # "running"
    BY <1>4 DEF Stop, Release, streamVars, workerVars
  <2> QED
    BY <2>1, ExitStill
<1> QED
  BY <1>1, <1>2, <1>3, <1>4

\* A producer whose loop is over and whose stream has not failed has its
\* terminating chunk on the wire or a wakeup that brings it there in flight, on an
\* open connection of a running manager, if mongoose loses no wakeup it took.
THEOREM ClosedStreamsTerminate ==
  ASSUME "wakeup_lost" \notin Disruptions
  PROVE  Spec => []ExitTerminated
<1> DEFINE ExitInv == \A i \in Ids : Exit(i)
<1>1. Init => ExitInv
  BY DEF Init, Exit
<1>2. TypeOK /\ MapInv /\ ExitInv /\ [Next]_vars => ExitInv'
  <2> SUFFICES ASSUME TypeOK, MapInv, ExitInv, [Next]_vars, StepShape
               PROVE  ExitInv'
    BY EveryStepShape
  <2>1. CASE \E i \in Ids : Worker(i)
    BY <2>1, ExitWorker
  <2>2. CASE HandleWakeup \/ Finish
    BY <2>2, ExitWakeup, ExitFinish
  <2>3. CASE \/ \E c \in Conns : \/ Accept(c) \/ HttpMessage(c) \/ HandlePoll(c)
                                 \/ HandleWrite(c) \/ HandleClose(c)
             \/ Stop \/ Release \/ UNCHANGED vars
    BY <2>3, ExitOther
  <2> QED
    BY <2>1, <2>2, <2>3 DEF Next
<1>3. ExitInv => ExitTerminated
  BY DEF Exit, ExitTerminated
<1> QED
  BY <1>1, <1>2, <1>3, TypeCorrect, MapInvariant, PTL DEF Spec

-----------------------------------------------------------------------------
(***************************************************************************)
(* The frames on the wire of a connection, when its requests come one at a *)
(* time and no producer sends an empty chunk: who may send the next frame, *)
(* and what it has to be.                                                  *)
(***************************************************************************)
Final == Whole \union {"last"}

Last(wire) == wire[Len(wire)]

\* The answers on the wire are complete, and for requests before r.
Done(wire) == wire # <<>> => Last(wire).kind \in Final
Before(wire, r) == Done(wire) /\ (wire # <<>> => Last(wire).req < r)

\* The wire ends within the chunked answer to request r, after its n-th frame.
Within(wire, r, n) ==
    /\ wire # <<>> /\ Last(wire).kind \in {"preamble", "chunk"}
    /\ Last(wire).req = r /\ Last(wire).n = n

\* Frame f is what a client expects after the wire.
Follows(wire, f) ==
    \/ f.kind \in Whole \union {"preamble"} /\ f.n = 0 /\ f.req > 0 /\ Before(wire, f.req)
    \/ f.kind \in {"chunk", "last"} /\ \E n \in Nat : Within(wire, f.req, n) /\ f.n = n + 1

Total(wire) == Cardinality(Finals(wire))

\* One more frame on a wire.
LEMMA OneMoreFrame ==
  ASSUME NEW w \in Seq(Frame), NEW f \in Frame
  PROVE  /\ Append(w, f) \in Seq(Frame) /\ Append(w, f) # <<>>
         /\ Last(Append(w, f)) = f
         /\ Total(w) \in Nat
         /\ Total(Append(w, f)) = Total(w) + IF f.kind \in Final THEN 1 ELSE 0
<1> DEFINE v == Append(w, f)
<1>1. /\ v \in Seq(Frame) /\ v # <<>> /\ Len(v) = Len(w) + 1 /\ Len(w) \in Nat
      /\ DOMAIN w = 1..Len(w) /\ DOMAIN v = 1..(Len(w) + 1)
      /\ v[Len(w) + 1] = f /\ \A p \in 1..Len(w) : v[p] = w[p]
  BY AppendProperties
<1> HIDE DEF v
<1>2. Last(v) = f
  BY <1>1 DEF Last
<1>3. IsFiniteSet(Finals(w)) /\ Total(w) \in Nat
  <2>1. IsFiniteSet(DOMAIN w)
    BY <1>1, FS_Interval
  <2>2. Finals(w) \subseteq DOMAIN w
    BY DEF Finals
  <2> QED
    BY <2>1, <2>2, FS_Subset, FS_CardinalityType DEF Total
<1>4. Total(v) = Total(w) + IF f.kind \in Final THEN 1 ELSE 0
  <2>1. CASE f.kind \in Final
    <3>1. Finals(v) = Finals(w) \union {Len(w) + 1} /\ Len(w) + 1 \notin Finals(w)
      BY <1>1, <2>1 DEF Finals, Final
    <3> QED
      BY <1>3, <2>1, <3>1, FS_AddElement DEF Total
  <2>2. CASE f.kind \notin Final
    <3>1. Finals(v) = Finals(w)
      BY <1>1, <2>2 DEF Finals, Final
    <3> QED
      BY <1>3, <2>2, <3>1 DEF Total
  <2> QED
    BY <2>1, <2>2
<1> QED
  BY <1>1, <1>2, <1>3, <1>4 DEF v

\* What a client can parse goes on with what it expects.
LEMMA WellFormedGrows ==
  ASSUME NEW w \in Seq(Frame), NEW f \in Frame, WellFormed(w), Follows(w, f)
  PROVE  WellFormed(Append(w, f))
<1> DEFINE v == Append(w, f)
           l == Len(w)
<1>1. /\ l \in Nat /\ DOMAIN w = 1..l /\ DOMAIN v = 1..(l + 1)
      /\ v[l + 1] = f /\ \A p \in 1..l : v[p] = w[p]
      /\ w # <<>> <=> l > 0
  BY AppendProperties, EmptySeq
<1> HIDE DEF v, l
<1>2. w # <<>> => /\ l > 0 /\ l \in 1..l /\ v[l] = w[l] /\ Last(w) = w[l]
                  /\ l + 1 > 1 /\ (l + 1) - 1 = l
  BY <1>1 DEF Last, l
<1> DEFINE Fits(p) ==
      IF v[p].kind \in {"chunk", "last"}
      THEN /\ p > 1
           /\ v[p - 1].kind \in {"preamble", "chunk"}
           /\ v[p].req = v[p - 1].req
           /\ v[p].n = v[p - 1].n + 1
      ELSE /\ v[p].req > IF p = 1 THEN 0 ELSE v[p - 1].req
           /\ p > 1 => v[p - 1].kind \in Whole \union {"last"}
<1>3. ASSUME NEW p \in 1..l PROVE Fits(p)
  <2>1. v[p] = w[p] /\ (p > 1 => p - 1 \in 1..l /\ v[p - 1] = w[p - 1])
    BY <1>1
  <2>2. p > 1 \/ p = 1
    BY <1>1
  <2> QED
    BY <1>1, <2>1, <2>2 DEF WellFormed
<1>4. Fits(l + 1)
  <2>1. CASE f.kind \in {"chunk", "last"}
    <3>1. PICK n \in Nat : Within(w, f.req, n) /\ f.n = n + 1
      BY <2>1 DEF Follows, Whole
    <3> QED
      BY <1>1, <1>2, <2>1, <3>1 DEF Within
  <2>2. CASE f.kind \notin {"chunk", "last"}
    <3>1. f.req > 0 /\ Before(w, f.req)
      BY <2>2 DEF Follows
    <3>2. CASE w = <<>>
      BY <1>1, <2>2, <3>1, <3>2
    <3>3. CASE w # <<>>
      <4>1. w[l].req < f.req /\ w[l].req \in Nat /\ f.req \in Nat /\ w[l].kind \in Final
        <5>1. w[l] \in Frame
          BY <1>1, <1>2, <3>3
        <5> QED
          BY <1>2, <3>1, <3>3, <5>1 DEF Before, Done, Frame
      <4>2. f.req > w[l].req
        BY <4>1
      <4> QED
        BY <1>1, <1>2, <2>2, <3>3, <4>1, <4>2 DEF Final
    <3> QED
      BY <3>2, <3>3
  <2> QED
    BY <2>1, <2>2
<1>5. \A p \in DOMAIN v : p \in 1..l \/ p = l + 1
  BY <1>1
<1>6. \A p \in DOMAIN v : Fits(p)
  BY <1>3, <1>4, <1>5
<1>7. WellFormed(v)
  BY <1>6 DEF WellFormed
<1> QED
  BY <1>7 DEF v

\* An entry of the maps is the request being answered: nothing of its answer is
\* sent until its stream has started, and then the stream is at frame sData[i].n,
\* or about to send that frame. A producer has the turn on an empty stream only.
Pending(c, i) ==
    /\ ord[i] = reqs[c]
    /\ i \in responses[c] => sState[i] = "start"
    /\ sState[i] = "start" => Before(out[c].wire, reqs[c]) /\ sData[i].n = 0
    /\ sState[i] \in {"has_data", "close"} =>
          \E n \in Nat : Within(out[c].wire, reqs[c], n) /\ sData[i].n = n + 1
    /\ sState[i] \in {"flush", "empty"} => Within(out[c].wire, reqs[c], sData[i].n)
    /\ pc[i] = "ready" => sState[i] = "empty"

\* A request has one answerer at most: an entry of the maps or the synchronous
\* stream, and none once its answer is complete.
OneAnswerer(c) ==
    /\ ~out[c].busy => /\ responses[c] \union streams[c] = {}
                       /\ ~ctx[c].on
                       /\ Done(out[c].wire)
    /\ ctx[c].on => /\ responses[c] \union streams[c] = {}
                    /\ out[c].busy
                    /\ ctx[c].req = reqs[c]
                    /\ Within(out[c].wire, reqs[c], ctx[c].n)

WireInv(c) ==
    /\ WellFormed(out[c].wire)
    /\ reqs[c] = Total(out[c].wire) + IF out[c].busy THEN 1 ELSE 0
    /\ OneAnswerer(c)
    /\ \A i \in responses[c] \union streams[c] : Pending(c, i)

\* Frame f of the answer to the request being served has been sent.
Grew(c, f) ==
    /\ f \in Frame /\ Follows(out[c].wire, f) /\ f.req = reqs'[c]
    /\ out'[c].wire = Append(out[c].wire, f)
    /\ f.kind \in Final => out'[c].busy = FALSE
    /\ f.kind \notin Final => out'[c].busy = TRUE
    /\ phase[c] = "open" /\ phase'[c] = "open"

\* What a step may mean to the client of connection c.
Still(c) == UNCHANGED <<phase[c], reqs[c], out[c].wire, out[c].busy>>

Progresses(c) ==
    \/ /\ UNCHANGED <<reqs[c], out[c].wire>>
       /\ \/ phase[c] = "idle" /\ phase'[c] = "open"
          \/ phase[c] = "open" /\ phase'[c] = "closed"
    \/ /\ phase[c] = "open" /\ phase'[c] = "open"
       /\ ~out[c].busy /\ reqs'[c] = reqs[c] + 1
       /\ \/ out'[c].wire = out[c].wire
          \/ \E f : Grew(c, f)
    \/ out[c].busy /\ reqs'[c] = reqs[c] /\ \E f : Grew(c, f)

\* One connection at a time.
ExchangeStep ==
    \E d \in Conns : /\ Still(d) \/ Progresses(d)
                     /\ \A c \in Conns : c # d => Still(c)

\* Answers are counted.
LEMMA TotalNat ==
  ASSUME TypeOK, NEW c \in Conns
  PROVE  out[c].wire \in Seq(Frame) /\ Total(out[c].wire) \in Nat /\ out[c].busy \in BOOLEAN
<1>1. out[c].wire \in Seq(Frame) /\ out[c].busy \in BOOLEAN
  BY DEF TypeOK, Outlet
<1>2. IsFiniteSet(DOMAIN out[c].wire) /\ Finals(out[c].wire) \subseteq DOMAIN out[c].wire
  BY <1>1, FS_Interval DEF Finals
<1> QED
  BY <1>1, <1>2, FS_Subset, FS_CardinalityType DEF Total

\* What a frame makes of a wire.
LEMMA GrewWire ==
  ASSUME TypeOK, NEW c \in Conns, WellFormed(out[c].wire), NEW f, Grew(c, f)
  PROVE  /\ WellFormed(out'[c].wire) /\ out'[c].wire # <<>> /\ Last(out'[c].wire) = f
         /\ Total(out'[c].wire) = Total(out[c].wire) + IF f.kind \in Final THEN 1 ELSE 0
         /\ Total(out[c].wire) \in Nat
<1>1. out[c].wire \in Seq(Frame)
  BY DEF TypeOK, Outlet
<1>2. f \in Frame /\ Follows(out[c].wire, f) /\ out'[c].wire = Append(out[c].wire, f)
  BY DEF Grew
<1>3. WellFormed(Append(out[c].wire, f))
  BY <1>1, <1>2, WellFormedGrows
<1> QED
  BY <1>1, <1>2, <1>3, OneMoreFrame

\* Every request, kind and number make a frame.
LEMMA FrameExists ==
  ASSUME NEW r \in Nat, NEW kind \in FrameKind, NEW n \in Nat
  PROVE  \E f \in Frame : f.req = r /\ f.kind = kind /\ f.n = n
<1>1. [req |-> r, kind |-> kind, n |-> n] \in Frame
  BY DEF Frame
<1> QED
  BY <1>1

\* What one call of mongoose does to an output side with the wire of c.
LEMMA PutGrew ==
  ASSUME NEW c \in Conns, NEW o, o.wire = out[c].wire, NEW f \in Frame, NEW busy,
         out'[c] = Put(o, f.req, f.kind, f.n, busy),
         f.kind \in Final => busy = FALSE, f.kind \notin Final => busy = TRUE,
         Follows(out[c].wire, f), f.req = reqs'[c], phase[c] = "open", phase'[c] = "open"
  PROVE  Grew(c, f)
<1>1. f = [req |-> f.req, kind |-> f.kind, n |-> f.n]
  BY DEF Frame
<1>2. out'[c].wire = Append(out[c].wire, f) /\ out'[c].busy = busy
  BY <1>1 DEF Put
<1> QED
  BY <1>2 DEF Grew

\* The answer under way goes on, or is complete and leaves no answerer.
LEMMA GrewInv ==
  ASSUME TypeOK, NEW c \in Conns, WireInv(c), NEW f, Grew(c, f),
         out[c].busy, reqs'[c] = reqs[c],
         f.kind \in Final => responses'[c] \union streams'[c] = {} /\ ~ctx'[c].on,
         ctx'[c].on => /\ responses'[c] \union streams'[c] = {}
                       /\ ctx'[c].req = reqs[c] /\ ctx'[c].n = f.n,
         \A i \in responses'[c] \union streams'[c] : Pending(c, i)'
  PROVE  WireInv(c)' /\ Progresses(c)
<1>1. /\ WellFormed(out'[c].wire) /\ out'[c].wire # <<>> /\ Last(out'[c].wire) = f
      /\ Total(out'[c].wire) = Total(out[c].wire) + IF f.kind \in Final THEN 1 ELSE 0
      /\ Total(out[c].wire) \in Nat
  BY GrewWire DEF WireInv
<1>2. /\ f.req = reqs[c] /\ f \in Frame
      /\ f.kind \in Final => out'[c].busy = FALSE
      /\ f.kind \notin Final => out'[c].busy = TRUE
  BY DEF Grew
<1>3. reqs'[c] = Total(out'[c].wire) + IF out'[c].busy THEN 1 ELSE 0
  <2>1. reqs[c] = Total(out[c].wire) + 1
    BY DEF WireInv
  <2> QED
    BY <1>1, <1>2, <2>1
<1>4. f.kind \notin Final => f.kind \in {"preamble", "chunk"}
  BY <1>2 DEF Frame, FrameKind, Final
<1>5. OneAnswerer(c)'
  BY <1>1, <1>2, <1>4 DEF OneAnswerer, Within, Done
<1> QED
  BY <1>1, <1>3, <1>5 DEF WireInv, Progresses

\* A connection that a step sends nothing on stays as it is, if the step does
\* nothing to its entries but say that a stream is flushed.
LEMMA WireKept ==
  ASSUME TypeOK, NEW c \in Conns, WireInv(c),
         UNCHANGED <<out[c].wire, out[c].busy, reqs[c]>>,
         ctx'[c] = ctx[c] \/ ~ctx'[c].on,
         \A i \in responses'[c] \union streams'[c] :
            /\ i \in responses[c] \union streams[c]
            /\ i \in responses'[c] => i \in responses[c]
            /\ ord'[i] = ord[i] /\ sData'[i].n = sData[i].n
            /\ \/ sState'[i] = sState[i] /\ (pc'[i] = "ready" => pc[i] = "ready")
               \/ sState[i] = "flush" /\ sState'[i] = "empty"
               \/ sState'[i] = "failed" /\ i \notin responses'[c] /\ pc'[i] # "ready"
  PROVE  WireInv(c)'
<1>1. OneAnswerer(c)'
  BY DEF WireInv, OneAnswerer
<1>2. ASSUME NEW i \in responses'[c] \union streams'[c] PROVE Pending(c, i)'
  <2>1. Pending(c, i)
    BY <1>2 DEF WireInv
  <2> QED
    BY <1>2, <2>1 DEF Pending
<1> QED
  BY <1>1, <1>2 DEF WireInv

\* So does a connection that the step does not concern.
LEMMA WireUntouched ==
  ASSUME TypeOK, NEW c \in Conns, WireInv(c),
         UNCHANGED <<out[c], reqs[c], ctx[c], responses[c], streams[c]>>,
         \A i \in responses[c] \union streams[c] :
            UNCHANGED <<ord[i], sData[i], sState[i]>> /\ (pc'[i] = "ready" => pc[i] = "ready")
  PROVE  WireInv(c)'
  BY WireKept

\* A worker sends nothing: its chunk is the next of its stream.
LEMMA WireWorker ==
  ASSUME TypeOK, MapInv, PendingUnanswered, \A c \in Conns : WireInv(c),
         NEW i \in Ids, Worker(i)
  PROVE  (\A c \in Conns : WireInv(c)') /\ ExchangeStep
<1> USE DEF TypeOK, Goto
<1>1. UNCHANGED <<phase, out, reqs, owner, ord, responses, streams, ctx>>
  BY DEF Worker, Responder, Producer, SendOpen, SendWake, SendMark, StreamOpen, StreamWake,
         StreamPublish, StreamReturn, WaitReturn, WaitPark, SendChunk, CloseStream, WakeStream,
         mongooseVars, endpointVars
<1>2. \A j \in Ids : j # i => UNCHANGED <<sState[j], sData[j], pc[j]>>
  BY DEF Worker, Responder, Producer, SendOpen, SendWake, SendMark, StreamOpen, StreamWake,
         StreamPublish, StreamReturn, WaitReturn, WaitPark, SendChunk, CloseStream, WakeStream,
         streamVars
<1>3. ASSUME NEW c \in Conns, i \in responses[c] \union streams[c] PROVE Pending(c, i)'
  <2>1. Pending(c, i) /\ owner[i] = c /\ phase[c] = "open" /\ responses[c] \intersect streams[c] = {}
    BY <1>3 DEF WireInv, PendingUnanswered
  <2>2. Remembered(i) /\ TurnTaking(i) /\ Entries(c)
    BY OfRequest, <2>1 DEF MapInv
  <2>3. CASE UNCHANGED streamVars /\ pc'[i] # "ready"
    BY <1>1, <2>1, <2>3 DEF Pending, streamVars
  <2>4. CASE SendOpen(i) \/ SendWake(i) \/ SendMark(i)
    BY <2>3, <2>4 DEF SendOpen, SendWake, SendMark
  <2>5. CASE StreamWake(i) \/ StreamPublish(i) \/ StreamReturn(i) \/ WaitPark(i)
    BY <2>3, <2>5 DEF StreamWake, StreamPublish, StreamReturn, WaitPark
  <2>6. CASE StreamOpen(i)
    <3>1. sState[i] = "start" /\ sState'[i] = "start" /\ sData'[i].n \in {sData[i].n, 0}
          /\ pc'[i] # "ready"
      BY <2>2, <2>6 DEF StreamOpen, TurnTaking, Opening, streamVars
    <3> QED
      BY <1>1, <2>1, <3>1 DEF Pending
  <2>7. CASE WaitReturn(i)
    <3>1. UNCHANGED streamVars /\ (pc'[i] = "ready" => sState[i] = "empty")
      BY <2>7 DEF WaitReturn
    <3> QED
      BY <1>1, <2>1, <3>1 DEF Pending, streamVars
  <2>8. CASE SendChunk(i) \/ CloseStream(i)
    <3>1. pc[i] = "ready" /\ pc'[i] # "ready" /\ sState'[i] \in {"has_data", "close"}
          /\ sData'[i].n = sData[i].n + 1
      BY <2>8 DEF SendChunk, CloseStream
    <3>2. sState[i] = "empty" /\ i \notin responses[c] /\ sData[i].n \in Nat
      BY <2>1, <3>1 DEF Pending, Data
    <3> QED
      BY <1>1, <2>1, <3>1, <3>2 DEF Pending
  <2>9. CASE WakeStream(i)
    <3>1. sData'[i] = sData[i] /\ pc'[i] # "ready" /\ pc[i] \in {"data_wake", "close_wake"}
          /\ sState'[i] \in {sState[i], "failed"}
      BY <2>9 DEF WakeStream
    <3>2. i \notin responses[c]
      BY <2>1, <2>2, <3>1 DEF TurnTaking, Pending
    <3> QED
      BY <1>1, <2>1, <3>1, <3>2 DEF Pending
  <2> QED
    BY <2>4, <2>5, <2>6, <2>7, <2>8, <2>9 DEF Worker, Responder, Producer
<1>4. ASSUME NEW c \in Conns PROVE WireInv(c)'
  <2>1. ASSUME NEW j \in responses[c] \union streams[c] PROVE Pending(c, j)'
    <3>1. CASE j = i
      BY <1>3, <2>1, <3>1
    <3>2. CASE j # i
      <4>1. j \in Ids /\ Pending(c, j)
        BY <2>1 DEF WireInv
      <4> QED
        BY <1>1, <1>2, <3>2, <4>1 DEF Pending
    <3> QED
      BY <3>1, <3>2
  <2> QED
    BY <1>1, <2>1 DEF WireInv, OneAnswerer
<1>5. ExchangeStep
  BY <1>1, MongooseAssumption DEF ExchangeStep, Still
<1> QED
  BY <1>4, <1>5

\* Delivering a wakeup sends nothing: a stream that moves to m_pending_streams
\* has not started.
LEMMA WireWakeup ==
  ASSUME TypeOK, MapInv, StepShape, \A c \in Conns : WireInv(c), HandleWakeup
  PROVE  (\A c \in Conns : WireInv(c)') /\ ExchangeStep
<1>1. PICK i \in Ids : WakeUnknown(i) \/ WakeResponse(i) \/ WakeStreamOf(i)
  BY DEF HandleWakeup
<1>2. TakeWakeup(i) /\ UNCHANGED <<phase, reqs, ord, sState, sData, pc, ctx>>
  BY <1>1 DEF WakeUnknown, WakeResponse, WakeStreamOf, TakeWakeup, streamVars, workerVars
<1>3. out' = out
  <2>1. CASE WakeUnknown(i)
    <3>1. InPipe(i)
      BY <1>2, PopWakeup DEF TypeOK, MapInv, WakeupInv, OneWakeup, Distinct
    <3> QED
      BY <2>1, <3>1 DEF WakeUnknown, MapInv, WakeupInv, Remembered
  <2> QED
    BY <1>1, <2>1 DEF WakeResponse, WakeStreamOf
<1>4. ASSUME NEW c \in Conns PROVE WireInv(c)'
  <2>1. /\ responses'[c] \subseteq responses[c]
        /\ responses'[c] \union streams'[c] \subseteq responses[c] \union streams[c]
    <3>1. CASE WakeUnknown(i) \/ WakeResponse(i)
      BY <3>1 DEF WakeUnknown, WakeResponse
    <3>2. CASE WakeStreamOf(i)
      BY <3>2 DEF WakeStreamOf, Known, TypeOK
    <3> QED
      BY <1>1, <3>1, <3>2
  <2> QED
    BY <1>2, <1>3, <2>1, WireKept
<1>5. ExchangeStep
  BY <1>2, <1>3, MongooseAssumption DEF ExchangeStep, Still
<1> QED
  BY <1>4, <1>5

\* A connection opens or closes, and sends nothing.
LEMMA WireConnection ==
  ASSUME TypeOK, MapInv, \A c \in Conns : WireInv(c),
         NEW d \in Conns, Accept(d) \/ HandleClose(d)
  PROVE  (\A c \in Conns : WireInv(c)') /\ ExchangeStep
<1>1. /\ UNCHANGED <<out, reqs, ord, sData>>
      /\ \A i \in Ids : pc'[i] = "ready" => pc[i] = "ready"
  BY DEF Accept, HandleClose, workerVars, streamVars, Notify
<1>2. CASE Accept(d)
  <2>1. /\ UNCHANGED <<sState, responses, streams>>
        /\ ~ctx'[d].on /\ phase[d] = "idle" /\ phase'[d] = "open"
        /\ \A c \in Conns : c # d => ctx'[c] = ctx[c] /\ phase'[c] = phase[c]
    BY <1>2 DEF Accept, streamVars, TypeOK, NoContext
  <2>2. ASSUME NEW c \in Conns PROVE WireInv(c)'
    BY <1>1, <2>1, WireKept DEF TypeOK
  <2>3. ExchangeStep
    BY <1>1, <2>1 DEF ExchangeStep, Still, Progresses
  <2> QED
    BY <2>2, <2>3
<1>3. CASE HandleClose(d)
  <2>1. /\ \A i \in Ids : i \notin streams[d] => sState'[i] = sState[i]
        /\ responses'[d] = {} /\ streams'[d] = {}
        /\ ~ctx'[d].on /\ phase[d] = "open" /\ phase'[d] = "closed"
        /\ \A c \in Conns : c # d => /\ ctx'[c] = ctx[c] /\ phase'[c] = phase[c]
                                     /\ responses'[c] = responses[c] /\ streams'[c] = streams[c]
    BY <1>3 DEF HandleClose, TypeOK, NoContext
  <2>2. ASSUME NEW c \in Conns PROVE WireInv(c)'
    <3>1. CASE c = d
      BY <1>1, <2>1, <3>1, WireKept
    <3>2. CASE c # d
      <4>1. ASSUME NEW i \in responses[c] \union streams[c]
            PROVE  i \in Ids /\ sState'[i] = sState[i] /\ (pc'[i] = "ready" => pc[i] = "ready")
        BY <1>1, <2>1, <3>2, <4>1, EntryRequest DEF MapInv
      <4> QED
        BY <1>1, <2>1, <3>2, <4>1, WireUntouched
    <3> QED
      BY <3>1, <3>2
  <2>3. ExchangeStep
    BY <1>1, <2>1 DEF ExchangeStep, Still, Progresses
  <2> QED
    BY <2>2, <2>3
<1> QED
  BY <1>2, <1>3

\* A request without a worker has written nothing.
Blank == \A i \in Ids : pc[i] = "none" => sData[i].n = 0

LEMMA BlankStep ==
  ASSUME TypeOK, Blank, [Next]_vars, StepShape
  PROVE  Blank'
<1> SUFFICES ASSUME NEW i \in Ids, pc'[i] = "none" PROVE sData'[i].n = 0
  BY DEF Blank
<1>1. pc[i] = "none"
  BY DEF StepShape, RequestShape, Registers
<1>2. CASE \E j \in Ids : Worker(j)
  <2>1. PICK j \in Ids : Worker(j)
    BY <1>2
  <2>2. j # i
    BY <1>1, <2>1 DEF Worker, Responder, Producer, SendOpen, SendWake, SendMark, StreamOpen,
                      StreamWake, StreamPublish, StreamReturn, WaitReturn, WaitPark, SendChunk,
                      CloseStream, WakeStream, Goto
  <2>3. CASE SendChunk(j) \/ CloseStream(j)
    BY <1>1, <2>2, <2>3 DEF SendChunk, CloseStream, TypeOK, Blank
  <2>4. CASE StreamOpen(j)
    BY <1>1, <2>2, <2>4 DEF StreamOpen, streamVars, TypeOK, Blank
  <2>5. CASE sData' = sData
    BY <1>1, <2>5 DEF Blank
  <2> QED
    BY <2>1, <2>3, <2>4, <2>5 DEF Worker, Responder, Producer, SendOpen, SendWake, SendMark,
       StreamWake, StreamPublish, StreamReturn, WaitReturn, WaitPark, WakeStream, streamVars
<1>3. CASE Finish
  <2>1. sData'[i].n = sData[i].n
    <3>1. CASE FinishData
      BY <3>1 DEF FinishData, TypeOK
    <3>2. CASE FinishReply \/ FinishClose
      BY <3>2 DEF FinishReply, FinishClose, streamVars
    <3> QED
      BY <1>3, <3>1, <3>2 DEF Finish
  <2> QED
    BY <1>1, <2>1 DEF Blank
<1>4. CASE sData' = sData
  BY <1>1, <1>4 DEF Blank
<1>5. CASE \E c \in Conns : \/ Accept(c) \/ HttpMessage(c) \/ HandlePoll(c)
                            \/ HandleWrite(c) \/ HandleClose(c)
  BY <1>4, <1>5 DEF Accept, HttpMessage, ServeReply, ServeStream, ServeSilent, ServeAsync,
                    Dispatch, HandlePoll, HandleWrite, HandleClose, streamVars
<1>6. CASE HandleWakeup \/ Stop \/ Release \/ UNCHANGED vars
  BY <1>4, <1>6 DEF HandleWakeup, WakeUnknown, WakeResponse, WakeStreamOf, TakeWakeup, Stop,
                    Release, vars, streamVars
<1> QED
  BY <1>2, <1>3, <1>5, <1>6 DEF Next

\* With ~Pipelined a request is dispatched when the one before has its answer.
LEMMA Dispatched ==
  ASSUME TypeOK, Numbered, ~Pipelined, NEW d \in Conns, WireInv(d), Dispatch(d)
  PROVE  /\ ~out[d].busy /\ ~ctx[d].on
         /\ responses[d] = {} /\ streams[d] = {}
         /\ reqs[d] \in Nat /\ Before(out[d].wire, reqs[d] + 1)
         /\ phase[d] = "open" /\ phase'[d] = "open"
         /\ reqs'[d] = reqs[d] + 1
         /\ \A c \in Conns : c # d => reqs'[c] = reqs[c] /\ phase'[c] = phase[c]
         /\ UNCHANGED <<streams, sState, sData>>
<1>1. ~out[d].busy /\ phase[d] = "open" /\ phase' = phase /\ reqs' = [reqs EXCEPT ![d] = @ + 1]
      /\ UNCHANGED <<streams, sState, sData>>
  BY DEF Dispatch, streamVars
<1>2. Done(out[d].wire) /\ ~ctx[d].on /\ responses[d] = {} /\ streams[d] = {}
  BY <1>1 DEF WireInv, OneAnswerer
<1>3. reqs[d] \in Nat
  BY DEF TypeOK
<1>4. ASSUME out[d].wire # <<>> PROVE Last(out[d].wire).req < reqs[d] + 1
  <2>1. out[d].wire \in Seq(Frame)
    BY DEF TypeOK, Outlet
  <2>2. Len(out[d].wire) \in DOMAIN out[d].wire
    BY <1>4, <2>1, EmptySeq
  <2>3. Last(out[d].wire).req <= reqs[d] /\ Last(out[d].wire).req \in Nat
    BY <2>2, WireFrames DEF Numbered, Last
  <2> QED
    BY <1>3, <2>3
<1> QED
  BY <1>1, <1>2, <1>3, <1>4 DEF Before, TypeOK

\* Mongoose starts no answer but that to the request it dispatches.
LEMMA WireServe ==
  ASSUME TypeOK, MapInv, Numbered, Blank, ~Pipelined, \A c \in Conns : WireInv(c),
         NEW d \in Conns, HttpMessage(d)
  PROVE  (\A c \in Conns : WireInv(c)') /\ ExchangeStep
<1> DEFINE o == Busy(out[d])
           r == reqs[d] + 1
<1>1. Dispatch(d)
  BY DEF HttpMessage, ServeReply, ServeStream, ServeSilent, ServeAsync
<1>2. /\ ~out[d].busy /\ ~ctx[d].on /\ responses[d] = {} /\ streams[d] = {}
      /\ reqs[d] \in Nat /\ Before(out[d].wire, r)
      /\ phase[d] = "open" /\ phase'[d] = "open" /\ reqs'[d] = r
      /\ \A c \in Conns : c # d => reqs'[c] = reqs[c] /\ phase'[c] = phase[c]
      /\ UNCHANGED <<streams, sState, sData>>
  BY <1>1, Dispatched
<1>3. WellFormed(out[d].wire) /\ reqs[d] = Total(out[d].wire)
  BY <1>2, TotalNat DEF WireInv
<1>4. o \in Outlet /\ o.wire = out[d].wire /\ o.busy = TRUE
  BY DEF Busy, Outlet, TypeOK
<1>5. \A c \in Conns : c # d => /\ out'[c] = out[c] /\ ctx'[c] = ctx[c]
                                /\ responses'[c] = responses[c]
  BY DEF HttpMessage, ServeReply, ServeStream, ServeSilent, ServeAsync, Dispatch, TypeOK
<1>6. \A i \in Ids : pc[i] # "none" => ord'[i] = ord[i] /\ pc'[i] = pc[i]
  <2>1. CASE ServeAsync(d)
    <3>1. pc[counter] = "none"
      BY <2>1, IdsType DEF ServeAsync, MapInv, WakeupInv, Remembered
    <3> QED
      BY <2>1, <3>1 DEF ServeAsync, TypeOK
  <2>2. CASE UNCHANGED workerVars
    BY <2>2 DEF workerVars
  <2> QED
    BY <2>1, <2>2 DEF HttpMessage, ServeReply, ServeStream, ServeSilent
<1>7. ASSUME NEW c \in Conns, c # d PROVE WireInv(c)' /\ Still(c)
  <2>1. \A i \in responses[c] \union streams[c] : i \in Ids /\ pc[i] # "none"
    BY EntryRequest DEF MapInv
  <2>2. streams'[c] = streams[c] /\ reqs'[c] = reqs[c] /\ phase'[c] = phase[c]
    BY <1>2, <1>7
  <2> QED
    BY <1>2, <1>5, <1>6, <1>7, <2>1, <2>2, WireUntouched DEF Still
<1>8. CASE ServeReply(d) \/ ServeStream(d)
  <2>1. PICK f \in Frame : /\ f.req = r /\ f.kind = IF ServeReply(d) THEN "reply" ELSE "preamble"
                           /\ f.n = 0
    BY <1>2, FrameExists DEF FrameKind, Whole
  <2>2. /\ out'[d] = Put(o, f.req, f.kind, f.n, IF f.kind \in Final THEN FALSE ELSE TRUE)
        /\ responses'[d] = {} /\ streams'[d] = {}
        /\ ctx'[d] = IF f.kind = "reply" THEN ctx[d] ELSE [on |-> TRUE, req |-> r, n |-> 0]
    <3>1. UNCHANGED <<responses, streams>>
      BY <1>2, <1>8 DEF ServeReply, ServeStream, Dispatch
    <3>2. CASE ServeReply(d)
      BY <1>2, <1>4, <2>1, <3>1, <3>2 DEF ServeReply, MgHttpReply, Final, Whole, TypeOK
    <3>3. CASE ServeStream(d) /\ ~ServeReply(d)
      BY <1>2, <1>4, <2>1, <3>1, <3>3 DEF ServeStream, MgSend, Final, Whole, TypeOK
    <3> QED
      BY <1>8, <3>2, <3>3
  <2> HIDE DEF o
  <2>3. Grew(d, f)
    <3>1. Follows(out[d].wire, f)
      BY <1>2, <2>1 DEF Follows, Whole
    <3>2. f.req = reqs'[d] /\ o.wire = out[d].wire
      BY <1>2, <1>4, <2>1
    <3> DEFINE busy == IF f.kind \in Final THEN FALSE ELSE TRUE
    <3>3. /\ out'[d] = Put(o, f.req, f.kind, f.n, busy)
          /\ f.kind \in Final => busy = FALSE
          /\ f.kind \notin Final => busy = TRUE
      BY <2>2
    <3> HIDE DEF busy
    <3> QED
      BY <1>2, <3>1, <3>2, <3>3, PutGrew
  <2>4. WireInv(d)'
    <3>1. /\ WellFormed(out'[d].wire) /\ out'[d].wire # <<>> /\ Last(out'[d].wire) = f
          /\ Total(out'[d].wire) = Total(out[d].wire) + IF f.kind \in Final THEN 1 ELSE 0
      BY <1>3, <2>3, GrewWire
    <3>2. /\ f.req = reqs'[d]
          /\ f.kind \in Final => out'[d].busy = FALSE
          /\ f.kind \notin Final => out'[d].busy = TRUE
      BY <2>3 DEF Grew
    <3>3. reqs'[d] = Total(out'[d].wire) + IF out'[d].busy THEN 1 ELSE 0
      BY <1>2, <1>3, <3>1, <3>2
    <3>4. OneAnswerer(d)'
      <4>1. CASE f.kind = "reply"
        <5>1. f.kind \in Final /\ ~ctx'[d].on
          BY <1>2, <2>2, <4>1 DEF Final, Whole
        <5> QED
          BY <2>2, <3>1, <3>2, <5>1 DEF OneAnswerer, Done
      <4>2. CASE f.kind = "preamble"
        <5>1. f.kind \notin Final /\ ctx'[d].req = r /\ ctx'[d].n = 0
          BY <2>2, <4>2 DEF Final, Whole
        <5> QED
          BY <1>2, <2>1, <2>2, <3>1, <3>2, <4>2, <5>1 DEF OneAnswerer, Within
      <4> QED
        BY <2>1, <4>1, <4>2
    <3> QED
      BY <2>2, <3>1, <3>3, <3>4 DEF WireInv
  <2>5. Progresses(d)
    BY <1>2, <2>3 DEF Progresses
  <2> QED
    BY <1>7, <2>4, <2>5 DEF ExchangeStep
<1>9. CASE ServeSilent(d) \/ ServeAsync(d)
  <2>1. out'[d] = o /\ ctx'[d] = ctx[d]
    BY <1>9 DEF ServeSilent, ServeAsync, TypeOK
  <2>2. /\ out'[d].wire = out[d].wire /\ out'[d].busy = TRUE
    BY <1>4, <2>1
  <2>3. ASSUME NEW i \in responses'[d] \union streams'[d] PROVE Pending(d, i)'
    <3>1. i = counter /\ ServeAsync(d)
      BY <1>2, <1>9, <2>3 DEF ServeSilent, ServeAsync, Dispatch, TypeOK
    <3>2. pc[i] = "none" /\ i \in Ids
      BY <3>1, IdsType DEF ServeAsync, MapInv, WakeupInv, Remembered
    <3>3. sState'[i] = "start" /\ sData'[i].n = 0
      BY <1>2, <3>2, OfRequest DEF MapInv, TurnTaking, Blank
    <3>4. ord'[i] = r /\ pc'[i] = "begin"
      BY <3>1 DEF ServeAsync, TypeOK
    <3> QED
      BY <1>2, <2>2, <3>3, <3>4 DEF Pending
  <2>4. WireInv(d)'
    BY <1>2, <1>3, <2>1, <2>2, <2>3 DEF WireInv, OneAnswerer
  <2>5. Progresses(d)
    BY <1>2, <2>2 DEF Progresses
  <2> QED
    BY <1>7, <2>4, <2>5 DEF ExchangeStep
<1> QED
  BY <1>8, <1>9 DEF HttpMessage

\* The second step of a handler sends the next frame of the one answer under way.
LEMMA WireFinish ==
  ASSUME TypeOK, MapInv, PendingUnanswered, Numbered, 0 \notin ChunkSizes,
         \A c \in Conns : WireInv(c), Finish
  PROVE  (\A c \in Conns : WireInv(c)') /\ ExchangeStep
<1>1. PICK i \in Ids, d \in Conns : i = loop.id /\ d = owner[i]
  BY DEF TypeOK, Loop
<1>2. /\ UNCHANGED <<phase, reqs, owner, ord, ctx>>
      /\ \A j \in Ids : pc'[j] = "ready" => pc[j] = "ready"
  BY DEF Finish, FinishReply, FinishData, FinishClose, Notify, workerVars
<1>3. /\ i \in responses[d] \union streams[d]
      /\ loop.op = "reply" => i \in responses[d]
      /\ loop.op = "stream" => i \in streams[d] /\ sState[i] = loop.seen /\ pc[i] # "ready"
  BY <1>1 DEF Finish, FinishReply, FinishData, FinishClose, MapInv, WakeupInv, LoopHasTarget,
              LoadedStateFresh
<1>4. /\ Pending(d, i) /\ out[d].busy /\ ~ctx[d].on /\ phase[d] = "open"
      /\ reqs[d] \in Nat /\ reqs[d] > 0 /\ ord[i] = reqs[d]
      /\ responses[d] \intersect streams[d] = {}
  <2>1. Pending(d, i) /\ OneAnswerer(d) /\ phase[d] = "open" /\ responses[d] \intersect streams[d] = {}
    BY <1>3 DEF WireInv, PendingUnanswered
  <2>2. ord[i] \in 1..reqs[d] /\ reqs[d] \in Nat
    BY <1>1, <1>3, EntryRequest DEF MapInv, Numbered, TypeOK
  <2> QED
    BY <1>3, <2>1, <2>2 DEF OneAnswerer, Pending
<1>5. \A j \in responses[d] \union streams[d] : j = i
  <2> SUFFICES ASSUME NEW j \in responses[d] \union streams[d] PROVE j = i
    OBVIOUS
  <2>1. ord[j] = ord[i]
    BY <1>3 DEF WireInv, Pending
  <2> QED
    BY <1>3, <2>1, EntryRequest DEF MapInv, Numbered
<1>6. ASSUME NEW c \in Conns, c # d PROVE WireInv(c)' /\ Still(c)
  <2>1. out'[c] = out[c] /\ responses'[c] = responses[c] /\ streams'[c] = streams[c]
    BY <1>1, <1>6 DEF Finish, FinishReply, FinishData, FinishClose, TypeOK
  <2>2. ASSUME NEW j \in responses[c] \union streams[c]
        PROVE  j \in Ids /\ sState'[j] = sState[j] /\ sData'[j] = sData[j]
    <3>1. j \in Ids /\ j # i
      BY <1>1, <1>6, EntryRequest DEF MapInv
    <3>2. CASE FinishReply
      BY <3>1, <3>2 DEF FinishReply, streamVars
    <3>3. CASE FinishData
      BY <1>1, <3>1, <3>3 DEF FinishData, TypeOK
    <3>4. CASE FinishClose
      BY <1>1, <3>1, <3>4 DEF FinishClose, TypeOK
    <3> QED
      BY <3>1, <3>2, <3>3, <3>4 DEF Finish
  <2> QED
    BY <1>2, <2>1, <2>2, WireUntouched DEF Still
<1>7. out[d] \in Outlet /\ sData[i].n \in Nat
  BY DEF TypeOK, Data
<1>8. CASE FinishReply
  <2> DEFINE k == IF rPayload[i] THEN "reply" ELSE "invalid"
  <2>1. k \in Whole /\ k \in FrameKind /\ k \in Final /\ 0 \in Nat
    BY DEF Whole, FrameKind, Final
  <2>2. /\ out'[d] = Put(out[d], ord[i], k, 0, FALSE)
        /\ responses'[d] = responses[d] \ {i} /\ streams' = streams
    BY <1>1, <1>8 DEF FinishReply, MgHttpReply, TypeOK
  <2> HIDE DEF k
  <2>3. PICK f \in Frame : f.req = reqs[d] /\ f.kind = k /\ f.n = 0
    BY <1>4, <2>1, FrameExists
  <2>4. Follows(out[d].wire, f)
    BY <1>3, <1>4, <1>8, <2>1, <2>3 DEF Follows, Pending, FinishReply
  <2>5. Grew(d, f)
    BY <1>2, <1>4, <2>1, <2>2, <2>3, <2>4, PutGrew
  <2>6. responses'[d] \union streams'[d] = {}
    BY <1>3, <1>4, <1>5, <1>8, <2>2 DEF FinishReply
  <2>7. WireInv(d)' /\ Progresses(d)
    BY <1>2, <1>4, <2>5, <2>6, GrewInv
  <2> QED
    BY <1>6, <2>7 DEF ExchangeStep
<1>9. CASE FinishClose
  <2>1. /\ out'[d] = Put(out[d], ord[i], "last", sData[i].n, FALSE)
        /\ streams'[d] = streams[d] \ {i} /\ responses' = responses
        /\ sState[i] = "close" /\ i \in streams[d]
    BY <1>1, <1>3, <1>9 DEF FinishClose, MgHttpWriteChunk, TypeOK
  <2>2. PICK f \in Frame : f.req = reqs[d] /\ f.kind = "last" /\ f.n = sData[i].n
    BY <1>4, <1>7, FrameExists DEF FrameKind
  <2>3. Follows(out[d].wire, f) /\ f.kind \in Final
    BY <1>4, <2>1, <2>2 DEF Follows, Pending, Final
  <2>4. Grew(d, f)
    <3>1. out'[d] = Put(out[d], f.req, f.kind, f.n, FALSE)
      BY <1>4, <2>1, <2>2
    <3>2. f.req = reqs'[d] /\ phase[d] = "open" /\ phase'[d] = "open"
      BY <1>2, <1>4, <2>2
    <3> QED
      BY <2>3, <3>1, <3>2, PutGrew
  <2>5. responses'[d] \union streams'[d] = {}
    BY <1>4, <1>5, <2>1
  <2>6. WireInv(d)' /\ Progresses(d)
    BY <1>2, <1>4, <2>4, <2>5, GrewInv
  <2> QED
    BY <1>6, <2>6 DEF ExchangeStep
<1>10. CASE FinishData
  <2> DEFINE k == IF loop.seen = "start" THEN "preamble" ELSE "chunk"
  <2>1. /\ sState[i] \in {"start", "has_data"} /\ i \in streams[d] /\ i \notin responses[d]
        /\ sState[i] = loop.seen
        /\ sState[i] = "has_data" => sData[i].size # 0
    BY <1>3, <1>4, <1>10 DEF FinishData, MapInv, Sized
  <2>2. k \in FrameKind /\ k \notin Final
    BY DEF FrameKind, Final, Whole
  <2>3. /\ out'[d] = Put(out[d], ord[i], k, sData[i].n, TRUE)
        /\ responses' = responses /\ streams' = streams
        /\ sState'[i] = "flush" /\ sData'[i].n = sData[i].n
    <3>1. out[d].busy = TRUE
      BY <1>4, <1>7 DEF Outlet
    <3> QED
      BY <1>1, <1>10, <2>1, <3>1 DEF FinishData, MgSend, MgHttpWriteChunk, TypeOK
  <2>4. k = "preamble" <=> sState[i] = "start"
    BY <2>1
  <2> HIDE DEF k
  <2>5. PICK f \in Frame : f.req = reqs[d] /\ f.kind = k /\ f.n = sData[i].n
    BY <1>4, <1>7, <2>2, FrameExists
  <2>6. Follows(out[d].wire, f) /\ f.kind \in {"preamble", "chunk"} /\ f.kind \notin Final
    BY <1>4, <2>1, <2>2, <2>4, <2>5 DEF Follows, Pending, Final, FrameKind
  <2>7. Grew(d, f)
    <3>1. out'[d] = Put(out[d], f.req, f.kind, f.n, TRUE)
      BY <1>4, <2>3, <2>5
    <3>2. f.req = reqs'[d] /\ phase[d] = "open" /\ phase'[d] = "open"
      BY <1>2, <1>4, <2>5
    <3> QED
      BY <2>6, <3>1, <3>2, PutGrew
  <2>8. ASSUME NEW j \in responses'[d] \union streams'[d] PROVE Pending(d, j)'
    <3>1. j = i
      BY <1>5, <2>3, <2>8
    <3>2. Last(out'[d].wire) = f /\ out'[d].wire # <<>>
      BY <2>7, GrewWire DEF WireInv
    <3>3. Within(out'[d].wire, reqs'[d], sData'[i].n)
      BY <1>2, <2>3, <2>5, <2>6, <3>2 DEF Within
    <3>4. pc'[i] # "ready" /\ ord'[i] = reqs'[d] /\ i \notin responses'[d]
      BY <1>2, <1>3, <1>4, <1>10, <2>1, <2>3 DEF FinishData
    <3> QED
      BY <2>3, <3>1, <3>3, <3>4 DEF Pending
  <2>9. WireInv(d)' /\ Progresses(d)
    BY <1>2, <1>4, <2>6, <2>7, <2>8, GrewInv
  <2> QED
    BY <1>6, <2>9 DEF ExchangeStep
<1> QED
  BY <1>8, <1>9, <1>10 DEF Finish

\* handle_poll finds one failed response at most: the request being answered.
LEMMA WirePoll ==
  ASSUME TypeOK, MapInv, PendingUnanswered, Numbered, \A c \in Conns : WireInv(c),
         NEW d \in Conns, HandlePoll(d)
  PROVE  (\A c \in Conns : WireInv(c)') /\ ExchangeStep
<1> DEFINE failed == {i \in responses[d] : rState[i] = "failed"}
           N == Cardinality(failed)
<1>1. /\ UNCHANGED <<phase, reqs, ord, ctx, pc, streams, sState, sData>>
      /\ responses' = [responses EXCEPT ![d] = @ \ failed]
      /\ failed # {} /\ phase[d] = "open"
  BY DEF HandlePoll, workerVars, streamVars
<1>2. PICK i \in Ids : i \in failed
  BY <1>1 DEF TypeOK
<1>3. /\ Pending(d, i) /\ out[d].busy /\ ~ctx[d].on
      /\ responses[d] \intersect streams[d] = {}
      /\ i \in responses[d] /\ sState[i] = "start" /\ ord[i] = reqs[d]
  BY <1>2 DEF WireInv, OneAnswerer, Pending, PendingUnanswered
<1>4. reqs[d] \in Nat /\ reqs[d] > 0
  BY <1>3, EntryRequest DEF MapInv, Numbered, TypeOK
<1>5. \A j \in responses[d] \union streams[d] : j = i
  <2> SUFFICES ASSUME NEW j \in responses[d] \union streams[d] PROVE j = i
    OBVIOUS
  <2>1. ord[j] = ord[i]
    BY <1>3 DEF WireInv, Pending
  <2> QED
    BY <1>3, <2>1, EntryRequest DEF MapInv, Numbered
<1>6. failed = {i} /\ N = 1
  <2>1. failed = {i}
    BY <1>2, <1>5
  <2> QED
    BY <2>1, FS_Singleton
<1>7. PICK order \in [1..N -> failed] :
         out' = [out EXCEPT ![d] =
              [busy |-> FALSE, len |-> @.len + N,
               wire |-> @.wire \o
                 [k \in 1..N |-> [req |-> ord[order[k]], kind |-> "error", n |-> 0]]]]
  BY DEF HandlePoll
<1>8. PICK f \in Frame : f.req = reqs[d] /\ f.kind = "error" /\ f.n = 0
  BY <1>4, FrameExists DEF FrameKind, Whole
<1> HIDE DEF failed, N
<1>9. [k \in 1..N |-> [req |-> ord[order[k]], kind |-> "error", n |-> 0]] = <<f>>
  <2>1. order \in [1..1 -> {i}]
    BY <1>6, <1>7
  <2>2. \A k \in 1..1 : [req |-> ord[order[k]], kind |-> "error", n |-> 0] = f
    BY <1>3, <1>8, <2>1 DEF Frame
  <2>3. [k \in 1..1 |-> [req |-> ord[order[k]], kind |-> "error", n |-> 0]] = [k \in 1..1 |-> f]
    BY <2>2
  <2>4. [k \in 1..1 |-> f] = <<f>>
    OBVIOUS
  <2> QED
    BY <1>6, <2>3, <2>4
<1>10. Follows(out[d].wire, f) /\ f.kind \in Final
  BY <1>3, <1>4, <1>8 DEF Follows, Pending, Final, Whole
<1>11. Grew(d, f)
  <2>1. out[d].wire \in Seq(Frame)
    BY DEF TypeOK, Outlet
  <2>2. out[d].wire \o <<f>> = Append(out[d].wire, f)
    BY <2>1, AppendIsConcat
  <2>3. out'[d].wire = Append(out[d].wire, f) /\ out'[d].busy = FALSE
    BY <1>7, <1>9, <2>2 DEF TypeOK
  <2> QED
    BY <1>1, <1>8, <1>10, <2>3 DEF Grew
<1>12. responses'[d] \union streams'[d] = {}
  BY <1>1, <1>3, <1>5, <1>6 DEF TypeOK
<1>13. WireInv(d)' /\ Progresses(d)
  BY <1>1, <1>3, <1>11, <1>12, GrewInv
<1>14. ASSUME NEW c \in Conns, c # d PROVE WireInv(c)' /\ Still(c)
  <2>1. out'[c] = out[c] /\ responses'[c] = responses[c] /\ streams'[c] = streams[c]
    BY <1>1, <1>7, <1>14 DEF TypeOK
  <2> QED
    BY <1>1, <2>1, WireUntouched DEF Still
<1> QED
  BY <1>13, <1>14 DEF ExchangeStep

\* handle_write: the synchronous stream, when there is one, is the one answer
\* under way, and the streams that may go on are flushed ones.
LEMMA WireWrite ==
  ASSUME TypeOK, MapInv, 0 \notin ChunkSizes, \A c \in Conns : WireInv(c),
         NEW d \in Conns, HandleWrite(d)
  PROVE  (\A c \in Conns : WireInv(c)') /\ ExchangeStep
<1> DEFINE x == ctx[d]
<1>1. /\ UNCHANGED <<phase, reqs, ord, sData, responses, streams>>
      /\ phase[d] = "open"
      /\ \A i \in Ids : pc'[i] = "ready" => pc[i] = "ready"
      /\ \A i \in Ids : sState'[i] = sState[i] \/ (sState[i] = "flush" /\ sState'[i] = "empty")
  BY DEF HandleWrite, Notify, PumpAsyncStreams
<1>2. PICK sent \in 1..out[d].len : \E pumped \in PumpStream(d, Drain(out[d], sent)) :
         /\ out' = [out EXCEPT ![d] = pumped.out]
         /\ ctx' = [ctx EXCEPT ![d] = pumped.ctx]
  BY DEF HandleWrite
<1> DEFINE o == Drain(out[d], sent)
<1>3. PICK pumped \in PumpStream(d, o) :
         /\ out' = [out EXCEPT ![d] = pumped.out]
         /\ ctx' = [ctx EXCEPT ![d] = pumped.ctx]
  BY <1>2
<1>4. o.wire = out[d].wire /\ o.busy = out[d].busy
  BY DEF Drain
<1>5. ASSUME NEW c \in Conns, c # d PROVE WireInv(c)' /\ Still(c)
  <2>1. out'[c] = out[c] /\ ctx'[c] = ctx[c]
    BY <1>3, <1>5 DEF TypeOK
  <2>2. \A i \in responses[c] \union streams[c] : i \in Ids
    BY DEF TypeOK
  <2> QED
    BY <1>1, <2>1, <2>2, WireKept DEF Still
<1>6. out'[d] = pumped.out /\ ctx'[d] = pumped.ctx
  BY <1>3 DEF TypeOK
<1> HIDE DEF o
<1>7. CASE pumped = [out |-> o, ctx |-> x]
  <2>1. out'[d].wire = out[d].wire /\ out'[d].busy = out[d].busy /\ ctx'[d] = ctx[d]
    BY <1>4, <1>6, <1>7
  <2>2. \A i \in responses[d] \union streams[d] : i \in Ids
    BY DEF TypeOK
  <2>3. WireInv(d)' /\ Still(d)
    BY <1>1, <2>1, <2>2, WireKept DEF Still
  <2> QED
    BY <1>5, <2>3 DEF ExchangeStep
<1>8. CASE pumped # [out |-> o, ctx |-> x]
  <2>1. /\ x.on
        /\ \/ pumped = [out |-> MgHttpWriteChunk(o, x.req, x.n + 1, 0), ctx |-> NoContext]
           \/ \E size \in ChunkSizes :
                 pumped = [out |-> MgHttpWriteChunk(o, x.req, x.n + 1, size),
                           ctx |-> [on |-> TRUE, req |-> x.req, n |-> x.n + 1]]
    BY <1>8 DEF PumpStream
  <2>2. /\ responses[d] = {} /\ streams[d] = {} /\ out[d].busy /\ x.req = reqs[d]
        /\ Within(out[d].wire, reqs[d], x.n) /\ x.n \in Nat /\ reqs[d] \in Nat
    BY <2>1 DEF WireInv, OneAnswerer, TypeOK, Context
  <2>3. out[d].busy = TRUE
    BY <2>2, TotalNat
  <2> DEFINE next == x.n + 1
  <2>4. next \in Nat /\ reqs[d] \in Nat /\ "last" \in FrameKind /\ "chunk" \in FrameKind
    BY <2>2 DEF FrameKind
  <2> HIDE DEF next
  <2>5. CASE pumped = [out |-> MgHttpWriteChunk(o, x.req, x.n + 1, 0), ctx |-> NoContext]
    <3>1. PICK f \in Frame : f.req = reqs[d] /\ f.kind = "last" /\ f.n = next
      BY <2>4, FrameExists
    <3>2. f.req = reqs[d] /\ f.kind = "last" /\ f.n = x.n + 1
      BY <3>1 DEF next
    <3>3. Follows(out[d].wire, f) /\ f.kind \in Final
      BY <2>2, <3>2 DEF Follows, Final
    <3>4. out'[d] = Put(o, f.req, f.kind, f.n, FALSE) /\ ~ctx'[d].on
      BY <1>6, <2>2, <2>5, <3>2 DEF MgHttpWriteChunk, NoContext
    <3>5. Grew(d, f)
      BY <1>1, <1>4, <3>2, <3>3, <3>4, PutGrew
    <3>6. WireInv(d)' /\ Progresses(d)
      BY <1>1, <2>2, <3>4, <3>5, GrewInv
    <3> QED
      BY <1>5, <3>6 DEF ExchangeStep
  <2>6. CASE \E size \in ChunkSizes :
                pumped = [out |-> MgHttpWriteChunk(o, x.req, x.n + 1, size),
                          ctx |-> [on |-> TRUE, req |-> x.req, n |-> x.n + 1]]
    <3>1. PICK f \in Frame : f.req = reqs[d] /\ f.kind = "chunk" /\ f.n = next
      BY <2>4, FrameExists
    <3>2. f.req = reqs[d] /\ f.kind = "chunk" /\ f.n = x.n + 1
      BY <3>1 DEF next
    <3>3. Follows(out[d].wire, f) /\ f.kind \notin Final
      BY <2>2, <3>2 DEF Follows, Final, Whole
    <3>4. out'[d] = Put(o, f.req, f.kind, f.n, TRUE) /\ ctx'[d].req = reqs[d] /\ ctx'[d].n = f.n
      <4>1. PICK size \in ChunkSizes :
                pumped = [out |-> MgHttpWriteChunk(o, x.req, x.n + 1, size),
                          ctx |-> [on |-> TRUE, req |-> x.req, n |-> x.n + 1]]
        BY <2>6
      <4>2. MgHttpWriteChunk(o, x.req, x.n + 1, size) = Put(o, x.req, "chunk", x.n + 1, o.busy)
        BY <4>1 DEF MgHttpWriteChunk
      <4>3. o.busy = TRUE
        BY <1>4, <2>3
      <4>4. out'[d] = Put(o, x.req, "chunk", x.n + 1, TRUE)
        BY <1>6, <4>1, <4>2, <4>3
      <4>5. ctx'[d].req = x.req /\ ctx'[d].n = x.n + 1
        BY <1>6, <4>1
      <4> QED
        BY <2>2, <3>2, <4>4, <4>5
    <3>5. Grew(d, f)
      BY <1>1, <1>4, <3>2, <3>3, <3>4, PutGrew
    <3>6. WireInv(d)' /\ Progresses(d)
      BY <1>1, <2>2, <3>3, <3>4, <3>5, GrewInv
    <3> QED
      BY <1>5, <3>6 DEF ExchangeStep
  <2> QED
    BY <2>1, <2>5, <2>6
<1> QED
  BY <1>7, <1>8

\* What the wires rest on.
EveryWire == Blank /\ \A c \in Conns : WireInv(c)

LEMMA EveryWireStep ==
  ASSUME ~Pipelined, 0 \notin ChunkSizes, TypeOK, MapInv, PendingUnanswered, Numbered,
         EveryWire, [Next]_vars
  PROVE  EveryWire' /\ ExchangeStep
<1>1. StepShape
  BY EveryStepShape
<1>2. Blank'
  BY <1>1, BlankStep DEF EveryWire
<1>3. (\A c \in Conns : WireInv(c)') /\ ExchangeStep
  <2> USE <1>1 DEF EveryWire
  <2>1. CASE \E c \in Conns : Accept(c) \/ HandleClose(c)
    BY <2>1, WireConnection
  <2>2. CASE \E c \in Conns : HttpMessage(c)
    BY <2>2, WireServe
  <2>3. CASE \E c \in Conns : HandlePoll(c) \/ HandleWrite(c)
    BY <2>3, WirePoll, WireWrite
  <2>4. CASE HandleWakeup \/ Finish
    BY <2>4, WireWakeup, WireFinish
  <2>5. CASE \E i \in Ids : Worker(i)
    BY <2>5, WireWorker
  <2>6. CASE Stop \/ Release \/ UNCHANGED vars
    <3>1. UNCHANGED <<phase, out, reqs, ctx, ord, responses, streams, sState, sData, pc>>
      BY <2>6 DEF Stop, Release, vars, mongooseVars, streamVars, workerVars, endpointVars
    <3>2. ASSUME NEW c \in Conns PROVE WireInv(c)'
      BY <3>1, WireUntouched
    <3>3. ExchangeStep
      BY <3>1, MongooseAssumption DEF ExchangeStep, Still
    <3> QED
      BY <3>2, <3>3
  <2> QED
    BY <2>1, <2>2, <2>3, <2>4, <2>5, <2>6 DEF Next
<1> QED
  BY <1>2, <1>3 DEF EveryWire

LEMMA InitEveryWire == Init => EveryWire
<1> SUFFICES ASSUME Init PROVE EveryWire
  OBVIOUS
<1>1. Blank
  BY DEF Init, Blank, NoData
<1>2. ASSUME NEW c \in Conns PROVE WireInv(c)
  <2>1. /\ out[c].wire = <<>> /\ out[c].busy = FALSE /\ reqs[c] = 0
        /\ responses[c] = {} /\ streams[c] = {} /\ ~ctx[c].on
    BY DEF Init, MongooseInit, NoContext
  <2>2. DOMAIN out[c].wire = {}
    BY <2>1
  <2>3. WellFormed(out[c].wire)
    BY <2>2 DEF WellFormed
  <2>4. Total(out[c].wire) = 0
    BY <2>2, FS_EmptySet DEF Total, Finals
  <2> QED
    BY <2>1, <2>3, <2>4 DEF WireInv, OneAnswerer, Done
<1> QED
  BY <1>1, <1>2 DEF EveryWire

\* EveryWire is an invariant when mongoose dispatches one request at a time and
\* no producer sends an empty chunk.
LEMMA EveryWireInvariant ==
  ASSUME ~Pipelined, 0 \notin ChunkSizes
  PROVE  Spec => []EveryWire
<1>1. TypeOK /\ MapInv /\ PendingUnanswered /\ Numbered /\ EveryWire /\ [Next]_vars => EveryWire'
  BY EveryWireStep
<1> QED
  BY <1>1, InitEveryWire, TypeCorrect, MapInvariant, NumberedInvariant, EntriesAreUnanswered,
     PTL DEF Spec

\* A client can parse what it is sent: chunks continue the response that has
\* begun, in order and without a gap, and each answer is to a later request.
THEOREM WiresAreWellFormed ==
  ASSUME ~Pipelined, 0 \notin ChunkSizes
  PROVE  Spec => []WireWellFormed
<1>1. EveryWire => WireWellFormed
  BY DEF EveryWire, WireInv, WireWellFormed
<1> QED
  BY <1>1, EveryWireInvariant, PTL

-----------------------------------------------------------------------------
(***************************************************************************)
(* An answer is completed once: the only way to a second terminating chunk *)
(* is an empty one.                                                        *)
(***************************************************************************)
\* The last frame is of the latest request, and follows no completing frame of it.
Ordered(wire) ==
    \A p \in DOMAIN wire :
       /\ wire[p].req <= Last(wire).req
       /\ wire[p].kind \in Final => p = Len(wire) \/ wire[p].req < Last(wire).req

Once(wire) ==
    \A p, q \in DOMAIN wire :
       /\ wire[p].kind \in Final /\ wire[q].kind \in Final
       /\ wire[p].req = wire[q].req
       => p = q

\* What follows is of a later request, or goes on with an answer under way.
LEMMA OnceGrows ==
  ASSUME NEW w \in Seq(Frame), NEW f \in Frame, Ordered(w), Once(w), Follows(w, f)
  PROVE  Ordered(Append(w, f)) /\ Once(Append(w, f))
<1> DEFINE v == Append(w, f)
<1>1. /\ v \in Seq(Frame) /\ Len(v) = Len(w) + 1 /\ Len(w) \in Nat
      /\ DOMAIN w = 1..Len(w) /\ DOMAIN v = 1..(Len(w) + 1)
      /\ v[Len(w) + 1] = f /\ \A p \in 1..Len(w) : v[p] = w[p] /\ w[p] \in Frame
  BY AppendProperties
<1>2. Last(v) = f
  BY OneMoreFrame
<1> HIDE DEF v
<1>3. f.req \in Nat /\ \A p \in 1..Len(w) : w[p].req \in Nat
  BY <1>1 DEF Frame
<1>4. ASSUME NEW p \in 1..Len(w)
      PROVE  w[p].req <= f.req /\ (w[p].kind \in Final => w[p].req < f.req)
  <2>1. /\ w # <<>> /\ Len(w) \in 1..Len(w) /\ Last(w).req \in Nat
        /\ w[p].req \in Nat /\ w[p].req <= Last(w).req
        /\ w[p].kind \in Final => p = Len(w) \/ w[p].req < Last(w).req
    <3>1. 1 <= Len(w) /\ Len(w) \in 1..Len(w)
      BY <1>1, <1>4
    <3>2. w # <<>>
      BY <1>1, <1>4
    <3>3. w[Len(w)].req \in Nat /\ w[p].req \in Nat
      BY <1>3, <1>4, <3>1
    <3> QED
      BY <1>1, <1>4, <3>1, <3>2, <3>3 DEF Ordered, Last
  <2>2. CASE Before(w, f.req)
    <3>1. Last(w).req < f.req
      BY <2>1, <2>2 DEF Before
    <3> QED
      BY <1>3, <2>1, <3>1
  <2>3. CASE \E n \in Nat : Within(w, f.req, n)
    <3>1. Last(w).req = f.req /\ w[Len(w)].kind \notin Final
      BY <2>3 DEF Within, Last, Final, Whole
    <3> QED
      BY <2>1, <3>1
  <2> QED
    BY <2>2, <2>3 DEF Follows
<1>5. Ordered(v)
  <2> SUFFICES ASSUME NEW p \in 1..(Len(w) + 1)
               PROVE  v[p].req <= f.req /\ (v[p].kind \in Final => p = Len(v) \/ v[p].req < f.req)
    BY <1>1, <1>2 DEF Ordered
  <2>1. CASE p = Len(w) + 1
    BY <1>1, <1>3, <2>1
  <2>2. CASE p \in 1..Len(w)
    BY <1>1, <1>4, <2>2
  <2> QED
    BY <1>1, <2>1, <2>2
<1>6. Once(v)
  <2> SUFFICES ASSUME NEW p \in 1..(Len(w) + 1), NEW q \in 1..(Len(w) + 1),
                      v[p].kind \in Final, v[q].kind \in Final, v[p].req = v[q].req
               PROVE  p = q
    BY <1>1 DEF Once
  <2>1. CASE p \in 1..Len(w) /\ q \in 1..Len(w)
    BY <1>1, <2>1 DEF Once
  <2>2. ASSUME NEW a \in 1..Len(w), v[a].kind \in Final
        PROVE  v[a].req # f.req
    BY <1>1, <1>3, <1>4, <2>2
  <2> QED
    BY <1>1, <2>1, <2>2
<1> QED
  BY <1>5, <1>6 DEF v

\* One response has one terminating chunk, as long as no producer sends an empty
\* chunk and requests come one at a time. (pump_stream, handle_stream)
THEOREM TerminatedOnce ==
  ASSUME ~Pipelined, 0 \notin ChunkSizes
  PROVE  Spec => []OneTermination
<1> DEFINE Base == TypeOK /\ MapInv /\ PendingUnanswered /\ Numbered /\ EveryWire
           EveryOnce == \A c \in Conns : Ordered(out[c].wire) /\ Once(out[c].wire)
<1>1. Init => EveryOnce
  BY DEF Init, MongooseInit, Ordered, Once
<1>2. Base /\ EveryOnce /\ [Next]_vars => EveryOnce'
  <2> SUFFICES ASSUME Base, EveryOnce, [Next]_vars, NEW c \in Conns
               PROVE  Ordered(out'[c].wire) /\ Once(out'[c].wire)
    OBVIOUS
  <2>1. ExchangeStep /\ TypeOK
    BY EveryWireStep
  <2>2. out'[c].wire = out[c].wire \/ \E f : Grew(c, f)
    BY <2>1 DEF ExchangeStep, Still, Progresses
  <2>3. out[c].wire \in Seq(Frame)
    BY <2>1, TotalNat
  <2>4. CASE \E f : Grew(c, f)
    <3>1. PICK f : Grew(c, f)
      BY <2>4
    <3>2. f \in Frame /\ Follows(out[c].wire, f) /\ out'[c].wire = Append(out[c].wire, f)
      BY <3>1 DEF Grew
    <3> QED
      BY <2>3, <3>2, OnceGrows
  <2> QED
    BY <2>2, <2>4
<1>3. EveryOnce => OneTermination
  BY DEF Once, OneTermination, Final
<1>4. Spec => []Base
  BY TypeCorrect, MapInvariant, NumberedInvariant, EntriesAreUnanswered, EveryWireInvariant, PTL
<1> HIDE DEF Base, EveryOnce
<1> QED
  BY <1>1, <1>2, <1>3, <1>4, PTL DEF Spec

-----------------------------------------------------------------------------
(***************************************************************************)
(* The refinement: every step, seen through what is on the wires, is a     *)
(* step of Exchange or changes nothing there.                              *)
(***************************************************************************)
\* What a client saw last, and whether its answer is complete.
LEMMA LatestSeen ==
  ASSUME NEW w \in Seq(Frame)
  PROVE  /\ w # <<>> => Latest(w) = Seen(Last(w))
         /\ Done(w) => Latest(w).kind # "part"
         /\ \A r, n : Within(w, r, n) => Latest(w).kind = "part" /\ Latest(w).n = n
<1>1. w # <<>> => Latest(w) = Seen(Last(w))
  BY DEF Latest, Last
<1>2. Done(w) => Latest(w).kind # "part"
  BY <1>1 DEF Done, Final, Latest, Seen
<1>3. ASSUME NEW r, NEW n, Within(w, r, n) PROVE Latest(w).kind = "part" /\ Latest(w).n = n
  <2>1. w # <<>> /\ Last(w).kind \notin Final /\ Last(w).n = n
    BY <1>3 DEF Within, Final, Whole
  <2> QED
    BY <1>1, <2>1 DEF Seen, Final
<1> QED
  BY <1>1, <1>2, <1>3

\* A frame that starts an answer, or goes on with one, in the words of Exchange.
LEMMA SeenFrame ==
  ASSUME NEW f \in Frame
  PROVE  /\ f.kind \in Whole /\ f.n = 0 => Seen(f) = Promise!Whole(f.req)
         /\ f.kind \in {"preamble", "chunk"} => Seen(f) = Promise!Part(f.req, f.n)
         /\ f.kind = "last" => Seen(f) = Promise!End(f.req, f.n)
  BY DEF Seen, Whole, Promise!Whole, Promise!Part, Promise!End

Totals == [c \in Conns |-> Total(out[c].wire)]
Latests == [c \in Conns |-> Latest(out[c].wire)]

\* What one connection does, as a step of the functions that Exchange speaks of.
LEMMA OneConnection ==
  ASSUME TypeOK, TypeOK', NEW d \in Conns, \A c \in Conns : c # d => Still(c)
  PROVE  /\ phase' = [phase EXCEPT ![d] = phase'[d]]
         /\ reqs' = [reqs EXCEPT ![d] = reqs'[d]]
         /\ Totals' = [Totals EXCEPT ![d] = Total(out'[d].wire)]
         /\ Latests' = [Latests EXCEPT ![d] = Latest(out'[d].wire)]
<1>1. \A c \in Conns : c # d => /\ phase'[c] = phase[c] /\ reqs'[c] = reqs[c]
                                /\ out'[c].wire = out[c].wire
  BY DEF Still
<1>2. phase' = [phase EXCEPT ![d] = phase'[d]]
  BY <1>1 DEF TypeOK
<1>3. reqs' = [reqs EXCEPT ![d] = reqs'[d]]
  BY <1>1 DEF TypeOK
<1>4. Totals' = [Totals EXCEPT ![d] = Total(out'[d].wire)]
  BY <1>1 DEF Totals
<1>5. Latests' = [Latests EXCEPT ![d] = Latest(out'[d].wire)]
  BY <1>1 DEF Latests
<1> QED
  BY <1>2, <1>3, <1>4, <1>5

\* A step that sends nothing changes nothing that is read off the wires.
LEMMA SameWires ==
  ASSUME NEW d \in Conns, \A c \in Conns : c # d => Still(c), out'[d].wire = out[d].wire
  PROVE  Totals' = Totals /\ Latests' = Latests
<1>1. \A c \in Conns : out'[c].wire = out[c].wire
  BY DEF Still
<1>2. Totals' = Totals
  BY <1>1 DEF Totals
<1>3. Latests' = Latests
  BY <1>1 DEF Latests
<1> QED
  BY <1>2, <1>3

\* The connection whose wire a step leaves alone.
LEMMA ConnectionPromise ==
  ASSUME TypeOK, TypeOK', NEW d \in Conns, \A c \in Conns : c # d => Still(c),
         UNCHANGED <<reqs[d], out[d].wire>>,
         \/ phase'[d] = phase[d]
         \/ phase[d] = "idle" /\ phase'[d] = "open"
         \/ phase[d] = "open" /\ phase'[d] = "closed"
  PROVE  [Promise!Next]_(Promise!vars)
<1>1. /\ phase' = [phase EXCEPT ![d] = phase'[d]]
      /\ reqs' = reqs /\ Totals' = Totals /\ Latests' = Latests
  <2>1. phase' = [phase EXCEPT ![d] = phase'[d]] /\ reqs' = [reqs EXCEPT ![d] = reqs'[d]]
    BY OneConnection
  <2>2. reqs' = reqs
    BY <2>1 DEF TypeOK
  <2> QED
    BY <2>1, <2>2, SameWires
<1>2. CASE phase'[d] = phase[d]
  <2>1. phase' = phase
    BY <1>1, <1>2 DEF TypeOK
  <2> QED
    BY <1>1, <2>1 DEF Promise!vars, Totals, Latests, Total
<1>3. CASE phase[d] = "idle" /\ phase'[d] = "open"
  <2>1. Promise!Connect(d)
    BY <1>1, <1>3 DEF Promise!Connect, Totals, Latests, Total
  <2> QED
    BY <2>1 DEF Promise!Next
<1>4. CASE phase[d] = "open" /\ phase'[d] = "closed"
  <2>1. Promise!Leave(d)
    BY <1>1, <1>4 DEF Promise!Leave, Totals, Latests, Total
  <2> QED
    BY <2>1 DEF Promise!Next
<1> QED
  BY <1>2, <1>3, <1>4

\* The connection on which a request is received, or answered further.
LEMMA AnswerPromise ==
  ASSUME TypeOK, TypeOK', NEW d \in Conns, \A c \in Conns : c # d => Still(c),
         WireInv(d), phase[d] = "open", phase'[d] = "open", NEW f, Grew(d, f),
         \/ ~out[d].busy /\ reqs'[d] = reqs[d] + 1
         \/ out[d].busy /\ reqs'[d] = reqs[d]
  PROVE  Promise!Next
<1> DEFINE w == out[d].wire
           sent == Seen(f)
           done == IF f.kind \in Final THEN Total(w) + 1 ELSE Total(w)
<1>1. /\ phase' = phase
      /\ reqs' = [reqs EXCEPT ![d] = reqs'[d]]
      /\ Totals' = [Totals EXCEPT ![d] = done]
      /\ Latests' = [Latests EXCEPT ![d] = sent]
  <2>1. /\ phase' = [phase EXCEPT ![d] = phase'[d]]
        /\ reqs' = [reqs EXCEPT ![d] = reqs'[d]]
        /\ Totals' = [Totals EXCEPT ![d] = Total(out'[d].wire)]
        /\ Latests' = [Latests EXCEPT ![d] = Latest(out'[d].wire)]
    BY OneConnection
  <2>2. /\ out'[d].wire # <<>> /\ Last(out'[d].wire) = f
        /\ Total(out'[d].wire) = Total(w) + IF f.kind \in Final THEN 1 ELSE 0
        /\ Total(w) \in Nat
    BY GrewWire DEF WireInv
  <2>3. Total(out'[d].wire) = done
    BY <2>2
  <2>4. out'[d].wire \in Seq(Frame)
    BY DEF TypeOK, Outlet
  <2>5. Latest(out'[d].wire) = sent
    BY <2>2, <2>4, LatestSeen
  <2>6. phase' = phase
    BY <2>1 DEF TypeOK
  <2> QED
    BY <2>1, <2>3, <2>5, <2>6
<1>2. /\ w \in Seq(Frame) /\ Total(w) \in Nat /\ reqs[d] \in Nat
      /\ f \in Frame /\ Follows(w, f) /\ f.req = reqs'[d]
  BY TotalNat DEF TypeOK, Grew
<1>3. /\ ~out[d].busy => Total(w) = reqs[d] /\ Done(w)
      /\ out[d].busy => Total(w) + 1 = reqs[d]
  BY <1>2 DEF WireInv, OneAnswerer
<1>4. /\ Totals[d] = Total(w) /\ Latests[d] = Latest(w)
  BY DEF Totals, Latests
<1> HIDE DEF w, sent, done
<1>5. CASE f.kind \in Whole \union {"preamble"}
  <2>1. f.n = 0 /\ Done(w)
    BY <1>2, <1>5 DEF Follows, Before, Whole
  <2>2. Latest(w).kind # "part"
    BY <1>2, <2>1, LatestSeen
  <2>3. /\ f.kind \in Whole => sent = Promise!Whole(reqs'[d]) /\ done = Total(w) + 1
        /\ f.kind = "preamble" => sent = Promise!Part(reqs'[d], 0) /\ done = Total(w)
    BY <1>2, <2>1, SeenFrame DEF sent, done, Final, Whole
  <2>4. Promise!Answer(d, reqs'[d])
    <3>1. CASE f.kind \in Whole
      <4>1. Totals' = [Totals EXCEPT ![d] = Totals[d] + 1]
        BY <1>1, <1>4, <2>3, <3>1
      <4>2. Latests' = [Latests EXCEPT ![d] = Promise!Whole(reqs'[d])]
        BY <1>1, <2>3, <3>1
      <4> QED
        BY <4>1, <4>2 DEF Promise!Answer, Promise!Send, Promise!Complete, Totals, Latests, Total
    <3>2. CASE f.kind = "preamble"
      <4>1. Totals' = Totals
        BY <1>1, <1>4, <2>3, <3>2 DEF Totals
      <4>2. Latests' = [Latests EXCEPT ![d] = Promise!Part(reqs'[d], 0)]
        BY <1>1, <2>3, <3>2
      <4> QED
        BY <4>1, <4>2 DEF Promise!Answer, Promise!Send, Promise!Complete, Totals, Latests, Total
    <3> QED
      BY <1>5, <3>1, <3>2
  <2>5. CASE ~out[d].busy /\ reqs'[d] = reqs[d] + 1
    <3>1. Totals[d] = reqs[d] /\ Latests[d].kind # "part" /\ reqs' = [reqs EXCEPT ![d] = reqs[d] + 1]
      BY <1>1, <1>3, <1>4, <2>2, <2>5
    <3>2. Promise!Ask(d)
      BY <1>1, <2>4, <2>5, <3>1 DEF Promise!Ask, Totals, Latests, Total
    <3> QED
      BY <3>2 DEF Promise!Next
  <2>6. CASE out[d].busy /\ reqs'[d] = reqs[d]
    <3>1. Totals[d] + 1 = reqs[d] /\ Latests[d].kind # "part" /\ reqs' = reqs
      BY <1>1, <1>3, <1>4, <2>2, <2>6 DEF TypeOK
    <3>2. Promise!AnswerLater(d)
      BY <1>1, <2>4, <2>6, <3>1 DEF Promise!AnswerLater, Totals, Latests, Total
    <3> QED
      BY <3>2 DEF Promise!Next
  <2> QED
    BY <2>5, <2>6
<1>6. CASE f.kind \in {"chunk", "last"}
  <2>1. PICK n \in Nat : Within(w, f.req, n) /\ f.n = n + 1
    BY <1>2, <1>6 DEF Follows, Whole
  <2>2. Latests[d].kind = "part" /\ Latests[d].n = n
    BY <1>2, <1>4, <2>1, LatestSeen
  <2>3. out[d].busy /\ reqs'[d] = reqs[d]
    <3>1. ~Done(w)
      BY <2>1 DEF Within, Done, Final, Whole
    <3> QED
      BY <1>3, <3>1
  <2>4. reqs' = reqs
    BY <1>1, <2>3 DEF TypeOK
  <2>5. CASE f.kind = "chunk"
    <3>1. Latests' = [Latests EXCEPT ![d] = Promise!Part(reqs[d], Latests[d].n + 1)]
      BY <1>1, <1>2, <2>1, <2>2, <2>3, <2>5, SeenFrame DEF sent
    <3>2. Totals' = Totals
      BY <1>1, <1>4, <2>5 DEF Totals, done, Final, Whole
    <3>3. Promise!Continue(d)
      BY <1>1, <2>2, <2>4, <3>1, <3>2
         DEF Promise!Continue, Promise!Send, Totals, Latests, Total
    <3> QED
      BY <3>3 DEF Promise!Next
  <2>6. CASE f.kind = "last"
    <3>1. Latests' = [Latests EXCEPT ![d] = Promise!End(reqs[d], Latests[d].n + 1)]
      BY <1>1, <1>2, <2>1, <2>2, <2>3, <2>6, SeenFrame DEF sent
    <3>2. Totals' = [Totals EXCEPT ![d] = Totals[d] + 1]
      BY <1>1, <1>4, <2>6 DEF done, Final
    <3>3. Promise!Continue(d)
      BY <1>1, <2>2, <2>4, <3>1, <3>2
         DEF Promise!Continue, Promise!Send, Promise!Complete, Totals, Latests, Total
    <3> QED
      BY <3>3 DEF Promise!Next
  <2> QED
    BY <1>6, <2>5, <2>6
<1> QED
  BY <1>2, <1>5, <1>6 DEF Frame, FrameKind

LEMMA StepKeepsPromise ==
  ASSUME TypeOK, TypeOK', EveryWire, ExchangeStep
  PROVE  [Promise!Next]_(Promise!vars)
<1>1. PICK d \in Conns : /\ Still(d) \/ Progresses(d)
                         /\ \A c \in Conns : c # d => Still(c)
  BY DEF ExchangeStep
<1>2. WireInv(d)
  BY DEF EveryWire
<1>3. CASE Still(d)
  <2>1. UNCHANGED <<phase[d], reqs[d], out[d].wire>>
    BY <1>3 DEF Still
  <2> QED
    BY <1>1, <2>1, ConnectionPromise
<1>4. CASE /\ UNCHANGED <<reqs[d], out[d].wire>>
           /\ \/ phase[d] = "idle" /\ phase'[d] = "open"
              \/ phase[d] = "open" /\ phase'[d] = "closed"
  BY <1>1, <1>4, ConnectionPromise
<1>5. CASE \E f : Grew(d, f) /\ \/ ~out[d].busy /\ reqs'[d] = reqs[d] + 1
                                \/ out[d].busy /\ reqs'[d] = reqs[d]
  <2>1. PICK f : Grew(d, f) /\ \/ ~out[d].busy /\ reqs'[d] = reqs[d] + 1
                               \/ out[d].busy /\ reqs'[d] = reqs[d]
    BY <1>5
  <2>2. phase[d] = "open" /\ phase'[d] = "open"
    BY <2>1 DEF Grew
  <2>3. Promise!Next
    BY <1>1, <1>2, <2>1, <2>2, AnswerPromise
  <2> QED
    BY <2>3
<1>6. CASE /\ phase[d] = "open" /\ phase'[d] = "open" /\ ~out[d].busy
           /\ reqs'[d] = reqs[d] + 1 /\ out'[d].wire = out[d].wire
  <2>1. /\ phase' = phase
        /\ reqs' = [reqs EXCEPT ![d] = reqs[d] + 1]
        /\ Totals' = Totals /\ Latests' = Latests
    <3>1. /\ phase' = [phase EXCEPT ![d] = phase[d]]
          /\ reqs' = [reqs EXCEPT ![d] = reqs[d] + 1]
      BY <1>1, <1>6, OneConnection
    <3>2. phase' = phase
      BY <3>1 DEF TypeOK
    <3> QED
      BY <1>1, <1>6, <3>1, <3>2, SameWires
  <2>2. out[d].wire \in Seq(Frame) /\ Total(out[d].wire) \in Nat
    BY TotalNat
  <2>3. Total(out[d].wire) = reqs[d] /\ Done(out[d].wire)
    BY <1>2, <1>6, <2>2 DEF WireInv, OneAnswerer, TypeOK
  <2>4. Totals[d] = reqs[d] /\ Latests[d].kind # "part"
    BY <2>2, <2>3, LatestSeen DEF Totals, Latests
  <2>5. Promise!Ask(d)
    BY <1>6, <2>1, <2>4 DEF Promise!Ask, Totals, Latests, Total
  <2> QED
    BY <2>5 DEF Promise!Next
<1> QED
  BY <1>1, <1>3, <1>4, <1>5, <1>6 DEF Progresses

\* The endpoint, its workers and its streams do on every connection what a
\* client is promised by Exchange: one answer to each request, in order.
THEOREM PromiseKept ==
  ASSUME ~Pipelined, 0 \notin ChunkSizes
  PROVE  Spec => KeepsPromise
<1>1. Init => Promise!Init
  <2> SUFFICES ASSUME Init PROVE Promise!Init
    OBVIOUS
  <2>1. \A c \in Conns : out[c].wire = <<>> /\ DOMAIN out[c].wire = {}
    BY DEF Init, MongooseInit
  <2>2. \A c \in Conns : Finals(out[c].wire) = {} /\ Latest(out[c].wire) = Promise!Nothing
    BY <2>1 DEF Finals, Latest, Promise!Nothing
  <2>3. \A c \in Conns : Cardinality(Finals(out[c].wire)) = 0
    BY <2>2, FS_EmptySet
  <2> QED
    BY <2>2, <2>3 DEF Promise!Init, Init, MongooseInit
<1>2. TypeOK /\ MapInv /\ PendingUnanswered /\ Numbered /\ EveryWire /\ [Next]_vars => ExchangeStep
  BY EveryWireStep
<1>3. TypeOK /\ TypeOK' /\ EveryWire /\ ExchangeStep => [Promise!Next]_(Promise!vars)
  BY StepKeepsPromise
<1> QED
  BY <1>1, <1>2, <1>3, TypeCorrect, MapInvariant, NumberedInvariant, EntriesAreUnanswered,
     EveryWireInvariant, PTL DEF Spec, KeepsPromise, Promise!Spec

-----------------------------------------------------------------------------
(***************************************************************************)
(* Back-pressure. mark_empty looks at the connection that has just been    *)
(* written and lets the streams of every connection go on: what it         *)
(* promises holds of a server with one connection.                         *)
(***************************************************************************)
\* A producer that was let go, or has sent its chunk since, has room for it.
Room(c) == \A i \in streams[c] : sState[i] \in {"empty", "has_data"} => out[c].len < IoSize

\* A step that adds a chunk to connection c adds it where there is room.
Paced(c) ==
    LET w == out'[c].wire
    IN  Len(w) > Len(out[c].wire) /\ w[Len(w)].kind = "chunk" => out'[c].len - 1 < IoSize

\* The connection has no stream, and what is sent on it is not a chunk.
LEMMA NoChunkSent ==
  ASSUME TypeOK, NEW c \in Conns, streams'[c] = {}, NEW o, o.wire = out[c].wire,
         NEW req, NEW kind, NEW n, NEW busy, kind # "chunk", out'[c] = Put(o, req, kind, n, busy)
  PROVE  Room(c)' /\ Paced(c)
<1>1. out[c].wire \in Seq(Frame)
  BY DEF TypeOK, Outlet
<1>2. out'[c].wire = Append(out[c].wire, [req |-> req, kind |-> kind, n |-> n])
  BY DEF Put
<1>3. out'[c].wire[Len(out'[c].wire)].kind = kind
  BY <1>1, <1>2
<1> QED
  BY <1>3 DEF Room, Paced

\* A chunk is sent where there is room, by the one stream of the connection.
LEMMA ChunkSent ==
  ASSUME TypeOK, NEW c \in Conns, NEW o, o.len \in Nat, o.len < IoSize,
         NEW req, NEW kind, NEW n, NEW busy, out'[c] = Put(o, req, kind, n, busy),
         \A i \in streams'[c] : sState'[i] = "flush"
  PROVE  Room(c)' /\ Paced(c)
<1>1. out'[c].len = o.len + 1
  BY DEF Put
<1>2. out'[c].len - 1 = o.len
  BY <1>1
<1> QED
  BY <1>2 DEF Room, Paced

\* Nothing is sent, and no stream has been let go.
LEMMA NothingSent ==
  ASSUME TypeOK, NEW c \in Conns, Room(c),
         out'[c].wire = out[c].wire, out'[c].len \in Nat, out'[c].len <= out[c].len,
         \A i \in streams'[c] : sState'[i] \in {"empty", "has_data"} =>
                                   i \in streams[c] /\ sState[i] \in {"empty", "has_data"}
  PROVE  Room(c)' /\ Paced(c)
<1>1. out[c].len \in Nat /\ out[c].wire \in Seq(Frame)
  BY DEF TypeOK, Outlet
<1>2. Paced(c)
  BY <1>1 DEF Paced
<1>3. Room(c)'
  <2> SUFFICES ASSUME NEW i \in streams'[c], sState'[i] \in {"empty", "has_data"}
               PROVE  out'[c].len < IoSize
    BY DEF Room
  <2>1. out[c].len < IoSize
    BY DEF Room
  <2> QED
    BY <1>1, <2>1, MongooseAssumption
<1> QED
  BY <1>2, <1>3

\* An entry is the only one of its connection.
LEMMA OneEntry ==
  ASSUME TypeOK, MapInv, PendingUnanswered, Numbered, NEW d \in Conns, WireInv(d),
         NEW i \in responses[d] \union streams[d]
  PROVE  /\ \A j \in responses[d] \union streams[d] : j = i
         /\ i \in responses[d] => streams[d] = {}
<1>1. responses[d] \intersect streams[d] = {}
  BY DEF PendingUnanswered
<1>2. \A j \in responses[d] \union streams[d] : ord[j] = reqs[d]
  BY DEF WireInv, Pending
<1>3. ASSUME NEW j \in responses[d] \union streams[d] PROVE j = i
  BY <1>2, <1>3, EntryRequest DEF MapInv, Numbered
<1> QED
  BY <1>1, <1>3

\* Nothing is sent by a step that leaves the output sides alone.
LEMMA PacedQuiet ==
  ASSUME TypeOK, TypeOK', MapInv, NEW c \in Conns, WireInv(c), Room(c), out' = out,
         \/ \E d \in Conns : Accept(d) \/ HandleClose(d)
         \/ \E i \in Ids : Worker(i)
         \/ HandleWakeup \/ Stop \/ Release \/ UNCHANGED vars
  PROVE  Room(c)' /\ Paced(c)
<1>1. out'[c].wire = out[c].wire /\ out'[c].len \in Nat /\ out'[c].len <= out[c].len
  BY DEF TypeOK, Outlet
<1>2. ASSUME NEW i \in streams'[c], sState'[i] \in {"empty", "has_data"}
      PROVE  i \in streams[c] /\ sState[i] \in {"empty", "has_data"}
  <2>1. i \in Ids
    BY <1>2 DEF TypeOK
  <2>2. CASE UNCHANGED <<streams, sState>>
    BY <1>2, <2>2
  <2>3. CASE \E d \in Conns : HandleClose(d)
    BY <1>2, <2>1, <2>3 DEF HandleClose, TypeOK
  <2>4. CASE \E j \in Ids : Worker(j)
    <3>1. PICK j \in Ids : Worker(j)
      BY <2>4
    <3>2. streams' = streams
      BY <3>1 DEF Worker, endpointVars
    <3>3. pc[i] = "ready" => sState[i] = "empty"
      BY <1>2, <3>2 DEF WireInv, Pending
    <3>4. CASE Responder(j)
      <4>1. sState'[i] = sState[i] \/ sState'[i] = "start"
        BY <2>1, <3>4 DEF TypeOK, Responder, SendOpen, SendWake, SendMark, StreamOpen,
                          StreamWake, StreamPublish, StreamReturn, streamVars
      <4> QED
        BY <1>2, <3>2, <4>1
    <3>5. CASE Producer(j)
      <4>1. \/ sState'[i] = sState[i] \/ sState'[i] = "failed" \/ sState'[i] = "close"
            \/ sState'[i] = "has_data" /\ pc[i] = "ready"
        <5>1. CASE WaitReturn(j) \/ WaitPark(j)
          BY <5>1 DEF WaitReturn, WaitPark, streamVars
        <5>2. CASE SendChunk(j)
          BY <2>1, <5>2 DEF SendChunk, Goto, TypeOK
        <5>3. CASE CloseStream(j)
          BY <2>1, <5>3 DEF CloseStream, TypeOK
        <5>4. CASE WakeStream(j)
          BY <2>1, <5>4 DEF WakeStream, TypeOK
        <5> QED
          BY <3>5, <5>1, <5>2, <5>3, <5>4 DEF Producer
      <4> QED
        BY <1>2, <3>2, <3>3, <4>1
    <3> QED
      BY <3>1, <3>4, <3>5 DEF Worker
  <2>5. CASE HandleWakeup
    <3>1. PICK j \in Ids : WakeUnknown(j) \/ WakeResponse(j) \/ WakeStreamOf(j)
      BY <2>5 DEF HandleWakeup
    <3>2. sState' = sState
      BY <3>1 DEF WakeUnknown, WakeResponse, WakeStreamOf, TakeWakeup, streamVars
    <3>3. CASE WakeStreamOf(j)
      <4>1. i \in streams[c] \/ i \in responses[c]
        BY <1>2, <3>3 DEF WakeStreamOf, Known, TypeOK
      <4>2. i \in responses[c] => sState[i] = "start"
        BY <4>1 DEF WireInv, Pending
      <4> QED
        BY <1>2, <3>2, <4>1, <4>2
    <3>4. CASE WakeUnknown(j) \/ WakeResponse(j)
      BY <1>2, <3>2, <3>4 DEF WakeUnknown, WakeResponse
    <3> QED
      BY <3>1, <3>3, <3>4
  <2>6. CASE Stop \/ Release \/ UNCHANGED vars \/ \E d \in Conns : Accept(d)
    BY <2>2, <2>6 DEF Stop, Release, Accept, vars, streamVars, endpointVars
  <2> QED
    BY <2>3, <2>4, <2>5, <2>6
<1> QED
  BY <1>1, <1>2, NothingSent

\* A request is dispatched when its connection has no stream.
LEMMA PacedServe ==
  ASSUME TypeOK, Numbered, ~Pipelined, NEW c \in Conns, WireInv(c), HttpMessage(c)
  PROVE  Room(c)' /\ Paced(c)
<1> DEFINE o == Busy(out[c])
<1>1. Dispatch(c)
  BY DEF HttpMessage, ServeReply, ServeStream, ServeSilent, ServeAsync
<1>2. streams[c] = {} /\ streams' = streams
  BY <1>1, Dispatched
<1>3. o.wire = out[c].wire
  BY DEF Busy
<1>4. CASE ServeReply(c)
  <2>1. out'[c] = Put(o, reqs[c] + 1, "reply", 0, FALSE)
    BY <1>4 DEF ServeReply, MgHttpReply, TypeOK
  <2> HIDE DEF o
  <2> QED
    BY <1>2, <1>3, <2>1, NoChunkSent
<1>5. CASE ServeStream(c)
  <2>1. out'[c] = Put(o, reqs[c] + 1, "preamble", 0, o.busy)
    BY <1>5 DEF ServeStream, MgSend, TypeOK
  <2> HIDE DEF o
  <2> QED
    BY <1>2, <1>3, <2>1, NoChunkSent
<1>6. CASE ServeSilent(c) \/ ServeAsync(c)
  <2>1. out'[c].wire = out[c].wire
    BY <1>6 DEF ServeSilent, ServeAsync, Busy, TypeOK
  <2>2. Len(out'[c].wire) = Len(out[c].wire) /\ Len(out[c].wire) \in Nat
    BY <2>1 DEF TypeOK, Outlet
  <2> QED
    BY <1>2, <2>2 DEF Room, Paced
<1> QED
  BY <1>4, <1>5, <1>6 DEF HttpMessage

\* handle_response, handle_stream and handle_poll: the entry served is the
\* only one, so that its chunk finds the room its producer was promised.
LEMMA PacedFinish ==
  ASSUME TypeOK, MapInv, PendingUnanswered, Numbered, 0 \notin ChunkSizes,
         \A c, d \in Conns : c = d, NEW c \in Conns, WireInv(c), Room(c), Finish
  PROVE  Room(c)' /\ Paced(c)
<1>1. PICK i \in Ids : i = loop.id /\ owner[i] = c
  BY DEF TypeOK, Loop
<1>2. /\ i \in responses[c] \union streams[c]
      /\ loop.op = "reply" => i \in responses[c]
      /\ loop.op = "stream" => i \in streams[c] /\ sState[i] = loop.seen
  BY <1>1 DEF Finish, FinishReply, FinishData, FinishClose, MapInv, WakeupInv, LoopHasTarget,
              LoadedStateFresh
<1>3. /\ \A j \in responses[c] \union streams[c] : j = i
      /\ i \in responses[c] => streams[c] = {}
  BY <1>2, OneEntry
<1>4. out[c].len \in Nat
  BY DEF TypeOK, Outlet
<1>5. CASE FinishReply
  <2> DEFINE k == IF rPayload[i] THEN "reply" ELSE "invalid"
  <2>1. out'[c] = Put(out[c], ord[i], k, 0, FALSE)
    BY <1>1, <1>5 DEF FinishReply, MgHttpReply, TypeOK
  <2>2. streams'[c] = {} /\ k # "chunk"
    BY <1>2, <1>3, <1>5 DEF FinishReply
  <2> HIDE DEF k
  <2> QED
    BY <2>1, <2>2, NoChunkSent
<1>6. CASE FinishClose
  <2>1. out'[c] = Put(out[c], ord[i], "last", sData[i].n, FALSE)
    BY <1>1, <1>6 DEF FinishClose, MgHttpWriteChunk, TypeOK
  <2>2. streams'[c] = {}
    BY <1>1, <1>3, <1>6 DEF FinishClose, TypeOK
  <2> QED
    BY <2>1, <2>2, NoChunkSent
<1>7. CASE FinishData
  <2>1. /\ i \in streams[c] /\ streams' = streams
        /\ loop.seen \in {"start", "has_data"} /\ sState[i] = loop.seen
        /\ loop.seen = "has_data" => sData[i].size # 0
    <3>1. i \in streams[c] /\ streams' = streams /\ sState[i] = loop.seen
      BY <1>2, <1>7 DEF FinishData
    <3>2. loop.seen \in {"start", "has_data"}
      BY <1>7 DEF FinishData, MapInv, Sized
    <3>3. sState[i] = "has_data" => sData[i].size # 0
      BY DEF MapInv, Sized
    <3> QED
      BY <3>1, <3>2, <3>3
  <2>2. \A j \in streams'[c] : sState'[j] = "flush"
    <3>1. sState'[i] = "flush"
      BY <1>1, <1>7 DEF FinishData, TypeOK
    <3> QED
      BY <1>3, <2>1, <3>1
  <2>3. CASE loop.seen = "has_data"
    <3>1. out'[c] = Put(out[c], ord[i], "chunk", sData[i].n, out[c].busy)
      BY <1>1, <1>7, <2>1, <2>3 DEF FinishData, MgHttpWriteChunk, TypeOK
    <3>2. out[c].len < IoSize
      BY <2>1, <2>3 DEF Room
    <3> QED
      BY <1>4, <2>2, <3>1, <3>2, ChunkSent
  <2>4. CASE loop.seen = "start"
    <3>1. out'[c] = Put(out[c], ord[i], "preamble", sData[i].n, out[c].busy)
      BY <1>1, <1>7, <2>4 DEF FinishData, MgSend, TypeOK
    <3>2. out[c].wire \in Seq(Frame)
      BY DEF TypeOK, Outlet
    <3>3. out'[c].wire[Len(out'[c].wire)].kind = "preamble"
      BY <3>1, <3>2 DEF Put
    <3> QED
      BY <2>2, <3>3 DEF Room, Paced
  <2> QED
    BY <2>1, <2>3, <2>4
<1> QED
  BY <1>5, <1>6, <1>7 DEF Finish

LEMMA PacedPoll ==
  ASSUME TypeOK, TypeOK', MapInv, PendingUnanswered, Numbered, NEW c \in Conns, WireInv(c),
         HandlePoll(c)
  PROVE  Room(c)' /\ Paced(c)
<1> DEFINE failed == {i \in responses[c] : rState[i] = "failed"}
           N == Cardinality(failed)
<1>1. PICK i \in responses[c] : i \in failed /\ streams' = streams
  BY DEF HandlePoll
<1>2. streams[c] = {} /\ failed = {i}
  <2>1. \A j \in responses[c] \union streams[c] : j = i
    BY <1>1, OneEntry
  <2> QED
    BY <1>1, <2>1, OneEntry
<1>3. N = 1
  BY <1>2, FS_Singleton
<1>4. PICK order \in [1..N -> failed] :
         out' = [out EXCEPT ![c] =
              [busy |-> FALSE, len |-> @.len + N,
               wire |-> @.wire \o
                 [k \in 1..N |-> [req |-> ord[order[k]], kind |-> "error", n |-> 0]]]]
  BY DEF HandlePoll
<1> HIDE DEF failed, N
<1> DEFINE f == [req |-> ord[order[1]], kind |-> "error", n |-> 0]
<1>5. [k \in 1..N |-> [req |-> ord[order[k]], kind |-> "error", n |-> 0]] = <<f>>
  BY <1>3
<1>6. out'[c].wire = out[c].wire \o <<f>>
  BY <1>4, <1>5 DEF TypeOK
<1>7. f.kind = "error" /\ out[c].wire \in Seq(Frame)
  BY DEF TypeOK, Outlet
<1> HIDE DEF f
<1>8. out'[c].wire[Len(out'[c].wire)].kind = "error"
  BY <1>6, <1>7
<1> QED
  BY <1>1, <1>2, <1>8 DEF Room, Paced

\* handle_write: pump_stream sends a chunk where there is room, and the streams
\* are let go when there is room.
LEMMA PacedWrite ==
  ASSUME TypeOK, TypeOK', NEW c \in Conns, WireInv(c), Room(c), HandleWrite(c)
  PROVE  Room(c)' /\ Paced(c)
<1> DEFINE x == ctx[c]
<1>1. PICK sent \in 1..out[c].len : \E pumped \in PumpStream(c, Drain(out[c], sent)) :
         /\ out' = [out EXCEPT ![c] = pumped.out]
         /\ sState' = [i \in Ids |-> IF i \in PumpAsyncStreams(pumped.out) THEN "empty"
                                                                     ELSE sState[i]]
  BY DEF HandleWrite
<1> DEFINE o == Drain(out[c], sent)
<1>2. PICK pumped \in PumpStream(c, o) :
         /\ out' = [out EXCEPT ![c] = pumped.out]
         /\ sState' = [i \in Ids |-> IF i \in PumpAsyncStreams(pumped.out) THEN "empty"
                                                                     ELSE sState[i]]
  BY <1>1
<1>3. streams' = streams /\ out'[c] = pumped.out
  BY <1>2 DEF HandleWrite, TypeOK
<1>4. /\ out[c].len \in Nat /\ sent \in Nat /\ o.len = out[c].len - sent
      /\ o.len \in Nat /\ o.len <= out[c].len /\ o.wire = out[c].wire
  BY <1>1 DEF Drain, TypeOK, Outlet
<1> HIDE DEF o
<1>5. CASE pumped.out = o
  <2>1. out'[c].wire = out[c].wire /\ out'[c].len = o.len
    BY <1>3, <1>4, <1>5
  <2>2. Paced(c)
    BY <2>1 DEF Paced, TypeOK, Outlet
  <2>3. Room(c)'
    <3> SUFFICES ASSUME NEW i \in streams[c], sState'[i] \in {"empty", "has_data"}
                 PROVE  o.len < IoSize
      BY <1>3, <2>1 DEF Room
    <3>1. CASE i \in PumpAsyncStreams(o)
      BY <1>4, <3>1, MongooseAssumption DEF PumpAsyncStreams
    <3>2. CASE i \notin PumpAsyncStreams(o)
      <4>1. sState'[i] = sState[i]
        BY <1>2, <1>5, <3>2 DEF TypeOK
      <4>2. out[c].len < IoSize
        BY <4>1 DEF Room
      <4> QED
        BY <1>4, <4>2, MongooseAssumption
    <3> QED
      BY <3>1, <3>2
  <2> QED
    BY <2>2, <2>3
<1>6. CASE pumped.out # o
  <2>1. /\ x.on /\ o.len < IoSize
        /\ \E size \in Nat : pumped.out = MgHttpWriteChunk(o, x.req, x.n + 1, size)
    BY <1>2, <1>4, <1>6, StreamAssumption, MongooseAssumption DEF PumpStream
  <2>2. streams'[c] = {}
    BY <1>3, <2>1 DEF WireInv, OneAnswerer
  <2>3. PICK kind, busy : out'[c] = Put(o, x.req, kind, x.n + 1, busy)
    BY <1>3, <2>1 DEF MgHttpWriteChunk
  <2> QED
    BY <1>4, <2>1, <2>2, <2>3, ChunkSent
<1> QED
  BY <1>5, <1>6

EveryRoom == \A c \in Conns : Room(c)

LEMMA PacedStep ==
  ASSUME ~Pipelined, 0 \notin ChunkSizes, \A c, d \in Conns : c = d,
         TypeOK, TypeOK', MapInv, PendingUnanswered, Numbered, EveryWire, EveryRoom,
         EveryWakeupHasTarget, [Next]_vars
  PROVE  EveryRoom' /\ \A c \in Conns : Paced(c)
<1> SUFFICES ASSUME NEW c \in Conns PROVE Room(c)' /\ Paced(c)
  BY DEF EveryRoom
<1>1. WireInv(c) /\ Room(c) /\ \A d \in Conns : d = c
  BY DEF EveryWire, EveryRoom
<1>2. CASE \E d \in Conns : HttpMessage(d)
  BY <1>1, <1>2, PacedServe
<1>3. CASE \E d \in Conns : HandlePoll(d)
  BY <1>1, <1>3, PacedPoll
<1>4. CASE \E d \in Conns : HandleWrite(d)
  BY <1>1, <1>4, PacedWrite
<1>5. CASE Finish
  BY <1>1, <1>5, PacedFinish
<1>6. CASE HandleWakeup
  <2>1. out' = out
    <3>1. PICK i \in Ids : WakeUnknown(i) \/ WakeResponse(i) \/ WakeStreamOf(i)
      BY <1>6 DEF HandleWakeup
    <3>2. CASE WakeUnknown(i)
      <4>1. pipe # <<>> /\ i = pipe[1] /\ ~Known(i)
        BY <3>2 DEF WakeUnknown, TakeWakeup
      <4>2. 1 \in DOMAIN pipe
        BY <4>1, EmptySeq DEF TypeOK
      <4>3. phase[owner[i]] # "open"
        BY <4>1, <4>2 DEF EveryWakeupHasTarget
      <4> QED
        BY <3>2, <4>3 DEF WakeUnknown
    <3>3. CASE WakeResponse(i) \/ WakeStreamOf(i)
      BY <3>3 DEF WakeResponse, WakeStreamOf
    <3> QED
      BY <3>1, <3>2, <3>3
  <2> QED
    BY <1>1, <1>6, <2>1, PacedQuiet
<1>7. CASE \E i \in Ids : Worker(i)
  <2>1. out' = out
    BY <1>7 DEF Worker, Responder, Producer, SendOpen, SendWake, SendMark, StreamOpen, StreamWake,
                StreamPublish, StreamReturn, WaitReturn, WaitPark, SendChunk, CloseStream,
                WakeStream, mongooseVars
  <2> QED
    BY <1>1, <1>7, <2>1, PacedQuiet
<1>8. CASE (\E d \in Conns : Accept(d) \/ HandleClose(d)) \/ Stop \/ Release \/ UNCHANGED vars
  <2>1. out' = out
    BY <1>8 DEF Accept, HandleClose, Stop, Release, vars, mongooseVars
  <2> QED
    BY <1>1, <1>8, <2>1, PacedQuiet
<1> QED
  BY <1>2, <1>3, <1>4, <1>5, <1>6, <1>7, <1>8 DEF Next

\* A chunk is sent on a connection only when its send buffer has room, whichever
\* of pump_stream and an asynchronous producer sends it.
THEOREM ChunksArePaced ==
  ASSUME ~Pipelined, 0 \notin ChunkSizes, \A c, d \in Conns : c = d
  PROVE  Spec => ChunkBackpressure
<1> DEFINE Base == TypeOK /\ MapInv /\ PendingUnanswered /\ Numbered /\ EveryWire
                   /\ EveryWakeupHasTarget
           Pace == \A c \in Conns :
                      LET w == out'[c].wire
                      IN  Len(w) > Len(out[c].wire) /\ w[Len(w)].kind = "chunk" =>
                             out'[c].len - 1 < IoSize
<1>1. Init => EveryRoom
  BY DEF Init, EveryRoom, Room
<1>2. Base /\ TypeOK' /\ EveryRoom /\ [Next]_vars => EveryRoom' /\ Pace
  BY PacedStep DEF Paced
<1>3. Spec => []Base
  BY TypeCorrect, MapInvariant, NumberedInvariant, EntriesAreUnanswered, EveryWireInvariant,
     WakeupsFindTheirTarget, PTL
<1>4. Base => TypeOK
  OBVIOUS
<1>5. (Pace => [Pace]_out)
  OBVIOUS
<1> HIDE DEF Base, Pace
<1>6. Spec => [][Pace]_out
  BY <1>1, <1>2, <1>3, <1>4, <1>5, PTL DEF Spec
<1> QED
  BY <1>6 DEF ChunkBackpressure, Pace
=============================================================================
