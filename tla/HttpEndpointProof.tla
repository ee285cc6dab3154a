------------------------- MODULE HttpEndpointProof -------------------------
(***************************************************************************)
(* Proofs about HttpEndpoint for any number of connections, requests,      *)
(* chunks and workers.                                                     *)
(***************************************************************************)
EXTENDS HttpEndpoint, SequenceTheorems, FiniteSetTheorems, TLAPS

\* The bounds give the endpoint at least one request id, and ids are naturals.
LEMMA IdsType == /\ 0 \in Ids
                 /\ Ids \subseteq Nat
                 /\ MaxAsync \in Nat
  BY StreamAssumption DEF Ids

\* mg_send, mg_http_reply and mg_http_write_chunk keep an output side an Outlet.
LEMMA OutletType ==
  ASSUME NEW o \in Outlet, NEW req \in Nat, NEW n \in Nat
  PROVE  /\ \A kind \in FrameKind : MgSend(o, req, kind, n) \in Outlet
         /\ \A kind \in FrameKind : MgHttpReply(o, req, kind) \in Outlet
         /\ \A size \in Nat : MgHttpWriteChunk(o, req, n, size) \in Outlet
<1>1. ASSUME NEW kind \in FrameKind, NEW m \in Nat, NEW b \in BOOLEAN
      PROVE  Put(o, req, kind, m, b) \in Outlet
  <2>1. [req |-> req, kind |-> kind, n |-> m] \in Frame
    BY <1>1 DEF Frame
  <2>2. Append(o.wire, [req |-> req, kind |-> kind, n |-> m]) \in Seq(Frame)
    BY <2>1 DEF Outlet
  <2>3. o.len + 1 \in Nat
    BY DEF Outlet
  <2> QED
    BY <1>1, <2>2, <2>3 DEF Outlet, Put
<1>2. o.busy \in BOOLEAN
  BY DEF Outlet
<1>3. {"last", "chunk"} \subseteq FrameKind
  BY DEF FrameKind
<1> QED
  BY <1>1, <1>2, <1>3 DEF MgSend, MgHttpReply, MgHttpWriteChunk

\* The initial state has the declared types.
LEMMA InitTypeOK == Init => TypeOK
<1> SUFFICES ASSUME Init PROVE TypeOK
  OBVIOUS
<1>1. (CHOOSE c \in Conns : TRUE) \in Conns
  BY MongooseAssumption
<1>2. [busy |-> FALSE, len |-> 0, wire |-> <<>>] \in Outlet
  BY DEF Outlet
<1> QED
  BY <1>1, <1>2, IdsType
     DEF Init, MongooseInit, TypeOK, Idle, Loop, StreamState, Data, NoData, PC,
         ResponseState, Context, NoContext, Ids
\* A wakeup is queued under a request's id.
LEMMA WakeupType ==
  ASSUME pipe \in Seq(Ids), NEW i \in Ids, NEW ok \in BOOLEAN, MgWakeup(i, ok)
  PROVE  pipe' \in Seq(Ids)
  BY DEF MgWakeup

\* notify_one and notify_all keep a worker at one of its control points.
LEMMA NotifyType ==
  ASSUME pc \in [Ids -> PC], NEW S
  PROVE  Notify(S) \in [Ids -> PC]
  BY DEF Notify, PC, StreamPC

\* The steps of async_response::send and stream keep the types.
LEMMA ResponderTypeOK ==
  ASSUME TypeOK, NEW i \in Ids, Responder(i), UNCHANGED <<owner, ord, endpointVars>>
  PROVE  TypeOK'
<1>1. {"done", "null", "wait", "begin"} \union ResponsePC \subseteq PC
  BY DEF PC, ResponsePC, StreamPC, FinalPC
<1> USE DEF TypeOK, endpointVars, mongooseVars, streamVars, responseVars
<1>2. CASE SendOpen(i)
  <2>1. pc' \in [Ids -> PC]
    BY <1>1, <1>2 DEF SendOpen, Goto, ResponsePC
  <2>2. rState' \in [Ids -> ResponseState] /\ rPayload' \in [Ids -> BOOLEAN]
    BY <1>2 DEF SendOpen, ResponseState
  <2> QED
    BY <1>2, <2>1, <2>2 DEF SendOpen
<1>3. CASE SendWake(i)
  <2>1. pc' \in [Ids -> PC]
    BY <1>1, <1>3 DEF SendWake, Goto, ResponsePC
  <2>2. rState' \in [Ids -> ResponseState]
    BY <1>3 DEF SendWake, ResponseState
  <2>3. \E ok \in BOOLEAN : MgWakeup(i, ok)
    BY <1>3, Zenon DEF SendWake
  <2>4. pipe' \in Seq(Ids)
    BY <2>3, WakeupType
  <2> QED
    BY <1>3, <2>1, <2>2, <2>4 DEF SendWake
<1>4. CASE SendMark(i)
  BY <1>1, <1>4 DEF SendMark, Goto, ResponsePC, ResponseState
<1>5. CASE StreamOpen(i)
  <2>1. pc' \in [Ids -> PC]
    BY <1>1, <1>5 DEF StreamOpen, Goto, ResponsePC
  <2>2. rState' \in [Ids -> ResponseState] /\ rStream' \in [Ids -> BOOLEAN]
    BY <1>5 DEF StreamOpen, ResponseState
  <2>3. sState' \in [Ids -> StreamState]
    BY <1>5 DEF StreamOpen, StreamState
  <2>4. [n |-> 0, size |-> 1] \in Data
    BY DEF Data
  <2>5. sData' \in [Ids -> Data]
    BY <1>5, <2>4 DEF StreamOpen
  <2> QED
    BY <1>5, <2>1, <2>2, <2>3, <2>5 DEF StreamOpen
<1>6. CASE StreamWake(i)
  <2>1. pc' \in [Ids -> PC]
    BY <1>1, <1>6 DEF StreamWake, Goto, ResponsePC
  <2>2. rState' \in [Ids -> ResponseState]
    BY <1>6 DEF StreamWake, ResponseState
  <2>3. \E ok \in BOOLEAN : MgWakeup(i, ok)
    BY <1>6, Zenon DEF StreamWake
  <2>4. pipe' \in Seq(Ids)
    BY <2>3, WakeupType
  <2> QED
    BY <1>6, <2>1, <2>2, <2>4 DEF StreamWake
<1>7. CASE StreamPublish(i)
  BY <1>1, <1>7 DEF StreamPublish, Goto, ResponsePC, ResponseState
<1>8. CASE StreamReturn(i)
  BY <1>1, <1>8 DEF StreamReturn, Goto, ResponsePC
<1> QED
  BY <1>2, <1>3, <1>4, <1>5, <1>6, <1>7, <1>8 DEF Responder

\* The steps of async_stream and its producer keep the types.
LEMMA ProducerTypeOK ==
  ASSUME TypeOK, NEW i \in Ids, Producer(i),
         UNCHANGED <<owner, ord, responseVars, endpointVars>>
  PROVE  TypeOK'
<1>1. {"exit"} \union StreamPC \subseteq PC
  BY DEF PC, StreamPC, FinalPC
<1> USE DEF TypeOK, endpointVars, mongooseVars, streamVars, responseVars
<1>2. CASE WaitReturn(i)
  BY <1>1, <1>2 DEF WaitReturn, Goto, StreamPC
<1>3. CASE WaitPark(i)
  BY <1>1, <1>3 DEF WaitPark, Goto, StreamPC
<1>4. CASE SendChunk(i)
  BY <1>1, <1>4, StreamAssumption DEF SendChunk, Goto, StreamPC, StreamState, Data
<1>5. CASE CloseStream(i)
  BY <1>1, <1>5 DEF CloseStream, Goto, StreamPC, StreamState, Data
<1>6. CASE WakeStream(i)
  <2>1. pc' \in [Ids -> PC]
    BY <1>1, <1>6 DEF WakeStream, Goto, StreamPC
  <2>2. sState' \in [Ids -> StreamState]
    BY <1>6 DEF WakeStream, StreamState
  <2>3. pipe' = pipe \/ \E ok \in BOOLEAN : MgWakeup(i, ok)
    BY <1>6, Zenon DEF WakeStream
  <2>4. pipe' \in Seq(Ids)
    BY <2>3, WakeupType
  <2> QED
    BY <1>6, <2>1, <2>2, <2>4 DEF WakeStream
<1> QED
  BY <1>2, <1>3, <1>4, <1>5, <1>6 DEF Producer
\* Accepting a connection and serving a request keep the types.
LEMMA RequestTypeOK ==
  ASSUME TypeOK, NEW c \in Conns, Accept(c) \/ HttpMessage(c)
  PROVE  TypeOK'
<1> USE DEF TypeOK, mongooseVars, streamVars, workerVars, responseVars
<1>1. Dispatch(c) => reqs' \in [Conns -> Nat] /\ reqs[c] + 1 \in Nat
  BY DEF Dispatch
<1>2. Busy(out[c]) \in Outlet
  BY DEF Busy, Outlet
<1>3. {"preamble", "reply"} \subseteq FrameKind
  BY DEF FrameKind, Whole
<1>4. CASE Accept(c)
  BY <1>4 DEF Accept, Context, NoContext
<1>5. CASE ServeReply(c)
  <2>1. MgHttpReply(Busy(out[c]), reqs[c] + 1, "reply") \in Outlet
    BY <1>1, <1>2, <1>3, <1>5, OutletType DEF ServeReply
  <2> QED
    BY <1>1, <1>5, <2>1 DEF ServeReply, Dispatch
<1>6. CASE ServeStream(c)
  <2>1. MgSend(Busy(out[c]), reqs[c] + 1, "preamble", 0) \in Outlet
    BY <1>1, <1>2, <1>3, <1>6, OutletType DEF ServeStream
  <2>2. [on |-> TRUE, req |-> reqs[c] + 1, n |-> 0] \in Context
    BY <1>1, <1>6 DEF ServeStream, Context
  <2> QED
    BY <1>1, <1>6, <2>1, <2>2 DEF ServeStream, Dispatch
<1>7. CASE ServeSilent(c)
  BY <1>1, <1>2, <1>7 DEF ServeSilent, Dispatch
<1>8. CASE ServeAsync(c)
  <2>1. counter \in Ids /\ counter' \in 0..MaxAsync
    BY <1>8, IdsType DEF ServeAsync, Ids
  <2>2. out' \in [Conns -> Outlet]
    BY <1>2, <1>8 DEF ServeAsync
  <2>3. responses' \in [Conns -> SUBSET Ids]
    BY <1>8, <2>1 DEF ServeAsync
  <2>4. owner' \in [Ids -> Conns] /\ ord' \in [Ids -> Nat] /\ pc' \in [Ids -> PC]
    BY <1>1, <1>8, <2>1 DEF ServeAsync, PC, ResponsePC
  <2> QED
    BY <1>1, <1>8, <2>1, <2>2, <2>3, <2>4 DEF ServeAsync, Dispatch
<1> QED
  BY <1>4, <1>5, <1>6, <1>7, <1>8 DEF HttpMessage

\* Delivering a wakeup keeps the types.
LEMMA WakeupTypeOK == TypeOK /\ HandleWakeup => TypeOK'
<1> SUFFICES ASSUME TypeOK, HandleWakeup
             PROVE  TypeOK'
  OBVIOUS
<1> USE DEF TypeOK, streamVars, workerVars
<1>1. PICK i \in Ids : WakeUnknown(i) \/ WakeResponse(i) \/ WakeStreamOf(i)
  BY DEF HandleWakeup
<1>2. ASSUME TakeWakeup(i)
      PROVE  pipe' \in Seq(Ids)
  BY <1>2, HeadTailProperties DEF TakeWakeup
<1>3. CASE WakeUnknown(i)
  <2>1. "error" \in FrameKind
    BY DEF FrameKind, Whole
  <2>2. MgHttpReply(MgHttpReply(out[owner[i]], 0, "error"), 0, "error") \in Outlet
    BY <2>1, OutletType
  <2> QED
    BY <1>2, <1>3, <2>2 DEF WakeUnknown, TakeWakeup
<1>4. CASE WakeResponse(i)
  <2>1. [op |-> "reply", id |-> i, seen |-> "start"] \in Loop
    BY DEF Loop, StreamState
  <2> QED
    BY <1>2, <1>4, <2>1 DEF WakeResponse, TakeWakeup
<1>5. CASE WakeStreamOf(i)
  <2>1. Idle \in Loop /\ [op |-> "stream", id |-> i, seen |-> sState[i]] \in Loop
    BY IdsType DEF Loop, Idle, StreamState
  <2>2. loop' \in Loop
    BY <1>5, <2>1 DEF WakeStreamOf
  <2>3. streams' \in [Conns -> SUBSET Ids] /\ responses' \in [Conns -> SUBSET Ids]
    BY <1>5 DEF WakeStreamOf
  <2>4. rStream' \in [Ids -> BOOLEAN]
    BY <1>5 DEF WakeStreamOf
  <2> QED
    BY <1>2, <1>5, <2>2, <2>3, <2>4 DEF WakeStreamOf, TakeWakeup
<1> QED
  BY <1>1, <1>3, <1>4, <1>5

\* Completing a handler keeps the types.
LEMMA FinishTypeOK == TypeOK /\ Finish => TypeOK'
<1> SUFFICES ASSUME TypeOK, Finish
             PROVE  TypeOK'
  OBVIOUS
<1> USE DEF TypeOK, streamVars, workerVars, responseVars
<1>1. loop.id \in Ids /\ Idle \in Loop
  BY IdsType DEF Loop, Idle, StreamState
<1>2. /\ owner[loop.id] \in Conns /\ ord[loop.id] \in Nat
      /\ sData[loop.id].n \in Nat /\ sData[loop.id].size \in Nat
      /\ out[owner[loop.id]] \in Outlet
  BY <1>1 DEF Data
<1>3. {"reply", "invalid", "preamble"} \subseteq FrameKind
  BY DEF FrameKind, Whole
<1>4. CASE FinishReply
  <2>1. out' \in [Conns -> Outlet]
    BY <1>2, <1>3, <1>4, OutletType DEF FinishReply
  <2>2. rState' \in [Ids -> ResponseState]
    BY <1>4 DEF FinishReply, ResponseState
  <2>3. responses' \in [Conns -> SUBSET Ids]
    BY <1>4 DEF FinishReply
  <2> QED
    BY <1>1, <1>4, <2>1, <2>2, <2>3 DEF FinishReply
<1>5. CASE FinishData
  <2>1. out' \in [Conns -> Outlet]
    BY <1>2, <1>3, <1>5, OutletType DEF FinishData
  <2>2. sState' \in [Ids -> StreamState] /\ pc' \in [Ids -> PC]
    BY <1>5, NotifyType DEF FinishData, StreamState
  <2>3. [n |-> sData[loop.id].n, size |-> 0] \in Data
    BY <1>2 DEF Data
  <2>4. sData' \in [Ids -> Data]
    BY <1>5, <2>3 DEF FinishData
  <2> QED
    BY <1>1, <1>5, <2>1, <2>2, <2>4 DEF FinishData
<1>6. CASE FinishClose
  <2>1. out' \in [Conns -> Outlet]
    BY <1>2, <1>6, OutletType DEF FinishClose
  <2>2. sState' \in [Ids -> StreamState] /\ pc' \in [Ids -> PC]
    BY <1>6, NotifyType DEF FinishClose, StreamState
  <2>3. streams' \in [Conns -> SUBSET Ids]
    BY <1>6 DEF FinishClose
  <2> QED
    BY <1>1, <1>6, <2>1, <2>2, <2>3 DEF FinishClose
<1> QED
  BY <1>4, <1>5, <1>6 DEF Finish

\* A poll that answers failed responses keeps the types.
LEMMA PollTypeOK ==
  ASSUME TypeOK, NEW c \in Conns, HandlePoll(c)
  PROVE  TypeOK'
<1> USE DEF TypeOK, streamVars, workerVars, responseVars
<1> DEFINE failed == {i \in responses[c] : rState[i] = "failed"}
           N == Cardinality(failed)
           errors(order) ==
             [k \in 1..N |-> [req |-> ord[order[k]], kind |-> "error", n |-> 0]]
<1>1. failed \subseteq Ids
  OBVIOUS
<1>2. N \in Nat
  <2>1. IsFiniteSet(Ids)
    BY IdsType, FS_Interval DEF Ids
  <2>2. IsFiniteSet(failed)
    BY <1>1, <2>1, FS_Subset
  <2> QED
    BY <2>2, FS_CardinalityType
<1>3. PICK order \in [1..N -> failed] :
         out' = [out EXCEPT ![c] = [busy |-> FALSE, len |-> @.len + N,
                                    wire |-> @.wire \o errors(order)]]
  BY DEF HandlePoll
<1>4. \A k \in 1..N : [req |-> ord[order[k]], kind |-> "error", n |-> 0] \in Frame
  <2>1. \A k \in 1..N : ord[order[k]] \in Nat
    BY <1>1
  <2> QED
    BY <2>1 DEF Frame, FrameKind, Whole
<1>5. errors(order) \in Seq(Frame)
  <2> HIDE DEF N
  <2> QED
    BY <1>2, <1>4
<1>6. [busy |-> FALSE, len |-> out[c].len + N, wire |-> out[c].wire \o errors(order)]
        \in Outlet
  <2> HIDE DEF N, errors
  <2>1. out[c].len + N \in Nat
    BY <1>2 DEF Outlet
  <2>2. out[c].wire \o errors(order) \in Seq(Frame)
    BY <1>5, ConcatProperties DEF Outlet
  <2> QED
    BY <2>1, <2>2 DEF Outlet
<1>7. out' \in [Conns -> Outlet]
  <2> HIDE DEF N, errors
  <2> QED
    BY <1>3, <1>6
<1>8. responses' \in [Conns -> SUBSET Ids]
  BY DEF HandlePoll
<1> QED
  BY <1>7, <1>8 DEF HandlePoll
\* What a write may leave behind on a connection.
LEMMA PumpType ==
  ASSUME TypeOK, NEW c \in Conns, NEW o \in Outlet, NEW pumped \in PumpStream(c, o)
  PROVE  pumped.out \in Outlet /\ pumped.ctx \in Context
<1>1. ctx[c] \in Context /\ NoContext \in Context
  BY DEF TypeOK, Context, NoContext
<1>2. ctx[c].req \in Nat /\ ctx[c].n + 1 \in Nat
  BY <1>1 DEF Context
<1>3. [on |-> TRUE, req |-> ctx[c].req, n |-> ctx[c].n + 1] \in Context
  BY <1>2 DEF Context
<1>4. \A size \in ChunkSizes \union {0} :
         MgHttpWriteChunk(o, ctx[c].req, ctx[c].n + 1, size) \in Outlet
  BY <1>2, OutletType, StreamAssumption
<1>5. \/ pumped = [out |-> o, ctx |-> ctx[c]]
      \/ pumped = [out |-> MgHttpWriteChunk(o, ctx[c].req, ctx[c].n + 1, 0),
                   ctx |-> NoContext]
      \/ \E size \in ChunkSizes :
            pumped = [out |-> MgHttpWriteChunk(o, ctx[c].req, ctx[c].n + 1, size),
                      ctx |-> [on |-> TRUE, req |-> ctx[c].req, n |-> ctx[c].n + 1]]
  BY Zenon DEF PumpStream
<1>6. CASE pumped = [out |-> o, ctx |-> ctx[c]]
  BY <1>1, <1>6
<1>7. CASE pumped = [out |-> MgHttpWriteChunk(o, ctx[c].req, ctx[c].n + 1, 0),
                     ctx |-> NoContext]
  <2>1. pumped.out = MgHttpWriteChunk(o, ctx[c].req, ctx[c].n + 1, 0)
        /\ pumped.ctx = NoContext
    BY <1>7
  <2> QED
    BY <1>1, <1>4, <2>1
<1>8. ASSUME NEW size \in ChunkSizes,
             pumped = [out |-> MgHttpWriteChunk(o, ctx[c].req, ctx[c].n + 1, size),
                       ctx |-> [on |-> TRUE, req |-> ctx[c].req, n |-> ctx[c].n + 1]]
      PROVE  pumped.out \in Outlet /\ pumped.ctx \in Context
  <2>1. pumped.out = MgHttpWriteChunk(o, ctx[c].req, ctx[c].n + 1, size)
        /\ pumped.ctx = [on |-> TRUE, req |-> ctx[c].req, n |-> ctx[c].n + 1]
    BY <1>8
  <2> QED
    BY <1>3, <1>4, <2>1
<1> QED
  BY <1>5, <1>6, <1>7, <1>8

\* A write keeps the types.
LEMMA WriteTypeOK ==
  ASSUME TypeOK, NEW c \in Conns, HandleWrite(c)
  PROVE  TypeOK'
<1> USE DEF TypeOK, streamVars, responseVars
<1>1. PICK sent \in 1..out[c].len : \E pumped \in PumpStream(c, Drain(out[c], sent)) :
         LET ready == PumpAsyncStreams(pumped.out)
         IN  /\ out' = [out EXCEPT ![c] = pumped.out]
             /\ ctx' = [ctx EXCEPT ![c] = pumped.ctx]
             /\ sState' = [i \in Ids |-> IF i \in ready THEN "empty" ELSE sState[i]]
             /\ pc' = Notify(ready)
  BY DEF HandleWrite
<1>2. PICK pumped \in PumpStream(c, Drain(out[c], sent)) :
         LET ready == PumpAsyncStreams(pumped.out)
         IN  /\ out' = [out EXCEPT ![c] = pumped.out]
             /\ ctx' = [ctx EXCEPT ![c] = pumped.ctx]
             /\ sState' = [i \in Ids |-> IF i \in ready THEN "empty" ELSE sState[i]]
             /\ pc' = Notify(ready)
  BY <1>1
<1>3. Drain(out[c], sent) \in Outlet
  <2>1. out[c] \in Outlet /\ out[c].len \in Nat
    BY DEF Outlet
  <2>2. out[c].len - sent \in Nat
    BY <1>1, <2>1
  <2> QED
    BY <2>1, <2>2 DEF Drain, Outlet
<1>4. pumped.out \in Outlet /\ pumped.ctx \in Context
  BY <1>3, PumpType
<1>5. out' \in [Conns -> Outlet] /\ ctx' \in [Conns -> Context]
  BY <1>2, <1>4
<1>6. pc' \in [Ids -> PC]
  BY <1>2, NotifyType
<1>7. sState' \in [Ids -> StreamState]
  BY <1>2 DEF StreamState
<1> QED
  BY <1>5, <1>6, <1>7 DEF HandleWrite

\* A close keeps the types.
LEMMA CloseTypeOK ==
  ASSUME TypeOK, NEW c \in Conns, HandleClose(c)
  PROVE  TypeOK'
<1> USE DEF TypeOK
<1>1. pc' \in [Ids -> PC]
  BY NotifyType DEF HandleClose
<1>2. rState' \in [Ids -> ResponseState] /\ sState' \in [Ids -> StreamState]
  BY DEF HandleClose, ResponseState, StreamState
<1>3. ctx' \in [Conns -> Context]
  BY DEF HandleClose, Context, NoContext
<1> QED
  BY <1>1, <1>2, <1>3 DEF HandleClose

\* Every variable keeps its type in every behaviour of the endpoint.
THEOREM TypeCorrect == Spec => []TypeOK
<1>1. TypeOK /\ [Next]_vars => TypeOK'
  <2> SUFFICES ASSUME TypeOK, [Next]_vars
               PROVE  TypeOK'
    OBVIOUS
  <2>1. CASE \E c \in Conns : \/ Accept(c) \/ HttpMessage(c) \/ HandlePoll(c)
                              \/ HandleWrite(c) \/ HandleClose(c)
    BY <2>1, RequestTypeOK, PollTypeOK, WriteTypeOK, CloseTypeOK
  <2>2. CASE HandleWakeup \/ Finish
    BY <2>2, WakeupTypeOK, FinishTypeOK
  <2>3. CASE Stop
    BY <2>3 DEF TypeOK, Stop, streamVars, workerVars, responseVars, endpointVars
  <2>4. CASE Release
    BY <2>4 DEF TypeOK, Release, streamVars, workerVars, responseVars, endpointVars
  <2>5. CASE \E i \in Ids : Worker(i)
    BY <2>5, ResponderTypeOK, ProducerTypeOK DEF Worker
  <2>6. CASE UNCHANGED vars
    BY <2>6 DEF TypeOK, vars, mongooseVars, streamVars, workerVars, responseVars,
                endpointVars
  <2> QED
    BY <2>1, <2>2, <2>3, <2>4, <2>5, <2>6 DEF Next
<1> QED
  BY <1>1, InitTypeOK, PTL DEF Spec

=============================================================================
