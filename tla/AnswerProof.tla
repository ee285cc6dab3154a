----------------------------- MODULE AnswerProof ----------------------------
(***************************************************************************)
(* What the endpoint's maps say about the answers on the wire: a request   *)
(* is in a map until its answer is complete (NothingForgotten), and no     *)
(* longer (PendingUnanswered).                                             *)
(***************************************************************************)
EXTENDS WakeupProof

-----------------------------------------------------------------------------
\* v is the wire w with more behind it.
Extends(w, v) == \A p \in DOMAIN w : p \in DOMAIN v /\ v[p] = w[p]

\* v is the wire w with frame f behind it.
AddsOne(w, v, f) ==
    /\ Extends(w, v)
    /\ \A p \in DOMAIN v : p \in DOMAIN w \/ v[p] = f
    /\ \E p \in DOMAIN v : v[p] = f

\* A call of mongoose's adds one frame.
LEMMA PutAdds ==
  ASSUME NEW o \in Outlet, NEW f \in Frame, NEW busy \in BOOLEAN
  PROVE  AddsOne(o.wire, Put(o, f.req, f.kind, f.n, busy).wire, f)
<1> DEFINE v == Append(o.wire, f)
<1>1. f = [req |-> f.req, kind |-> f.kind, n |-> f.n]
  BY DEF Frame
<1>2. Put(o, f.req, f.kind, f.n, busy).wire = v
  BY <1>1 DEF Put
<1>3. o.wire \in Seq(Frame)
  BY DEF Outlet
<1>4. /\ Len(o.wire) \in Nat
      /\ DOMAIN o.wire = 1..Len(o.wire)
      /\ DOMAIN v = 1..(Len(o.wire) + 1)
      /\ v[Len(o.wire) + 1] = f
      /\ \A p \in 1..Len(o.wire) : v[p] = o.wire[p]
  BY <1>3, AppendProperties
<1> HIDE DEF v
<1> QED
  BY <1>2, <1>4 DEF AddsOne, Extends

\* The frames with which a handler may complete what it began.
Replies ==
    {f \in Frame :
       /\ f.req = ord[loop.id]
       /\ f.kind \in IF loop.op = "reply" THEN Whole
                     ELSE IF loop.seen = "close" THEN {"last"}
                     ELSE IF loop.seen = "start" THEN {"preamble"}
                     ELSE IF sData[loop.id].size = 0 THEN {"last"} ELSE {"chunk"}}

\* The second step of a handler answers the request it has in hand.
LEMMA FinishAdds ==
  ASSUME TypeOK, Finish, NEW c \in Conns
  PROVE  IF c = owner[loop.id]
         THEN \E f \in Replies : AddsOne(out[c].wire, out'[c].wire, f)
         ELSE out'[c] = out[c]
<1> DEFINE i == loop.id
           o == out[owner[i]]
<1>1. /\ i \in Ids /\ owner[i] \in Conns /\ o \in Outlet
      /\ ord[i] \in Nat /\ sData[i].n \in Nat /\ o.busy \in BOOLEAN
  BY DEF TypeOK, Loop, Data, Outlet
<1>2. \A kind \in FrameKind, n \in Nat :
         LET f == [req |-> ord[i], kind |-> kind, n |-> n]
         IN  f \in Frame /\ f.req = ord[i] /\ f.kind = kind /\ f.n = n
  BY <1>1 DEF Frame
<1>3. \E f \in Replies, busy \in BOOLEAN :
         out' = [out EXCEPT ![owner[i]] = Put(@, f.req, f.kind, f.n, busy)]
  <2>1. CASE FinishReply
    <3> DEFINE k == IF rPayload[i] THEN "reply" ELSE "invalid"
               f == [req |-> ord[i], kind |-> k, n |-> 0]
    <3>1. /\ loop.op = "reply" /\ k \in Whole /\ k \in FrameKind
          /\ out' = [out EXCEPT ![owner[i]] = Put(@, ord[i], k, 0, FALSE)]
      BY <2>1 DEF FinishReply, MgHttpReply, Whole, FrameKind
    <3> HIDE DEF k
    <3>2. f \in Frame /\ f.req = ord[i] /\ f.kind = k /\ f.n = 0
      BY <1>2, <3>1
    <3> HIDE DEF f
    <3>3. f \in Replies
      BY <3>1, <3>2 DEF Replies
    <3>4. out' = [out EXCEPT ![owner[i]] = Put(@, f.req, f.kind, f.n, FALSE)]
      BY <3>1, <3>2
    <3> QED
      BY <3>3, <3>4
  <2>2. CASE FinishData \/ FinishClose
    <3> DEFINE k == IF loop.seen = "start" THEN "preamble"
                    ELSE IF loop.seen = "close" \/ sData[i].size = 0 THEN "last" ELSE "chunk"
               b == IF k = "last" THEN FALSE ELSE o.busy
               f == [req |-> ord[i], kind |-> k, n |-> sData[i].n]
    <3>1. loop.op = "stream" /\ k \in FrameKind /\ b \in BOOLEAN
      BY <1>1, <2>2 DEF FinishData, FinishClose, FrameKind, Whole
    <3>2. out' = [out EXCEPT ![owner[i]] = Put(@, ord[i], k, sData[i].n, b)]
      <4>1. CASE FinishData
        BY <1>1, <4>1 DEF FinishData, MgHttpWriteChunk, MgSend, TypeOK
      <4>2. CASE FinishClose
        BY <1>1, <4>2 DEF FinishClose, MgHttpWriteChunk, TypeOK
      <4> QED
        BY <2>2, <4>1, <4>2
    <3>3. k \in IF loop.seen = "close" THEN {"last"}
                ELSE IF loop.seen = "start" THEN {"preamble"}
                ELSE IF sData[i].size = 0 THEN {"last"} ELSE {"chunk"}
      OBVIOUS
    <3> HIDE DEF k, b
    <3>4. f \in Frame /\ f.req = ord[i] /\ f.kind = k /\ f.n = sData[i].n
      BY <1>1, <1>2, <3>1
    <3> HIDE DEF f
    <3>5. f \in Replies
      BY <3>1, <3>3, <3>4 DEF Replies
    <3>6. out' = [out EXCEPT ![owner[i]] = Put(@, f.req, f.kind, f.n, b)]
      BY <3>2, <3>4
    <3> QED
      BY <3>1, <3>5, <3>6
  <2> QED
    BY <2>1, <2>2 DEF Finish
<1>4. PICK f \in Replies, busy \in BOOLEAN :
         out' = [out EXCEPT ![owner[i]] = Put(@, f.req, f.kind, f.n, busy)]
  BY <1>3
<1>5. CASE c # owner[i]
  BY <1>1, <1>4, <1>5 DEF TypeOK
<1>6. CASE c = owner[i]
  <2>1. out'[c] = Put(o, f.req, f.kind, f.n, busy)
    BY <1>1, <1>4, <1>6 DEF TypeOK
  <2>2. f \in Frame
    BY DEF Replies
  <2>3. AddsOne(o.wire, Put(o, f.req, f.kind, f.n, busy).wire, f)
    <3> HIDE DEF o
    <3> QED
      BY <1>1, <2>2, PutAdds
  <2> QED
    BY <1>4, <1>6, <2>1, <2>3
<1> QED
  BY <1>5, <1>6

-----------------------------------------------------------------------------
\* What a step may do to the wires, the requests and the maps.

\* The frames of a stream that stays in m_pending_streams: mongoose makes the
\* terminating chunk of an empty one.
Continuing == {"preamble", "chunk"} \union {kind \in {"last"} : 0 \in ChunkSizes}

\* Frame f may be new on connection c: it answers the request being dispatched,
\* continues the synchronous stream, completes a request that then leaves the
\* maps, or continues a stream that stays.
Fresh(c, f) ==
    \/ f.req = reqs[c] + 1 /\ reqs'[c] = reqs[c] + 1 /\ pc' = pc
    \/ f.req = ctx[c].req /\ ctx[c].on
    \/ \E i \in responses[c] \union streams[c] :
          /\ f.req = ord[i]
          /\ \/ i \notin responses'[c] \union streams'[c]
             \/ i \in streams[c] /\ f.kind \in Continuing

WireShape(c) ==
    /\ Extends(out[c].wire, out'[c].wire)
    /\ \A p \in DOMAIN out'[c].wire : p \in DOMAIN out[c].wire \/ Fresh(c, out'[c].wire[p])

\* Request i enters m_pending_responses, as the last of its connection.
Registers(i) ==
    /\ i = counter
    /\ pc[i] = "none" /\ pc'[i] # "none"
    /\ ord'[i] = reqs[owner'[i]] + 1
    /\ reqs'[owner'[i]] = ord'[i]
    /\ i \in responses'[owner'[i]]
    /\ phase'[owner'[i]] = "open"
    /\ ctx' = ctx

RequestShape(i) ==
    \/ Registers(i)
    \/ owner'[i] = owner[i] /\ ord'[i] = ord[i] /\ (pc'[i] = "none" <=> pc[i] = "none")

\* The answer to request i is complete on the wire of c after the step.
Completes(c, i) ==
    \E p \in DOMAIN out'[c].wire :
       /\ out'[c].wire[p].req = ord[i]
       /\ out'[c].wire[p].kind \in Whole \union {"last"}

MapShape(c) ==
    /\ \A i \in responses'[c] : i \in responses[c] \/ (Registers(i) /\ owner'[i] = c)
    /\ \A i \in streams'[c] : i \in streams[c] \/ (i \in responses[c] /\ i \notin responses'[c])
    /\ \A i \in responses[c] \union streams[c] :
          \/ i \in responses'[c] \union streams'[c]
          \/ phase'[c] # "open"
          \/ Completes(c, i)

ConnShape(c) ==
    /\ reqs'[c] \in {reqs[c], reqs[c] + 1}
    /\ ctx'[c].on => \/ ctx[c].on /\ ctx'[c].req = ctx[c].req
                     \/ ctx'[c].req = reqs'[c] /\ reqs'[c] = reqs[c] + 1 /\ pc' = pc
    /\ phase[c] = "open" => phase'[c] = "open" \/ (responses'[c] = {} /\ streams'[c] = {})
    /\ phase'[c] = "open" => phase[c] \in {"open", "idle"}

StepShape ==
    /\ \A c \in Conns : WireShape(c) /\ MapShape(c) /\ ConnShape(c)
    /\ \A i \in Ids : RequestShape(i)

\* The steps that touch none of these.
LEMMA QuietShape ==
  ASSUME TypeOK, UNCHANGED <<phase, out, reqs, owner, ord, responses, streams, ctx>>,
         \A i \in Ids : pc'[i] = "none" <=> pc[i] = "none"
  PROVE  StepShape
<1>1. \A c \in Conns : WireShape(c) /\ MapShape(c)
  BY DEF WireShape, MapShape, Extends
<1>2. \A c \in Conns : ConnShape(c)
  BY DEF ConnShape, TypeOK
<1> QED
  BY <1>1, <1>2 DEF StepShape, RequestShape

\* A worker writes neither the wires nor the maps.
LEMMA WorkerShape ==
  ASSUME TypeOK, NEW i \in Ids, Worker(i)
  PROVE  StepShape
<1>1. UNCHANGED <<phase, out, reqs, owner, ord, responses, streams, ctx>>
  BY DEF Worker, Responder, Producer, SendOpen, SendWake, SendMark, StreamOpen, StreamWake,
         StreamPublish, StreamReturn, WaitReturn, WaitPark, SendChunk, CloseStream, WakeStream,
         mongooseVars, endpointVars
<1>2. /\ \A j \in Ids : j # i => pc'[j] = pc[j]
      /\ pc[i] # "none" /\ pc'[i] # "none"
  BY DEF Worker, Responder, Producer, SendOpen, SendWake, SendMark, StreamOpen, StreamWake,
         StreamPublish, StreamReturn, WaitReturn, WaitPark, SendChunk, CloseStream, WakeStream,
         Goto, TypeOK
<1> QED
  BY <1>1, <1>2, QuietShape

\* Delivering a wakeup moves a request from one map to the other at most.
LEMMA WakeupShape ==
  ASSUME TypeOK, WakeupInv, HandleWakeup
  PROVE  StepShape
<1>1. PICK i \in Ids : WakeUnknown(i) \/ WakeResponse(i) \/ WakeStreamOf(i)
  BY DEF HandleWakeup
<1>2. TakeWakeup(i)
  BY <1>1 DEF WakeUnknown, WakeResponse, WakeStreamOf
<1>3. UNCHANGED <<phase, reqs, owner, ord, ctx, pc>>
  BY <1>2 DEF TakeWakeup, workerVars
<1>4. CASE WakeUnknown(i)
  <2>1. InPipe(i)
    BY <1>2, PopWakeup DEF TypeOK, WakeupInv, OneWakeup, Distinct
  <2>2. phase[owner[i]] # "open"
    BY <1>4, <2>1 DEF WakeUnknown, WakeupInv, Remembered
  <2> QED
    BY <1>3, <1>4, <2>2, QuietShape DEF WakeUnknown
<1>5. CASE WakeResponse(i)
  BY <1>3, <1>5, QuietShape DEF WakeResponse
<1>6. CASE WakeStreamOf(i)
  <2>1. UNCHANGED out
    BY <1>6 DEF WakeStreamOf
  <2>2. ASSUME NEW c \in Conns PROVE WireShape(c) /\ ConnShape(c)
    BY <1>3, <2>1 DEF WireShape, ConnShape, Extends, TypeOK
  <2>3. ASSUME NEW c \in Conns PROVE MapShape(c)
    <3>1. owner[i] \in Conns /\ Known(i)
      BY <1>6 DEF WakeStreamOf, TypeOK
    <3>2. streams' = [streams EXCEPT ![owner[i]] = @ \union {i}]
      BY <1>6 DEF WakeStreamOf
    <3>3. CASE i \in streams[owner[i]]
      <4>1. streams' = streams /\ responses' = responses
        BY <1>6, <3>2, <3>3 DEF WakeStreamOf, TypeOK
      <4> QED
        BY <4>1 DEF MapShape
    <3>4. CASE i \notin streams[owner[i]]
      <4>1. responses' = [responses EXCEPT ![owner[i]] = @ \ {i}]
        BY <1>6, <3>4 DEF WakeStreamOf
      <4>2. i \in responses[owner[i]]
        BY <3>1, <3>4 DEF Known
      <4>3. CASE c = owner[i]
        <5>1. responses'[c] = responses[c] \ {i} /\ streams'[c] = streams[c] \union {i}
          BY <3>2, <4>1, <4>3 DEF TypeOK
        <5> QED
          BY <4>2, <4>3, <5>1 DEF MapShape
      <4>4. CASE c # owner[i]
        <5>1. responses'[c] = responses[c] /\ streams'[c] = streams[c]
          BY <3>2, <4>1, <4>4 DEF TypeOK
        <5> QED
          BY <5>1 DEF MapShape
      <4> QED
        BY <4>3, <4>4
    <3> QED
      BY <3>3, <3>4
  <2> QED
    BY <1>3, <2>2, <2>3 DEF StepShape, RequestShape
<1> QED
  BY <1>1, <1>4, <1>5, <1>6

\* A connection opens without requests and closes without entries.
LEMMA ConnectionShape ==
  ASSUME TypeOK, NEW d \in Conns, Accept(d) \/ HandleClose(d)
  PROVE  StepShape
<1>1. UNCHANGED <<out, reqs, owner, ord>> /\ \A i \in Ids : pc'[i] = "none" <=> pc[i] = "none"
  BY DEF Accept, HandleClose, workerVars, Notify
<1>2. \A c \in Conns : WireShape(c)
  BY <1>1 DEF WireShape, Extends
<1>3. ASSUME NEW c \in Conns PROVE MapShape(c) /\ ConnShape(c)
  <2>1. CASE c # d
    <3>1. /\ responses'[c] = responses[c] /\ streams'[c] = streams[c]
          /\ ctx'[c] = ctx[c] /\ phase'[c] = phase[c]
      BY <2>1 DEF Accept, HandleClose, TypeOK
    <3> QED
      BY <1>1, <3>1 DEF MapShape, ConnShape, TypeOK
  <2>2. CASE c = d /\ Accept(d)
    <3>1. /\ responses'[c] = responses[c] /\ streams'[c] = streams[c]
          /\ ~ctx'[c].on /\ phase'[c] = "open" /\ phase[c] = "idle"
      BY <2>2 DEF Accept, TypeOK, NoContext
    <3> QED
      BY <1>1, <3>1 DEF MapShape, ConnShape
  <2>3. CASE c = d /\ HandleClose(d)
    <3>1. /\ responses'[c] = {} /\ streams'[c] = {}
          /\ ~ctx'[c].on /\ phase'[c] = "closed"
      BY <2>3 DEF HandleClose, TypeOK, NoContext
    <3> QED
      BY <1>1, <3>1 DEF MapShape, ConnShape
  <2> QED
    BY <2>1, <2>2, <2>3
<1> QED
  BY <1>1, <1>2, <1>3 DEF StepShape, RequestShape

\* A request that is answered, or whose stream begins, within its handler.
LEMMA ServeShape ==
  ASSUME TypeOK, NEW d \in Conns, ServeReply(d) \/ ServeStream(d) \/ ServeSilent(d)
  PROVE  StepShape
<1>1. /\ UNCHANGED <<phase, owner, ord, responses, streams, pc>>
      /\ reqs' = [reqs EXCEPT ![d] = @ + 1]
  BY DEF ServeReply, ServeStream, ServeSilent, Dispatch, workerVars
<1> DEFINE o == Busy(out[d])
<1>2. o \in Outlet /\ o.wire = out[d].wire /\ o.busy = TRUE /\ reqs[d] + 1 \in Nat
  BY DEF Busy, Outlet, TypeOK
<1>3. ASSUME NEW c \in Conns PROVE WireShape(c)
  <2>1. CASE c # d \/ ServeSilent(d)
    <3>1. out'[c].wire = out[c].wire
      BY <1>2, <2>1 DEF ServeReply, ServeStream, ServeSilent, TypeOK
    <3> QED
      BY <3>1 DEF WireShape, Extends
  <2>2. CASE c = d /\ (ServeReply(d) \/ ServeStream(d))
    <3>1. PICK kind \in {"reply", "preamble"}, busy \in BOOLEAN :
             out'[d] = Put(o, reqs[d] + 1, kind, 0, busy)
      BY <1>2, <2>2 DEF ServeReply, ServeStream, MgHttpReply, MgSend, TypeOK
    <3> DEFINE f == [req |-> reqs[d] + 1, kind |-> kind, n |-> 0]
    <3>2. f \in Frame /\ f.req = reqs[d] + 1 /\ f.kind = kind /\ f.n = 0
      BY <1>2 DEF Frame, FrameKind, Whole
    <3> HIDE DEF o, f
    <3>3. AddsOne(o.wire, Put(o, f.req, f.kind, f.n, busy).wire, f)
      BY <1>2, <3>2, PutAdds
    <3>4. AddsOne(out[d].wire, out'[d].wire, f)
      BY <1>2, <3>1, <3>2, <3>3
    <3>5. Fresh(d, f)
      BY <1>1, <3>2 DEF Fresh, TypeOK
    <3> QED
      BY <2>2, <3>4, <3>5 DEF WireShape, AddsOne
  <2> QED
    BY <2>1, <2>2
<1>4. ASSUME NEW c \in Conns PROVE MapShape(c) /\ ConnShape(c)
  <2>1. /\ reqs'[c] = IF c = d THEN reqs[c] + 1 ELSE reqs[c]
        /\ ctx'[c] = ctx[c] \/ (c = d /\ ctx'[c].req = reqs'[c])
    BY <1>1 DEF ServeReply, ServeStream, ServeSilent, TypeOK
  <2> QED
    BY <1>1, <2>1 DEF MapShape, ConnShape, TypeOK
<1> QED
  BY <1>1, <1>3, <1>4 DEF StepShape, RequestShape

\* A request that is handed to a worker.
LEMMA AsyncShape ==
  ASSUME TypeOK, WakeupInv, NEW d \in Conns, ServeAsync(d)
  PROVE  StepShape
<1>1. /\ UNCHANGED <<phase, streams, ctx>>
      /\ counter \in Ids /\ phase[d] = "open"
      /\ reqs' = [reqs EXCEPT ![d] = @ + 1]
      /\ responses' = [responses EXCEPT ![d] = @ \union {counter}]
      /\ owner' = [owner EXCEPT ![counter] = d]
      /\ ord' = [ord EXCEPT ![counter] = reqs[d] + 1]
      /\ pc' = [pc EXCEPT ![counter] = "begin"]
  BY DEF ServeAsync, Dispatch
<1>2. pc[counter] = "none"
  BY <1>1, IdsType DEF WakeupInv, Remembered
<1>3. Registers(counter) /\ owner'[counter] = d
  BY <1>1, <1>2 DEF Registers, TypeOK
<1>4. ASSUME NEW i \in Ids PROVE RequestShape(i)
  BY <1>1, <1>3 DEF RequestShape, TypeOK
<1>5. ASSUME NEW c \in Conns PROVE WireShape(c)
  <2>1. out'[c].wire = out[c].wire
    BY DEF ServeAsync, Busy, TypeOK
  <2> QED
    BY <2>1 DEF WireShape, Extends
<1>6. ASSUME NEW c \in Conns PROVE MapShape(c) /\ ConnShape(c)
  <2>1. /\ reqs'[c] = IF c = d THEN reqs[c] + 1 ELSE reqs[c]
        /\ responses'[c] = IF c = d THEN responses[c] \union {counter} ELSE responses[c]
    BY <1>1 DEF TypeOK
  <2>2. MapShape(c)
    BY <1>1, <1>3, <2>1 DEF MapShape
  <2>3. ConnShape(c)
    BY <1>1, <2>1 DEF ConnShape, TypeOK
  <2> QED
    BY <2>2, <2>3
<1> QED
  BY <1>4, <1>5, <1>6 DEF StepShape

\* A request is in one map at most.
OneMap == \A c \in Conns : responses[c] \intersect streams[c] = {}

\* handle_stream sends for three states alone, and a stream that has data holds
\* a chunk of one of the sizes that are sent.
Sized ==
    /\ loop.op = "stream" => loop.seen \in {"start", "has_data", "close"}
    /\ \A i \in Ids : sState[i] = "has_data" => sData[i].size \in ChunkSizes

\* The second step of a handler: the request is answered and leaves the maps,
\* or its stream goes on and stays.
LEMMA FinishShape ==
  ASSUME TypeOK, WakeupInv, OneMap, LoadedStateFresh, Sized, Finish
  PROVE  StepShape
<1> DEFINE i == loop.id
           d == owner[i]
<1>1. i \in Ids /\ d \in Conns
  BY DEF TypeOK, Loop
<1>2. /\ UNCHANGED <<phase, reqs, owner, ord, ctx>>
      /\ \A j \in Ids : pc'[j] = "none" <=> pc[j] = "none"
  BY DEF Finish, FinishReply, FinishData, FinishClose, Notify, workerVars
<1>3. PICK f \in Replies : AddsOne(out[d].wire, out'[d].wire, f)
  BY <1>1, FinishAdds
<1>4. \A c \in Conns \ {d} : out'[c] = out[c]
  BY FinishAdds
<1>5. /\ i \in responses[d] \union streams[d] /\ f.req = ord[i]
      /\ \/ i \notin responses'[d] \union streams'[d] /\ f.kind \in Whole \union {"last"}
         \/ /\ responses' = responses /\ streams' = streams
            /\ i \in streams[d] /\ f.kind \in Continuing
  <2>1. f.req = ord[i] /\ responses[d] \intersect streams[d] = {}
    BY <1>1 DEF Replies, OneMap
  <2>2. CASE FinishReply
    <3>1. i \in responses[d] /\ f.kind \in Whole
      BY <2>2 DEF FinishReply, Replies, WakeupInv, LoopHasTarget
    <3>2. responses'[d] = responses[d] \ {i} /\ streams'[d] = streams[d]
      BY <1>1, <2>2 DEF FinishReply, TypeOK
    <3> QED
      BY <2>1, <3>1, <3>2
  <2>3. CASE FinishClose
    <3>1. i \in streams[d] /\ f.kind = "last"
      BY <2>3 DEF FinishClose, Replies, WakeupInv, LoopHasTarget
    <3>2. streams'[d] = streams[d] \ {i} /\ responses'[d] = responses[d]
      BY <1>1, <2>3 DEF FinishClose, TypeOK
    <3> QED
      BY <2>1, <3>1, <3>2
  <2>4. CASE FinishData
    <3>1. i \in streams[d] /\ UNCHANGED <<responses, streams>>
      BY <2>4 DEF FinishData, WakeupInv, LoopHasTarget
    <3>2. sState[i] = loop.seen /\ loop.op = "stream" /\ loop.seen # "close"
      BY <2>4 DEF FinishData, LoadedStateFresh
    <3>3. loop.seen = "start" \/ (loop.seen = "has_data" /\ sData[i].size \in ChunkSizes)
      BY <1>1, <3>2 DEF Sized
    <3> QED
      BY <2>1, <2>4, <3>1, <3>2, <3>3 DEF Replies, FinishData, Continuing
  <2> QED
    BY <2>2, <2>3, <2>4 DEF Finish
<1>6. ASSUME NEW c \in Conns PROVE WireShape(c) /\ ConnShape(c) /\ MapShape(c)
  <2>1. ConnShape(c)
    BY <1>2 DEF ConnShape, TypeOK
  <2>2. CASE c = d
    <3>1. Fresh(d, f)
      BY <1>5 DEF Fresh
    <3>2. WireShape(d)
      BY <1>3, <3>1 DEF WireShape, AddsOne
    <3>3. MapShape(d)
      <4>1. /\ responses'[d] \in {responses[d], responses[d] \ {i}}
            /\ streams'[d] \in {streams[d], streams[d] \ {i}}
        BY <1>1 DEF Finish, FinishReply, FinishData, FinishClose, TypeOK
      <4>2. i \in responses'[d] \union streams'[d] \/ Completes(d, i)
        BY <1>3, <1>5 DEF Completes, AddsOne
      <4> QED
        BY <4>1, <4>2 DEF MapShape
    <3> QED
      BY <2>1, <2>2, <3>2, <3>3
  <2>3. CASE c # d
    <3>1. responses'[c] = responses[c] /\ streams'[c] = streams[c]
      BY <1>1, <2>3 DEF Finish, FinishReply, FinishData, FinishClose, TypeOK
    <3>2. WireShape(c)
      BY <1>4, <2>3 DEF WireShape, Extends
    <3> QED
      BY <2>1, <3>1, <3>2 DEF MapShape
  <2> QED
    BY <2>2, <2>3
<1> QED
  BY <1>2, <1>6 DEF StepShape, RequestShape

\* handle_poll: every response it answers leaves the map, and no other does.
LEMMA PollShape ==
  ASSUME TypeOK, OneMap, NEW d \in Conns, HandlePoll(d)
  PROVE  StepShape
<1> DEFINE failed == {i \in responses[d] : rState[i] = "failed"}
           N == Cardinality(failed)
<1>1. /\ UNCHANGED <<phase, reqs, owner, ord, ctx, pc, streams>>
      /\ responses' = [responses EXCEPT ![d] = @ \ failed]
  BY DEF HandlePoll, workerVars
<1>2. PICK order \in [1..N -> failed] :
         /\ \A k, l \in 1..N : order[k] = order[l] => k = l
         /\ out' = [out EXCEPT ![d] =
              [busy |-> FALSE, len |-> @.len + N,
               wire |-> @.wire \o
                 [k \in 1..N |-> [req |-> ord[order[k]], kind |-> "error", n |-> 0]]]]
  BY DEF HandlePoll
<1> DEFINE w == out[d].wire
           errors == [k \in 1..N |-> [req |-> ord[order[k]], kind |-> "error", n |-> 0]]
<1>3. failed \subseteq Ids /\ IsFiniteSet(failed) /\ N \in Nat
  <2>1. failed \subseteq Ids /\ IsFiniteSet(Ids)
    BY IdsType, FS_Interval DEF TypeOK, Ids
  <2> QED
    BY <2>1, FS_Subset, FS_CardinalityType
<1>4. \A i \in failed : \E k \in 1..N : order[k] = i
  <2>1. IsFiniteSet(1..N) /\ Cardinality(1..N) = N
    BY <1>3, FS_Interval
  <2>2. order \in Injection(1..N, failed)
    <3> HIDE DEF N, failed
    <3>1. order \in [1..N -> failed] /\ DOMAIN order = 1..N
      BY <1>2
    <3>2. IsInjective(order)
      BY <1>2, <3>1 DEF IsInjective
    <3> QED
      BY <3>1, <3>2 DEF Injection
  <2>3. order \in Surjection(1..N, failed)
    BY <1>3, <2>1, <2>2, FS_Injection DEF Bijection
  <2> QED
    BY <2>3 DEF Surjection
<1>5. /\ w \in Seq(Frame) /\ errors \in Seq(Frame) /\ Len(errors) = N
      /\ out'[d].wire = w \o errors
  <2>1. \A k \in 1..N : ord[order[k]] \in Nat
    BY <1>2, <1>3 DEF TypeOK
  <2>2. errors \in [1..N -> Frame]
    BY <2>1 DEF Frame, FrameKind, Whole
  <2>3. errors \in Seq(Frame) /\ Len(errors) = N
    <3> HIDE DEF errors, N
    <3>1. errors \in Seq(Frame)
      BY <1>3, <2>2
    <3>2. 1..Len(errors) = 1..N /\ Len(errors) \in Nat
      BY <2>2, <3>1
    <3>3. /\ Len(errors) # 0 => Len(errors) \in 1..N
          /\ N # 0 => N \in 1..Len(errors)
      BY <1>3, <3>2
    <3> QED
      BY <1>3, <3>1, <3>2, <3>3
  <2> QED
    BY <1>2, <2>3 DEF TypeOK, Outlet
<1>6. /\ DOMAIN w = 1..Len(w) /\ Len(w) \in Nat
      /\ DOMAIN (w \o errors) = 1..(Len(w) + N)
      /\ \A p \in 1..Len(w) : (w \o errors)[p] = w[p]
      /\ \A k \in 1..N : /\ (w \o errors)[Len(w) + k].req = ord[order[k]]
                         /\ (w \o errors)[Len(w) + k].kind = "error"
  <2>1. /\ DOMAIN w = 1..Len(w) /\ Len(w) \in Nat
        /\ DOMAIN (w \o errors) = 1..(Len(w) + N)
        /\ \A p \in 1..Len(w) : (w \o errors)[p] = w[p]
        /\ \A k \in 1..N : (w \o errors)[Len(w) + k] = errors[k]
    <3> HIDE DEF errors, w, N
    <3>1. /\ w \o errors \in Seq(Frame)
          /\ Len(w \o errors) = Len(w) + N
          /\ \A p \in 1..Len(w) + N :
                (w \o errors)[p] = IF p <= Len(w) THEN w[p] ELSE errors[p - Len(w)]
      BY <1>5, ConcatProperties
    <3>2. DOMAIN w = 1..Len(w) /\ Len(w) \in Nat /\ DOMAIN (w \o errors) = 1..(Len(w) + N)
      BY <1>5, <3>1
    <3>3. \A k \in 1..N : Len(w) + k \in 1..(Len(w) + N) /\ ~(Len(w) + k <= Len(w))
                          /\ (Len(w) + k) - Len(w) = k
      BY <1>3, <3>2
    <3> QED
      BY <1>3, <3>1, <3>2, <3>3
  <2>2. \A k \in 1..N : errors[k].req = ord[order[k]] /\ errors[k].kind = "error"
    OBVIOUS
  <2> QED
    BY <2>1, <2>2
<1> HIDE DEF errors, w, failed, N
<1>7. ASSUME NEW p \in DOMAIN out'[d].wire, p \notin DOMAIN out[d].wire
      PROVE  Fresh(d, out'[d].wire[p])
  <2>1. p \in 1..(Len(w) + N) /\ p \notin 1..Len(w)
    BY <1>5, <1>6, <1>7 DEF w
  <2>2. PICK k \in 1..N : p = Len(w) + k
    <3>1. Len(w) \in Nat /\ p - Len(w) \in 1..N /\ p = Len(w) + (p - Len(w))
      BY <1>3, <1>6, <2>1
    <3> QED
      BY <3>1
  <2>3. out'[d].wire[p].req = ord[order[k]] /\ order[k] \in failed
    BY <1>2, <1>5, <1>6, <2>2 DEF failed
  <2>4. /\ order[k] \in responses[d] /\ order[k] \notin streams[d]
        /\ order[k] \notin responses'[d]
    BY <1>1, <2>3 DEF failed, OneMap, TypeOK
  <2> QED
    BY <1>1, <2>3, <2>4 DEF Fresh
<1>8. WireShape(d)
  BY <1>3, <1>5, <1>6, <1>7 DEF WireShape, Extends, w
<1>9. \A i \in failed : Completes(d, i)
  <2> TAKE i \in failed
  <2>1. PICK k \in 1..N : order[k] = i
    BY <1>4
  <2>2. Len(w) + k \in DOMAIN out'[d].wire
    BY <1>3, <1>5, <1>6
  <2>3. out'[d].wire[Len(w) + k].req = ord[i] /\ out'[d].wire[Len(w) + k].kind = "error"
    BY <1>5, <1>6, <2>1
  <2> QED
    BY <2>2, <2>3 DEF Completes, Whole
<1>10. ASSUME NEW c \in Conns PROVE WireShape(c) /\ MapShape(c) /\ ConnShape(c)
  <2>1. CASE c # d
    <3>1. out'[c] = out[c] /\ responses'[c] = responses[c]
      BY <1>1, <1>2, <2>1 DEF TypeOK
    <3> QED
      BY <1>1, <3>1 DEF WireShape, MapShape, ConnShape, Extends, TypeOK
  <2>2. CASE c = d
    <3>1. responses'[d] = responses[d] \ failed
      BY <1>1 DEF TypeOK
    <3>2. MapShape(d)
      BY <1>1, <1>9, <3>1 DEF MapShape
    <3> QED
      BY <1>1, <1>8, <2>2, <3>2 DEF ConnShape, TypeOK
  <2> QED
    BY <2>1, <2>2
<1> QED
  BY <1>1, <1>10 DEF StepShape, RequestShape

\* handle_write: at most one more frame of the connection's synchronous stream.
LEMMA WriteShape ==
  ASSUME TypeOK, NEW d \in Conns, HandleWrite(d)
  PROVE  StepShape
<1>1. /\ UNCHANGED <<phase, reqs, owner, ord, responses, streams>>
      /\ \A i \in Ids : pc'[i] = "none" <=> pc[i] = "none"
  BY DEF HandleWrite, Notify
<1> DEFINE x == ctx[d]
<1>2. PICK sent \in 1..out[d].len : \E pumped \in PumpStream(d, Drain(out[d], sent)) :
         /\ out' = [out EXCEPT ![d] = pumped.out]
         /\ ctx' = [ctx EXCEPT ![d] = pumped.ctx]
  BY DEF HandleWrite
<1> DEFINE o == Drain(out[d], sent)
<1>3. PICK pumped \in PumpStream(d, o) :
         /\ out' = [out EXCEPT ![d] = pumped.out]
         /\ ctx' = [ctx EXCEPT ![d] = pumped.ctx]
  BY <1>2
<1>4. o \in Outlet /\ o.wire = out[d].wire /\ o.busy \in BOOLEAN
  BY DEF Drain, Outlet, TypeOK
<1>5. x.req \in Nat /\ x.n + 1 \in Nat
  BY DEF TypeOK, Context
<1>6. \/ pumped.out = o /\ pumped.ctx = x
      \/ /\ x.on
         /\ pumped.ctx.on => pumped.ctx.req = x.req
         /\ \E size \in Nat : pumped.out = MgHttpWriteChunk(o, x.req, x.n + 1, size)
  <2> HIDE DEF o
  <2>1. \/ pumped = [out |-> o, ctx |-> x]
        \/ /\ x.on
           /\ pumped = [out |-> MgHttpWriteChunk(o, x.req, x.n + 1, 0), ctx |-> NoContext]
        \/ /\ x.on
           /\ \E size \in ChunkSizes :
                 pumped = [out |-> MgHttpWriteChunk(o, x.req, x.n + 1, size),
                           ctx |-> [on |-> TRUE, req |-> x.req, n |-> x.n + 1]]
    BY DEF PumpStream
  <2> QED
    BY <2>1, StreamAssumption DEF NoContext
<1>7. WireShape(d)
  <2>1. CASE pumped.out = o
    <3>1. out'[d].wire = out[d].wire
      BY <1>3, <1>4, <2>1 DEF TypeOK
    <3> QED
      BY <3>1 DEF WireShape, Extends
  <2>2. CASE x.on /\ \E size \in Nat : pumped.out = MgHttpWriteChunk(o, x.req, x.n + 1, size)
    <3>1. PICK kind \in {"chunk", "last"}, busy \in BOOLEAN :
             pumped.out = Put(o, x.req, kind, x.n + 1, busy)
      BY <1>4, <2>2 DEF MgHttpWriteChunk
    <3> DEFINE f == [req |-> x.req, kind |-> kind, n |-> x.n + 1]
    <3>2. f \in Frame /\ f.req = x.req /\ f.kind = kind /\ f.n = x.n + 1
      BY <1>5 DEF Frame, FrameKind
    <3> HIDE DEF o, f
    <3>3. AddsOne(o.wire, Put(o, f.req, f.kind, f.n, busy).wire, f)
      BY <1>4, <3>2, PutAdds
    <3>4. out'[d] = Put(o, f.req, f.kind, f.n, busy)
      BY <1>3, <3>1, <3>2 DEF TypeOK
    <3>5. AddsOne(out[d].wire, out'[d].wire, f)
      BY <1>4, <3>3, <3>4
    <3>6. Fresh(d, f)
      BY <2>2, <3>2 DEF Fresh
    <3> QED
      BY <3>5, <3>6 DEF WireShape, AddsOne
  <2> QED
    BY <1>6, <2>1, <2>2
<1>8. ASSUME NEW c \in Conns PROVE WireShape(c) /\ MapShape(c) /\ ConnShape(c)
  <2>1. ctx'[c].on => ctx[c].on /\ ctx'[c].req = ctx[c].req
    <3> HIDE DEF o
    <3> QED
      BY <1>3, <1>6 DEF TypeOK
  <2>2. MapShape(c) /\ ConnShape(c)
    BY <1>1, <2>1 DEF MapShape, ConnShape, TypeOK
  <2>3. CASE c # d
    <3>1. out'[c] = out[c]
      BY <1>3, <2>3 DEF TypeOK
    <3> QED
      BY <2>2, <3>1 DEF WireShape, Extends
  <2> QED
    BY <1>7, <2>2, <2>3
<1> QED
  BY <1>1, <1>8 DEF StepShape, RequestShape

-----------------------------------------------------------------------------
\* What the shape of a step rests on.
MapInv == WakeupInv /\ OneMap /\ LoadedStateFresh /\ Sized

\* Every step has the shape.
LEMMA EveryStepShape == TypeOK /\ MapInv /\ [Next]_vars => StepShape
<1> SUFFICES ASSUME TypeOK, MapInv, [Next]_vars
             PROVE  StepShape
  OBVIOUS
<1> USE DEF MapInv
<1>1. CASE \E c \in Conns : Accept(c) \/ HandleClose(c)
  BY <1>1, ConnectionShape
<1>2. CASE \E c \in Conns : HttpMessage(c)
  BY <1>2, ServeShape, AsyncShape DEF HttpMessage
<1>3. CASE \E c \in Conns : HandlePoll(c) \/ HandleWrite(c)
  BY <1>3, PollShape, WriteShape
<1>4. CASE HandleWakeup \/ Finish
  BY <1>4, WakeupShape, FinishShape
<1>5. CASE \E i \in Ids : Worker(i)
  BY <1>5, WorkerShape
<1>6. CASE Stop \/ Release \/ UNCHANGED vars
  BY <1>6, QuietShape DEF Stop, Release, vars, mongooseVars, streamVars, workerVars,
                          endpointVars
<1> QED
  BY <1>1, <1>2, <1>3, <1>4, <1>5, <1>6 DEF Next

\* A request moves from one map to the other, and a new one is in neither.
LEMMA OneMapStep ==
  ASSUME TypeOK, WakeupInv, OneMap, StepShape
  PROVE  OneMap'
<1> SUFFICES ASSUME NEW c \in Conns, NEW i \in responses'[c], i \in streams'[c]
             PROVE  FALSE
  BY DEF OneMap
<1>1. i \in streams[c] \/ (i \in responses[c] /\ i \notin responses'[c])
  BY DEF StepShape, MapShape
<1>2. i \in streams[c] => i \notin responses[c] /\ pc[i] # "none"
  BY DEF OneMap, WakeupInv, Entries, Streaming, Turn
<1>3. i \in responses[c] \/ pc[i] = "none"
  BY DEF StepShape, MapShape, Registers
<1> QED
  BY <1>1, <1>2, <1>3

\* Only send() publishes a chunk, and handle_stream loads what it sends for.
LEMMA SizedStep ==
  ASSUME TypeOK, Sized, [Next]_vars
  PROVE  Sized'
<1> USE DEF TypeOK
<1>1. CASE \E i \in Ids : Worker(i)
  <2>1. PICK i \in Ids : Worker(i)
    BY <1>1
  <2>2. UNCHANGED loop
    BY <2>1 DEF Worker, endpointVars
  <2>3. CASE SendChunk(i)
    BY <2>2, <2>3 DEF SendChunk, Sized
  <2>4. CASE StreamOpen(i)
    BY <2>2, <2>4 DEF StreamOpen, Sized, streamVars
  <2>5. CASE CloseStream(i) \/ WakeStream(i)
    BY <2>2, <2>5 DEF CloseStream, WakeStream, Sized
  <2>6. CASE UNCHANGED streamVars
    BY <2>2, <2>6 DEF streamVars, Sized
  <2> QED
    BY <2>1, <2>3, <2>4, <2>5, <2>6
       DEF Worker, Responder, Producer, SendOpen, SendWake, SendMark, StreamWake,
           StreamPublish, StreamReturn, WaitReturn, WaitPark
<1>2. CASE HandleWakeup
  <2>1. UNCHANGED streamVars /\ (loop'.op = "stream" => loop'.seen \in {"start", "has_data", "close"})
    BY <1>2 DEF HandleWakeup, WakeUnknown, WakeResponse, WakeStreamOf, TakeWakeup, Idle
  <2> QED
    BY <2>1 DEF Sized, streamVars
<1>3. CASE Finish
  <2>1. loop' = Idle
    BY <1>3 DEF Finish, FinishReply, FinishData, FinishClose
  <2>2. ASSUME NEW i \in Ids
        PROVE  sState'[i] = "has_data" => sState[i] = "has_data" /\ sData'[i] = sData[i]
    BY <1>3 DEF Finish, FinishReply, FinishData, FinishClose, streamVars
  <2> QED
    BY <2>1, <2>2 DEF Sized, Idle
<1>4. CASE \E c \in Conns : HandleWrite(c) \/ HandleClose(c)
  <2>1. /\ UNCHANGED <<loop, sData>>
        /\ \A i \in Ids : sState'[i] = "has_data" => sState[i] = "has_data"
    BY <1>4 DEF HandleWrite, HandleClose
  <2> QED
    BY <2>1 DEF Sized
<1>5. CASE \E c \in Conns : Accept(c) \/ HttpMessage(c) \/ HandlePoll(c)
  BY <1>5 DEF Accept, HttpMessage, ServeReply, ServeStream, ServeSilent, ServeAsync, Dispatch,
              HandlePoll, streamVars, Sized
<1>6. CASE Stop \/ Release \/ UNCHANGED vars
  BY <1>6 DEF Stop, Release, vars, streamVars, endpointVars, Sized
<1> QED
  BY <1>1, <1>2, <1>3, <1>4, <1>5, <1>6 DEF Next

\* MapInv is an invariant of the endpoint.
THEOREM MapInvariant == Spec => []MapInv
<1>1. Init => OneMap /\ Sized
  BY DEF Init, Idle, OneMap, Sized
<1>2. TypeOK /\ MapInv /\ [Next]_vars => OneMap' /\ Sized'
  BY EveryStepShape, OneMapStep, SizedStep DEF MapInv
<1>3. MapInv <=> WakeupInv /\ OneMap /\ LoadedStateFresh /\ Sized
  BY DEF MapInv
<1> QED
  BY <1>1, <1>2, <1>3, TypeCorrect, WakeupInvariant, LoadsStayFresh, PTL DEF Spec

\* The endpoint forgets no request of an open connection whose answer is not
\* complete.
THEOREM RequestsAreKept == Spec => []NothingForgotten
<1>1. Init => NothingForgotten
  BY DEF Init, NothingForgotten
<1>2. TypeOK /\ MapInv /\ NothingForgotten /\ [Next]_vars => NothingForgotten'
  <2> SUFFICES ASSUME TypeOK, MapInv, NothingForgotten, StepShape, NEW i \in Ids,
                      pc'[i] # "none", phase'[owner'[i]] = "open"
               PROVE  Known(i)' \/ Answered(i)'
    BY EveryStepShape DEF NothingForgotten
  <2>1. CASE Registers(i)
    BY <2>1 DEF Registers, Known
  <2>2. CASE ~Registers(i)
    <3> DEFINE c == owner[i]
    <3>1. owner'[i] = c /\ ord'[i] = ord[i] /\ pc[i] # "none" /\ c \in Conns
      BY <2>2 DEF StepShape, RequestShape, TypeOK
    <3>2. phase[c] = "open"
      BY <3>1 DEF StepShape, ConnShape, MapInv, WakeupInv, Remembered
    <3>3. CASE Known(i)
      <4>1. i \in responses'[c] \union streams'[c] \/ Completes(c, i)
        BY <3>1, <3>3 DEF StepShape, MapShape, Known
      <4> QED
        BY <3>1, <4>1 DEF Known, Answered, Completes
    <3>4. CASE Answered(i)
      BY <3>1, <3>4 DEF Answered, StepShape, WireShape, Extends
    <3> QED
      BY <3>1, <3>2, <3>3, <3>4 DEF NothingForgotten
  <2> QED
    BY <2>1, <2>2
<1> QED
  BY <1>1, <1>2, TypeCorrect, MapInvariant, PTL DEF Spec

-----------------------------------------------------------------------------
\* The requests of a connection are numbered in the order they are dispatched:
\* no two workers and no synchronous stream answer the same one.
Numbered ==
    /\ \A i \in Ids : pc[i] # "none" => ord[i] \in 1..reqs[owner[i]]
    /\ \A i, j \in Ids :
          pc[i] # "none" /\ pc[j] # "none" /\ owner[i] = owner[j] /\ ord[i] = ord[j] => i = j
    /\ \A c \in Conns : ctx[c].on =>
          /\ ctx[c].req \in 1..reqs[c]
          /\ \A i \in Ids : pc[i] # "none" /\ owner[i] = c => ord[i] # ctx[c].req
    /\ \A c \in Conns : \A p \in DOMAIN out[c].wire : out[c].wire[p].req <= reqs[c]

\* An entry of a map is a request of that connection, whose worker has begun.
LEMMA EntryRequest ==
  ASSUME TypeOK, WakeupInv, NEW c \in Conns, NEW i \in responses[c] \union streams[c]
  PROVE  i \in Ids /\ owner[i] = c /\ pc[i] # "none"
  BY DEF TypeOK, WakeupInv, Entries, Streaming, Turn

\* The frames on a wire are frames.
LEMMA WireFrames ==
  ASSUME TypeOK, NEW c \in Conns, NEW p \in DOMAIN out[c].wire
  PROVE  out[c].wire[p].req \in Nat
<1>1. out[c].wire \in Seq(Frame)
  BY DEF TypeOK, Outlet
<1>2. out[c].wire[p] \in Frame
  BY <1>1
<1> QED
  BY <1>2 DEF Frame

\* A new frame answers the request being dispatched or one before it.
LEMMA FreshRequest ==
  ASSUME TypeOK, WakeupInv, Numbered, NEW c \in Conns, NEW f, Fresh(c, f)
  PROVE  \/ f.req = reqs[c] + 1 /\ reqs'[c] = reqs[c] + 1 /\ pc' = pc
         \/ f.req \in 1..reqs[c]
<1>1. CASE \E i \in responses[c] \union streams[c] : f.req = ord[i]
  BY <1>1, EntryRequest DEF Numbered
<1>2. CASE f.req = ctx[c].req /\ ctx[c].on
  BY <1>2 DEF Numbered
<1> QED
  BY <1>1, <1>2 DEF Fresh

\* Numbers are given once.
LEMMA NumberedStep ==
  ASSUME TypeOK, TypeOK', WakeupInv, Numbered, StepShape
  PROVE  Numbered'
<1>1. \A c \in Conns : reqs[c] \in Nat /\ reqs'[c] \in {reqs[c], reqs[c] + 1}
  BY DEF TypeOK, StepShape, ConnShape
<1>2. ASSUME NEW i \in Ids, pc'[i] # "none"
      PROVE  /\ owner'[i] \in Conns
             /\ \/ /\ Registers(i) /\ ord'[i] = reqs[owner'[i]] + 1
                   /\ reqs'[owner'[i]] = reqs[owner'[i]] + 1
                \/ /\ pc[i] # "none" /\ owner'[i] = owner[i] /\ ord'[i] = ord[i]
                   /\ ord[i] \in 1..reqs[owner[i]]
  BY <1>2 DEF TypeOK, StepShape, RequestShape, Registers, Numbered
<1>3. ASSUME NEW i \in Ids, pc'[i] # "none"
      PROVE  ord'[i] \in 1..reqs'[owner'[i]]
  BY <1>1, <1>2, <1>3
<1>4. ASSUME NEW i \in Ids, NEW j \in Ids, pc'[i] # "none", pc'[j] # "none",
             owner'[i] = owner'[j], ord'[i] = ord'[j]
      PROVE  i = j
  <2>1. CASE Registers(i) /\ Registers(j)
    BY <2>1 DEF Registers
  <2>2. CASE ~Registers(i) /\ ~Registers(j)
    BY <1>2, <1>4, <2>2 DEF Numbered
  <2>3. ASSUME NEW k \in Ids, NEW l \in Ids, pc'[k] # "none", pc'[l] # "none",
               owner'[k] = owner'[l], Registers(k), ~Registers(l)
        PROVE  ord'[k] # ord'[l]
    <3>1. ord'[k] = reqs[owner'[k]] + 1 /\ owner'[k] \in Conns
      BY <1>2, <2>3 DEF Registers
    <3>2. ord'[l] \in 1..reqs[owner'[l]]
      BY <1>2, <2>3
    <3> QED
      BY <1>1, <2>3, <3>1, <3>2
  <2> QED
    BY <1>4, <2>1, <2>2, <2>3
<1>5. ASSUME NEW c \in Conns, ctx'[c].on
      PROVE  /\ ctx'[c].req \in 1..reqs'[c]
             /\ \A i \in Ids : pc'[i] # "none" /\ owner'[i] = c => ord'[i] # ctx'[c].req
  <2>1. CASE ctx[c].on /\ ctx'[c].req = ctx[c].req
    <3>1. ctx[c].req \in 1..reqs[c]
      BY <2>1 DEF Numbered
    <3>2. ASSUME NEW i \in Ids, pc'[i] # "none", owner'[i] = c
          PROVE  ord'[i] # ctx'[c].req
      <4>1. CASE Registers(i)
        <5>1. ord'[i] = reqs[c] + 1
          BY <3>2, <4>1 DEF Registers
        <5> QED
          BY <1>1, <2>1, <3>1, <5>1
      <4>2. CASE ~Registers(i)
        BY <1>2, <2>1, <3>2, <4>2 DEF Numbered
      <4> QED
        BY <4>1, <4>2
    <3> QED
      BY <1>1, <2>1, <3>1, <3>2
  <2>2. CASE ctx'[c].req = reqs'[c] /\ reqs'[c] = reqs[c] + 1 /\ pc' = pc
    <3>1. ASSUME NEW i \in Ids, pc'[i] # "none", owner'[i] = c
          PROVE  ord'[i] # ctx'[c].req
      <4>1. ~Registers(i)
        BY <2>2, <3>1 DEF Registers
      <4> QED
        BY <1>1, <1>2, <2>2, <3>1, <4>1
    <3> QED
      BY <1>1, <2>2, <3>1
  <2> QED
    BY <1>5, <2>1, <2>2 DEF StepShape, ConnShape
<1>6. ASSUME NEW c \in Conns, NEW p \in DOMAIN out'[c].wire
      PROVE  out'[c].wire[p].req <= reqs'[c]
  <2>1. CASE p \in DOMAIN out[c].wire
    <3>1. out'[c].wire[p] = out[c].wire[p] /\ out[c].wire[p].req <= reqs[c]
      BY <2>1 DEF StepShape, WireShape, Extends, Numbered
    <3>2. out[c].wire[p].req \in Nat
      BY <2>1, WireFrames
    <3> QED
      BY <1>1, <3>1, <3>2
  <2>2. CASE Fresh(c, out'[c].wire[p])
    BY <1>1, <2>2, FreshRequest
  <2> QED
    BY <2>1, <2>2 DEF StepShape, WireShape
<1> QED
  BY <1>3, <1>4, <1>5, <1>6 DEF Numbered

\* Numbered is an invariant of the endpoint.
THEOREM NumberedInvariant == Spec => []Numbered
<1>1. Init => Numbered
  BY DEF Init, MongooseInit, NoContext, Numbered
<1>2. TypeOK /\ TypeOK' /\ MapInv /\ Numbered /\ [Next]_vars => Numbered'
  BY EveryStepShape, NumberedStep DEF MapInv
<1> QED
  BY <1>1, <1>2, TypeCorrect, MapInvariant, PTL DEF Spec

\* Nothing but the frames of a stream that goes on is on the wire for an entry
\* of the maps, unless a producer sends an empty chunk.
THEOREM EntriesAreUnanswered ==
  ASSUME 0 \notin ChunkSizes
  PROVE  Spec => []PendingUnanswered
<1>1. Init => PendingUnanswered
  BY DEF Init, PendingUnanswered
<1>2. TypeOK /\ TypeOK' /\ MapInv /\ WakeupInv' /\ OneMap' /\ Numbered /\ PendingUnanswered
        /\ [Next]_vars => PendingUnanswered'
  <2> SUFFICES ASSUME TypeOK, TypeOK', MapInv, WakeupInv', OneMap', Numbered, PendingUnanswered,
                      StepShape, NEW c \in Conns, NEW i \in responses'[c] \union streams'[c]
               PROVE  /\ owner'[i] = c /\ phase'[c] = "open"
                      /\ \A p \in DOMAIN out'[c].wire :
                            out'[c].wire[p].req = ord'[i] =>
                               i \in streams'[c] /\ out'[c].wire[p].kind \in {"preamble", "chunk"}
    BY EveryStepShape DEF PendingUnanswered, OneMap
  <2>1. i \in Ids /\ owner'[i] = c
    BY DEF WakeupInv, Entries, TypeOK
  <2>2. WakeupInv /\ OneMap
    BY DEF MapInv
  <2>3. CASE i \in responses[c] \union streams[c]
    <3>1. owner[i] = c /\ pc[i] # "none" /\ phase[c] = "open"
      BY <2>2, <2>3, EntryRequest DEF PendingUnanswered
    <3>2. phase'[c] = "open"
      BY <3>1 DEF StepShape, ConnShape
    <3>3. ord'[i] = ord[i]
      BY <2>1, <3>1 DEF StepShape, RequestShape, Registers
    <3>4. i \in streams[c] => i \in streams'[c]
      BY <2>2, <2>3, <3>1 DEF StepShape, MapShape, OneMap, Registers
    <3>5. ASSUME NEW p \in DOMAIN out'[c].wire, out'[c].wire[p].req = ord[i]
          PROVE  i \in streams'[c] /\ out'[c].wire[p].kind \in {"preamble", "chunk"}
      <4>1. CASE p \in DOMAIN out[c].wire
        <5>1. out'[c].wire[p] = out[c].wire[p]
          BY <4>1 DEF StepShape, WireShape, Extends
        <5> QED
          BY <2>3, <3>4, <3>5, <4>1, <5>1 DEF PendingUnanswered
      <4>2. CASE Fresh(c, out'[c].wire[p])
        <5>1. ord[i] \in 1..reqs[c] /\ reqs[c] \in Nat
          BY <2>1, <3>1 DEF Numbered, TypeOK
        <5>2. ~(ctx[c].on /\ ctx[c].req = ord[i])
          BY <2>1, <3>1 DEF Numbered
        <5>3. PICK j \in responses[c] \union streams[c] :
                 /\ ord[i] = ord[j]
                 /\ \/ j \notin responses'[c] \union streams'[c]
                    \/ j \in streams[c] /\ out'[c].wire[p].kind \in Continuing
          BY <3>5, <4>2, <5>1, <5>2 DEF Fresh
        <5>4. j = i
          BY <2>1, <2>2, <3>1, <5>3, EntryRequest DEF Numbered
        <5> QED
          BY <3>4, <5>3, <5>4 DEF Continuing
      <4> QED
        BY <4>1, <4>2 DEF StepShape, WireShape
    <3> QED
      BY <2>1, <3>2, <3>3, <3>5
  <2>4. CASE i \notin responses[c] \union streams[c]
    <3>1. Registers(i)
      BY <2>4 DEF StepShape, MapShape
    <3>2. phase'[c] = "open" /\ ord'[i] = reqs[c] + 1 /\ pc' # pc /\ reqs[c] \in Nat
      BY <2>1, <3>1 DEF Registers, TypeOK
    <3>3. ASSUME NEW p \in DOMAIN out'[c].wire
          PROVE  out'[c].wire[p].req # ord'[i]
      <4>1. CASE p \in DOMAIN out[c].wire
        <5>1. out'[c].wire[p] = out[c].wire[p] /\ out[c].wire[p].req <= reqs[c]
          BY <4>1 DEF StepShape, WireShape, Extends, Numbered
        <5>2. out[c].wire[p].req \in Nat
          BY <4>1, WireFrames
        <5> QED
          BY <3>2, <5>1, <5>2
      <4>2. CASE Fresh(c, out'[c].wire[p])
        BY <2>2, <3>2, <4>2, FreshRequest
      <4> QED
        BY <4>1, <4>2 DEF StepShape, WireShape
    <3> QED
      BY <2>1, <3>2, <3>3
  <2> QED
    BY <2>3, <2>4
<1>3. MapInv => WakeupInv /\ OneMap
  BY DEF MapInv
<1> QED
  BY <1>1, <1>2, <1>3, TypeCorrect, MapInvariant, NumberedInvariant, PTL DEF Spec

=============================================================================
