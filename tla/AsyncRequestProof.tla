------------------------- MODULE AsyncRequestProof -------------------------
(***************************************************************************)
(* Theorems about http::async_request: a copy reads what the request read, *)
(* for every layout of memory and every parsed message, and a certificate  *)
(* that a worker has locked is its connection's, viewed field by field.    *)
(***************************************************************************)
EXTENDS AsyncRequest, SequenceTheorems, TLAPS

-----------------------------------------------------------------------------
\* The message as it would be, had mongoose parsed it at address b.
ParsedAt(b, msg) ==
    [line |-> [f \in DOMAIN msg.line |-> At(b, msg.line[f])],
     headers |-> [k \in 1..MaxHeaders |->
                    [name |-> At(b, msg.headers[k].name),
                     value |-> At(b, msg.headers[k].value)]],
     groups |-> [k \in DOMAIN msg.groups |-> At(b, msg.groups[k])]]

\* A slice moved from the receive buffer to b; only an absent one is null.
LEMMA MovedSlice ==
  ASSUME NEW slice, WithinMessage(slice), NEW b \in CopyBases
  PROVE  /\ Rebase(At(RecvBase, slice), b - RecvBase) = At(b, slice)
         /\ At(RecvBase, slice).buf = 0 <=> slice = Absent
<1>1. RecvBase \in Nat \ {0} /\ b \in Nat \ {0}
  BY AsyncRequestAssumption
<1>2. CASE slice = Absent
  BY <1>2 DEF Rebase, At, Null
<1>3. CASE slice # Absent
  <2>1. slice.buf \in Nat /\ slice.len \in Nat
    BY <1>3 DEF WithinMessage
  <2>2. At(RecvBase, slice) = [buf |-> RecvBase + slice.buf, len |-> slice.len]
    BY <1>3 DEF At
  <2>3. RecvBase + slice.buf # 0 /\ RecvBase + slice.buf + (b - RecvBase) = b + slice.buf
    BY <1>1, <2>1
  <2>4. At(b, slice) = [buf |-> b + slice.buf, len |-> slice.len]
    BY <1>3 DEF At
  <2> QED
    BY <1>3, <2>2, <2>3, <2>4 DEF Rebase
<1> QED
  BY <1>2, <1>3

\* The constructor leaves the message as if it had been parsed in the copy; the
\* loop over the headers stops where there is nothing left to move.
LEMMA CopyIsParsed ==
  ASSUME NEW msg \in Messages, NEW b \in CopyBases
  PROVE  MakeCopy(b, Received(msg)) = ParsedAt(b, msg)
<1>1. PICK req, delta : req = Received(msg) /\ delta = b - RecvBase
  OBVIOUS
<1>2. [f \in DOMAIN req.line |-> Rebase(req.line[f], delta)] = ParsedAt(b, msg).line
  <2>1. /\ DOMAIN req.line = DOMAIN msg.line
        /\ \A f \in DOMAIN msg.line : req.line[f] = At(RecvBase, msg.line[f])
    BY <1>1 DEF Received
  <2>2. \A f \in DOMAIN msg.line : Rebase(req.line[f], delta) = At(b, msg.line[f])
    BY <1>1, <2>1, MovedSlice, MessagesAssumption
  <2> QED
    BY <2>1, <2>2 DEF ParsedAt
<1>3. [k \in DOMAIN req.groups |-> Rebase(req.groups[k], delta)] = ParsedAt(b, msg).groups
  <2>1. /\ DOMAIN req.groups = DOMAIN msg.groups
        /\ \A k \in DOMAIN msg.groups : req.groups[k] = At(RecvBase, msg.groups[k])
    BY <1>1 DEF Received
  <2>2. \A k \in DOMAIN msg.groups : Rebase(req.groups[k], delta) = At(b, msg.groups[k])
    BY <1>1, <2>1, MovedSlice, MessagesAssumption
  <2> QED
    BY <2>1, <2>2 DEF ParsedAt
<1>4. RebaseHeaders(req.headers, delta) = ParsedAt(b, msg).headers
  <2>1. \A k \in 1..MaxHeaders :
           /\ req.headers[k].name = At(RecvBase, msg.headers[k].name)
           /\ req.headers[k].value = At(RecvBase, msg.headers[k].value)
    BY <1>1 DEF Received
  <2>2. ASSUME NEW k \in 1..MaxHeaders
        PROVE  /\ WithinMessage(msg.headers[k].name) /\ WithinMessage(msg.headers[k].value)
               /\ \A j \in 1..(k - 1) : msg.headers[j].name = Absent =>
                     msg.headers[k].name = Absent /\ msg.headers[k].value = Absent
    BY MessagesAssumption
  <2>3. ASSUME NEW k \in 1..MaxHeaders
        PROVE  /\ Rebase(req.headers[k].name, delta) = At(b, msg.headers[k].name)
               /\ Rebase(req.headers[k].value, delta) = At(b, msg.headers[k].value)
               /\ req.headers[k].name.buf = 0 <=> msg.headers[k].name = Absent
    BY <1>1, <2>1, <2>2, MovedSlice
  <2>4. ASSUME NEW k \in 1..MaxHeaders, NEW j \in 1..(k - 1), req.headers[j].name.buf = 0
        PROVE  NoHeader = [name |-> At(b, msg.headers[k].name),
                           value |-> At(b, msg.headers[k].value)]
    <3>1. j \in 1..MaxHeaders
      BY AsyncRequestAssumption
    <3>2. msg.headers[k].name = Absent /\ msg.headers[k].value = Absent
      BY <2>2, <2>3, <2>4, <3>1
    <3> QED
      BY <3>2 DEF NoHeader, At
  <2>5. ASSUME NEW k \in 1..MaxHeaders
        PROVE  (IF \E j \in 1..(k - 1) : req.headers[j].name.buf = 0 THEN NoHeader
                ELSE [name |-> Rebase(req.headers[k].name, delta),
                      value |-> Rebase(req.headers[k].value, delta)])
               = [name |-> At(b, msg.headers[k].name), value |-> At(b, msg.headers[k].value)]
    BY <2>3, <2>4
  <2> QED
    BY <2>5 DEF RebaseHeaders, ParsedAt
<1> QED
  BY <1>1, <1>2, <1>3, <1>4 DEF MakeCopy, ParsedAt

-----------------------------------------------------------------------------
\* The text of a slice.
Text(slice, bytes) == [k \in 0..(slice.len - 1) |-> bytes[slice.buf + k]]

\* A byte of a copy in use is the byte of the message it was made of.
LEMMA CopyByte ==
  ASSUME NEW b \in CopyBases, NEW n, n = memory[b], n # 0, NEW k \in 0..(MsgLen - 1)
  PROVE  Bytes[b + k] = <<n, k>>
<1>1. b \in Nat /\ RecvBase \in Nat /\ MsgLen \in Nat /\ b # RecvBase
  BY AsyncRequestAssumption
<1>2. PICK a : a = b + k
  OBVIOUS
<1>3. a \in Region(b) /\ a - b = k
  BY <1>1, <1>2 DEF Region
<1>4. a \notin Region(RecvBase)
  BY <1>1, <1>3, AsyncRequestAssumption
<1>5. \A c \in CopyBases : a \in Region(c) <=> c = b
  BY <1>3, AsyncRequestAssumption
<1>6. (CHOOSE c \in CopyBases : a \in Region(c)) = b
  BY <1>5
<1>7. a \in UNION {Region(c) : c \in CopyBases \union {RecvBase}}
  BY <1>3
<1>8. Bytes[a] = IF a \in Region(RecvBase) THEN <<0, 0>>
                 ELSE LET c == CHOOSE c \in CopyBases : a \in Region(c)
                      IN  IF memory[c] = 0 THEN <<0, 0>> ELSE <<memory[c], a - c>>
  BY <1>7 DEF Bytes
<1> QED
  BY <1>2, <1>3, <1>4, <1>6, <1>8

LEMMA SameText ==
  ASSUME NEW slice, WithinMessage(slice), NEW b \in CopyBases, NEW n, n = memory[b], n # 0
  PROVE  Text(At(b, slice), Bytes) = Text(At(RecvBase, slice), ReceivedBytes(n))
<1>1. RecvBase \in Nat /\ MsgLen \in Nat /\ b \in Nat
  BY AsyncRequestAssumption
<1>2. CASE slice = Absent
  <2>1. At(b, slice).len = 0 /\ At(RecvBase, slice).len = 0 /\ 0..(0 - 1) = {}
    BY <1>2 DEF At, Null
  <2> QED
    BY <2>1 DEF Text
<1>3. CASE slice # Absent
  <2>1. PICK from, len : from = slice.buf /\ len = slice.len
    OBVIOUS
  <2>2. from \in Nat /\ len \in Nat /\ from + len <= MsgLen
    BY <1>3, <2>1 DEF WithinMessage
  <2>3. /\ At(b, slice) = [buf |-> b + from, len |-> len]
        /\ At(RecvBase, slice) = [buf |-> RecvBase + from, len |-> len]
    BY <1>3, <2>1 DEF At
  <2>4. ASSUME NEW k \in 0..(len - 1)
        PROVE  Bytes[b + from + k] = ReceivedBytes(n)[RecvBase + from + k]
    <3>1. PICK i : i = from + k
      OBVIOUS
    <3>2. i \in 0..(MsgLen - 1) /\ b + from + k = b + i /\ RecvBase + from + k = RecvBase + i
      BY <1>1, <2>2, <3>1
    <3>3. Bytes[b + i] = <<n, i>>
      BY <3>2, CopyByte
    <3>4. RecvBase + i \in Region(RecvBase) /\ (RecvBase + i) - RecvBase = i
      BY <1>1, <3>2 DEF Region
    <3>5. ReceivedBytes(n)[RecvBase + i] = <<n, i>>
      BY <3>4 DEF ReceivedBytes
    <3> QED
      BY <3>2, <3>3, <3>5
  <2> QED
    BY <2>3, <2>4 DEF Text
<1> QED
  BY <1>2, <1>3

\* So every accessor of the copy reads what it reads in the request.
LEMMA SameTexts ==
  ASSUME NEW msg \in Messages, NEW b \in CopyBases, NEW n, n = memory[b], n # 0
  PROVE  Texts(ParsedAt(b, msg), Bytes) = Texts(Received(msg), ReceivedBytes(n))
<1>1. PICK p, q : p = ParsedAt(b, msg) /\ q = Received(msg)
  OBVIOUS
<1>2. /\ DOMAIN p.line = DOMAIN q.line
      /\ \A f \in DOMAIN q.line :
            Text(p.line[f], Bytes) = Text(q.line[f], ReceivedBytes(n))
  <2>1. DOMAIN p.line = DOMAIN msg.line /\ DOMAIN q.line = DOMAIN msg.line
    BY <1>1 DEF ParsedAt, Received
  <2>2. \A f \in DOMAIN msg.line : /\ p.line[f] = At(b, msg.line[f])
                                   /\ q.line[f] = At(RecvBase, msg.line[f])
    BY <1>1 DEF ParsedAt, Received
  <2> QED
    BY <2>1, <2>2, SameText, MessagesAssumption
<1>3. /\ DOMAIN p.groups = DOMAIN q.groups
      /\ \A k \in DOMAIN q.groups :
            Text(p.groups[k], Bytes) = Text(q.groups[k], ReceivedBytes(n))
  <2>1. DOMAIN p.groups = DOMAIN msg.groups /\ DOMAIN q.groups = DOMAIN msg.groups
    BY <1>1 DEF ParsedAt, Received
  <2>2. \A k \in DOMAIN msg.groups : /\ p.groups[k] = At(b, msg.groups[k])
                                     /\ q.groups[k] = At(RecvBase, msg.groups[k])
    BY <1>1 DEF ParsedAt, Received
  <2> QED
    BY <2>1, <2>2, SameText, MessagesAssumption
<1>4. \A k \in 1..MaxHeaders :
         /\ Text(p.headers[k].name, Bytes) = Text(q.headers[k].name, ReceivedBytes(n))
         /\ Text(p.headers[k].value, Bytes) = Text(q.headers[k].value, ReceivedBytes(n))
  <2>1. \A k \in 1..MaxHeaders : /\ p.headers[k].name = At(b, msg.headers[k].name)
                                 /\ p.headers[k].value = At(b, msg.headers[k].value)
                                 /\ q.headers[k].name = At(RecvBase, msg.headers[k].name)
                                 /\ q.headers[k].value = At(RecvBase, msg.headers[k].value)
    BY <1>1 DEF ParsedAt, Received
  <2> QED
    BY <2>1, SameText, MessagesAssumption
<1>5. \A req, bytes :
         Texts(req, bytes) =
            [line |-> [f \in DOMAIN req.line |-> Text(req.line[f], bytes)],
             headers |-> [k \in 1..MaxHeaders |->
                            [name |-> Text(req.headers[k].name, bytes),
                             value |-> Text(req.headers[k].value, bytes)]],
             groups |-> [k \in DOMAIN req.groups |-> Text(req.groups[k], bytes)]]
  BY DEF Texts, Text
<1> QED
  BY <1>1, <1>2, <1>3, <1>4, <1>5


-----------------------------------------------------------------------------
\* The copy of worker w was made of msg, which is still in its memory.
MadeOf(w, msg) ==
    LET b == copy[w].base
    IN  /\ copy[w].msg = ParsedAt(b, msg)
        /\ seen[w].texts = Texts(Received(msg), ReceivedBytes(memory[b]))

\* Every copy is in memory of its own.
CopyInv ==
    /\ count \in Nat
    /\ DOMAIN copy = Workers /\ DOMAIN seen = Workers /\ DOMAIN memory = CopyBases
    /\ \A w \in Workers : copy[w] # NoCopy =>
          /\ copy[w].base \in CopyBases /\ memory[copy[w].base] # 0
          /\ \E msg \in Messages : MadeOf(w, msg)
    /\ \A v, w \in Workers :
          v # w /\ copy[v] # NoCopy /\ copy[w] # NoCopy => copy[v].base # copy[w].base

\* What a step leaves of the other workers' copies.
LEMMA OtherCopies ==
  ASSUME NEW w, copy[w]' = copy[w], seen[w]' = seen[w],
         memory[copy[w].base]' = memory[copy[w].base], NEW msg, MadeOf(w, msg)
  PROVE  MadeOf(w, msg)'
BY DEF MadeOf

LEMMA ToAsyncCopies ==
  ASSUME CopyInv, NEW w \in Workers, ToAsync(w)
  PROVE  CopyInv'
<1>1. PICK msg \in Messages, b \in {a \in CopyBases : memory[a] = 0} :
         /\ copy' = [copy EXCEPT ![w] = [base |-> b, session |-> session,
                                         msg |-> MakeCopy(b, Received(msg))]]
         /\ memory' = [memory EXCEPT ![b] = count + 1]
         /\ seen' = [seen EXCEPT ![w] =
                       [session |-> session,
                        texts |-> Texts(Received(msg), ReceivedBytes(count + 1))]]
  BY DEF ToAsync
<1>2. /\ b \in CopyBases /\ memory[b] = 0 /\ count' = count + 1 /\ count + 1 \in Nat /\ count + 1 # 0
  BY DEF ToAsync, CopyInv
<1>3. DOMAIN copy' = Workers /\ DOMAIN seen' = Workers /\ DOMAIN memory' = CopyBases
  BY <1>1 DEF CopyInv
<1>4. copy'[w].base = b /\ copy'[w].msg = ParsedAt(b, msg)
  <2>1. copy'[w] = [base |-> b, session |-> session, msg |-> MakeCopy(b, Received(msg))]
    BY <1>1 DEF CopyInv
  <2> QED
    BY <1>2, <2>1, CopyIsParsed
<1>5. /\ memory'[b] = count + 1
      /\ seen'[w].texts = Texts(Received(msg), ReceivedBytes(count + 1))
  BY <1>1, <1>2 DEF CopyInv
<1>6. MadeOf(w, msg)'
  BY <1>4, <1>5 DEF MadeOf
<1>7. ASSUME NEW v \in Workers, v # w
      PROVE  copy'[v] = copy[v] /\ seen'[v] = seen[v]
  BY <1>1, <1>7 DEF CopyInv
<1>8. ASSUME NEW v \in Workers, v # w, copy[v] # NoCopy
      PROVE  /\ copy[v].base \in CopyBases /\ copy[v].base # b
             /\ memory'[copy[v].base] = memory[copy[v].base]
  BY <1>1, <1>2, <1>8 DEF CopyInv
<1>9. ASSUME NEW v \in Workers, copy'[v] # NoCopy
      PROVE  /\ copy'[v].base \in CopyBases /\ memory'[copy'[v].base] # 0
             /\ \E m \in Messages : MadeOf(v, m)'
  <2>1. CASE v = w
    BY <1>2, <1>4, <1>5, <1>6, <2>1
  <2>2. CASE v # w
    <3>1. /\ copy'[v] = copy[v] /\ seen'[v] = seen[v] /\ copy[v].base \in CopyBases
          /\ memory'[copy[v].base] = memory[copy[v].base]
      BY <1>7, <1>8, <1>9, <2>2
    <3>2. memory[copy[v].base] # 0 /\ \E m \in Messages : MadeOf(v, m)
      BY <1>9, <3>1 DEF CopyInv
    <3> QED
      BY <3>1, <3>2, OtherCopies
  <2> QED
    BY <2>1, <2>2
<1>10. ASSUME NEW v \in Workers, NEW u \in Workers, v # u, copy'[v] # NoCopy, copy'[u] # NoCopy
       PROVE  copy'[v].base # copy'[u].base
  BY <1>4, <1>7, <1>8, <1>10 DEF CopyInv
<1> QED
  BY <1>2, <1>3, <1>9, <1>10 DEF CopyInv

LEMMA DropCopies ==
  ASSUME CopyInv, NEW w \in Workers, Drop(w)
  PROVE  CopyInv'
<1>1. /\ copy[w] # NoCopy /\ copy' = [copy EXCEPT ![w] = NoCopy]
      /\ memory' = [memory EXCEPT ![copy[w].base] = 0]
      /\ UNCHANGED <<count, seen>>
  BY DEF Drop
<1>2. copy'[w] = NoCopy /\ DOMAIN copy' = Workers /\ DOMAIN memory' = CopyBases
  BY <1>1 DEF CopyInv
<1>3. ASSUME NEW v \in Workers, copy'[v] # NoCopy
      PROVE  /\ v # w /\ copy'[v] = copy[v] /\ seen'[v] = seen[v]
             /\ copy[v].base \in CopyBases /\ memory'[copy[v].base] = memory[copy[v].base]
  <2>1. v # w /\ copy'[v] = copy[v]
    BY <1>1, <1>2, <1>3 DEF CopyInv
  <2>2. copy[v].base \in CopyBases /\ copy[v].base # copy[w].base
    BY <1>1, <1>3, <2>1 DEF CopyInv
  <2> QED
    BY <1>1, <2>1, <2>2 DEF CopyInv
<1>4. ASSUME NEW v \in Workers, copy'[v] # NoCopy
      PROVE  /\ copy'[v].base \in CopyBases /\ memory'[copy'[v].base] # 0
             /\ \E m \in Messages : MadeOf(v, m)'
  <2>1. memory[copy[v].base] # 0 /\ \E m \in Messages : MadeOf(v, m)
    BY <1>3, <1>4 DEF CopyInv
  <2> QED
    BY <1>3, <1>4, <2>1, OtherCopies
<1>5. ASSUME NEW v \in Workers, NEW u \in Workers, v # u, copy'[v] # NoCopy, copy'[u] # NoCopy
      PROVE  copy'[v].base # copy'[u].base
  BY <1>3, <1>5 DEF CopyInv
<1> QED
  BY <1>1, <1>2, <1>4, <1>5 DEF CopyInv

\* As long as a worker keeps its async_request, every accessor reads what the
\* handler read in the request, whatever happened to the connection and to the
\* other requests since. (async_request, to_async)
THEOREM CopiesReadTheSame == Spec => []CopyReadsTheSame
<1>1. Init => CopyInv
  BY DEF Init, CopyInv, NoCopy
<1>2. CopyInv /\ [Next]_vars => CopyInv'
  <2> SUFFICES ASSUME CopyInv, [Next]_vars PROVE CopyInv'
    OBVIOUS
  <2>1. ASSUME NEW w \in Workers, ToAsync(w) PROVE CopyInv'
    BY <2>1, ToAsyncCopies
  <2>2. ASSUME NEW w \in Workers, Drop(w) PROVE CopyInv'
    BY <2>2, DropCopies
  <2>3. CASE \/ UNCHANGED vars \/ Accept \/ Handshake \/ Close
             \/ \E w \in Workers : Lock(w) \/ Unlock(w)
    <3>1. UNCHANGED <<count, copy, memory, seen>>
      BY <2>3 DEF vars, Accept, Handshake, Close, Lock, Unlock
    <3>2. \A w, msg : MadeOf(w, msg)' <=> MadeOf(w, msg)
      BY <3>1 DEF MadeOf
    <3> QED
      BY <3>1, <3>2 DEF CopyInv
  <2> QED
    BY <2>1, <2>2, <2>3 DEF Next
<1>3. CopyInv => CopyReadsTheSame
  <2> SUFFICES ASSUME CopyInv, NEW w \in Workers, copy[w] # NoCopy
               PROVE  Texts(copy[w].msg, Bytes) = seen[w].texts
    BY DEF CopyReadsTheSame
  <2>0. PICK msg \in Messages : MadeOf(w, msg)
    BY DEF CopyInv
  <2>1. PICK b, n : b = copy[w].base /\ n = memory[b]
    OBVIOUS
  <2>2. b \in CopyBases /\ n # 0
    BY <2>1 DEF CopyInv
  <2>3. Texts(ParsedAt(b, msg), Bytes) = Texts(Received(msg), ReceivedBytes(n))
    BY <2>1, <2>2, SameTexts
  <2> QED
    BY <2>0, <2>1, <2>3 DEF MadeOf
<1> QED
  BY <1>1, <1>2, <1>3, PTL DEF Spec

-----------------------------------------------------------------------------
(***************************************************************************)
(* The certificate of a connection: six views into one buffer.             *)
(***************************************************************************)
LEMMA MiddlePart ==
  ASSUME NEW S, NEW a \in Seq(S), NEW b \in Seq(S), NEW c \in Seq(S)
  PROVE  SubSeq(a \o (b \o c), Len(a) + 1, Len(a) + Len(b)) = b
<1>1. PICK s : s = a \o (b \o c)
  OBVIOUS
<1>2. Len(a) \in Nat /\ Len(b) \in Nat /\ Len(c) \in Nat
  OBVIOUS
<1>3. b \o c \in Seq(S) /\ Len(b \o c) = Len(b) + Len(c)
  BY ConcatProperties
<1>4. \A i \in 1..Len(b) : (b \o c)[i] = b[i]
  BY <1>2, ConcatProperties
<1>5. s \in Seq(S) /\ Len(s) = Len(a) + (Len(b) + Len(c))
  BY <1>1, <1>3, ConcatProperties
<1>6. \A i \in 1..Len(b) : s[Len(a) + i] = b[i]
  <2> TAKE i \in 1..Len(b)
  <2>1. Len(a) + i \in 1..Len(a) + Len(b \o c) /\ ~(Len(a) + i <= Len(a)) /\ Len(a) + i - Len(a) = i
    BY <1>2, <1>3
  <2>2. s[Len(a) + i] = (b \o c)[i]
    BY <1>1, <1>3, <2>1, ConcatProperties
  <2> QED
    BY <1>4, <2>2
<1>7. PICK t : t = SubSeq(s, Len(a) + 1, Len(a) + Len(b))
  OBVIOUS
<1>8. t \in Seq(S) /\ Len(t) = Len(b) /\ \A i \in 1..Len(b) : t[i] = b[i]
  BY <1>2, <1>5, <1>6, <1>7
<1> QED
  BY <1>1, <1>7, <1>8, SeqEqual

LEMMA FieldTexts ==
  ASSUME NEW sizes \in [CertFields -> Nat], NEW f \in CertFields
  PROVE  FieldText(sizes, f) \in Seq(CertFields \X Nat) /\ Len(FieldText(sizes, f)) = sizes[f]
BY DEF FieldText

\* Where each view starts.
LEMMA Starts ==
  ASSUME NEW s \in [CertFields -> Nat]
  PROVE  /\ Start(s, 1) = 0
         /\ Start(s, 2) = s[1]
         /\ Start(s, 3) = s[1] + s[2]
         /\ Start(s, 4) = s[1] + s[2] + s[3]
         /\ Start(s, 5) = s[1] + s[2] + s[3] + s[4]
         /\ Start(s, 6) = s[1] + s[2] + s[3] + s[4] + s[5]
<1> DEFINE Sum(x) == x = [g \in CertFields |-> IF g = 1 THEN 0 ELSE x[g - 1] + s[g - 1]]
           h == [g \in CertFields |->
                   IF g = 1 THEN 0
                   ELSE IF g = 2 THEN s[1]
                   ELSE IF g = 3 THEN s[1] + s[2]
                   ELSE IF g = 4 THEN s[1] + s[2] + s[3]
                   ELSE IF g = 5 THEN s[1] + s[2] + s[3] + s[4]
                   ELSE s[1] + s[2] + s[3] + s[4] + s[5]]
<1>1. \A g \in CertFields : s[g] \in Nat
  OBVIOUS
<1>2. \A g \in CertFields : g \in {1, 2, 3, 4, 5, 6}
  BY DEF CertFields
<1>3. Sum(h)
  <2>1. ASSUME NEW g \in CertFields
        PROVE  h[g] = IF g = 1 THEN 0 ELSE h[g - 1] + s[g - 1]
    BY <1>1, <1>2 DEF CertFields
  <2> QED
    BY <2>1
<1>4. PICK x : x = CHOOSE y : Sum(y)
  OBVIOUS
<1>5. Sum(x)
  BY <1>3, <1>4
<1>6. \A f : Start(s, f) = x[f]
  BY <1>4 DEF Start
<1>7. /\ x[1] = 0
      /\ x[2] = x[1] + s[1] /\ x[3] = x[2] + s[2] /\ x[4] = x[3] + s[3]
      /\ x[5] = x[4] + s[4] /\ x[6] = x[5] + s[5]
  BY <1>5 DEF CertFields
<1>8. s[1] \in Nat /\ s[2] \in Nat /\ s[3] \in Nat /\ s[4] \in Nat /\ s[5] \in Nat
  BY <1>1 DEF CertFields
<1> HIDE DEF h, Sum
<1> QED
  BY <1>6, <1>7, <1>8

\* Each view of the buffer that setup fills is its field.
LEMMA ViewsAreFields ==
  ASSUME NEW s \in [CertFields -> Nat], NEW f \in CertFields
  PROVE  View(Setup(s), f) = FieldText(s, f)
<1>1. PICK S : S = CertFields \X Nat
  OBVIOUS
<1>2. PICK t1, t2, t3, t4, t5, t6 :
         /\ t1 = FieldText(s, 1) /\ t2 = FieldText(s, 2) /\ t3 = FieldText(s, 3)
         /\ t4 = FieldText(s, 4) /\ t5 = FieldText(s, 5) /\ t6 = FieldText(s, 6)
  OBVIOUS
<1>t1. t1 \in Seq(S)
  BY <1>1, <1>2, FieldTexts DEF CertFields
<1>u1. Len(t1) = s[1] /\ s[1] \in Nat
  BY <1>2, FieldTexts DEF CertFields
<1>t2. t2 \in Seq(S)
  BY <1>1, <1>2, FieldTexts DEF CertFields
<1>u2. Len(t2) = s[2] /\ s[2] \in Nat
  BY <1>2, FieldTexts DEF CertFields
<1>t3. t3 \in Seq(S)
  BY <1>1, <1>2, FieldTexts DEF CertFields
<1>u3. Len(t3) = s[3] /\ s[3] \in Nat
  BY <1>2, FieldTexts DEF CertFields
<1>t4. t4 \in Seq(S)
  BY <1>1, <1>2, FieldTexts DEF CertFields
<1>u4. Len(t4) = s[4] /\ s[4] \in Nat
  BY <1>2, FieldTexts DEF CertFields
<1>t5. t5 \in Seq(S)
  BY <1>1, <1>2, FieldTexts DEF CertFields
<1>u5. Len(t5) = s[5] /\ s[5] \in Nat
  BY <1>2, FieldTexts DEF CertFields
<1>t6. t6 \in Seq(S)
  BY <1>1, <1>2, FieldTexts DEF CertFields
<1>u6. Len(t6) = s[6] /\ s[6] \in Nat
  BY <1>2, FieldTexts DEF CertFields
<1>p1. PICK p1 : p1 = t1
  OBVIOUS
<1>m1. p1 \in Seq(S)
  BY <1>p1, <1>t1
<1>l1. Len(p1) = s[1]
  BY <1>p1, <1>u1
<1>p2. PICK p2 : p2 = p1 \o t2
  OBVIOUS
<1>m2. p2 \in Seq(S)
  BY <1>m1, <1>t2, <1>p2, ConcatProperties
<1>l2. Len(p2) = s[1] + s[2]
  <2>1. Len(p1 \o t2) = Len(p1) + Len(t2)
    BY <1>m1, <1>t2, ConcatProperties
  <2> QED
    BY <1>l1, <1>u2, <1>p2, <2>1
<1>p3. PICK p3 : p3 = p2 \o t3
  OBVIOUS
<1>m3. p3 \in Seq(S)
  BY <1>m2, <1>t3, <1>p3, ConcatProperties
<1>l3. Len(p3) = s[1] + s[2] + s[3]
  <2>1. Len(p2 \o t3) = Len(p2) + Len(t3)
    BY <1>m2, <1>t3, ConcatProperties
  <2> QED
    BY <1>l2, <1>u3, <1>p3, <2>1
<1>p4. PICK p4 : p4 = p3 \o t4
  OBVIOUS
<1>m4. p4 \in Seq(S)
  BY <1>m3, <1>t4, <1>p4, ConcatProperties
<1>l4. Len(p4) = s[1] + s[2] + s[3] + s[4]
  <2>1. Len(p3 \o t4) = Len(p3) + Len(t4)
    BY <1>m3, <1>t4, ConcatProperties
  <2> QED
    BY <1>l3, <1>u4, <1>p4, <2>1
<1>p5. PICK p5 : p5 = p4 \o t5
  OBVIOUS
<1>m5. p5 \in Seq(S)
  BY <1>m4, <1>t5, <1>p5, ConcatProperties
<1>l5. Len(p5) = s[1] + s[2] + s[3] + s[4] + s[5]
  <2>1. Len(p4 \o t5) = Len(p4) + Len(t5)
    BY <1>m4, <1>t5, ConcatProperties
  <2> QED
    BY <1>l4, <1>u5, <1>p5, <2>1
<1>q6. PICK q6 : q6 = t6
  OBVIOUS
<1>n6. q6 \in Seq(S)
  BY <1>t6, <1>q6
<1>q5. PICK q5 : q5 = t5 \o q6
  OBVIOUS
<1>n5. q5 \in Seq(S)
  BY <1>n6, <1>t5, <1>q5, ConcatProperties
<1>q4. PICK q4 : q4 = t4 \o q5
  OBVIOUS
<1>n4. q4 \in Seq(S)
  BY <1>n5, <1>t4, <1>q4, ConcatProperties
<1>q3. PICK q3 : q3 = t3 \o q4
  OBVIOUS
<1>n3. q3 \in Seq(S)
  BY <1>n4, <1>t3, <1>q3, ConcatProperties
<1>q2. PICK q2 : q2 = t2 \o q3
  OBVIOUS
<1>n2. q2 \in Seq(S)
  BY <1>n3, <1>t2, <1>q2, ConcatProperties
<1>3. PICK buffer : buffer = Setup(s).buffer
  OBVIOUS
<1>b6. buffer = p5 \o q6
  BY <1>2, <1>p1, <1>p2, <1>p3, <1>p4, <1>p5, <1>q6, <1>3 DEF Setup
<1>b5. buffer = p4 \o q5
  <2>1. (p4 \o t5) \o q6 = p4 \o (t5 \o q6)
    BY <1>m4, <1>t5, <1>n6, ConcatAssociative
  <2> QED
    BY <1>b6, <1>p5, <1>q5, <2>1
<1>b4. buffer = p3 \o q4
  <2>1. (p3 \o t4) \o q5 = p3 \o (t4 \o q5)
    BY <1>m3, <1>t4, <1>n5, ConcatAssociative
  <2> QED
    BY <1>b5, <1>p4, <1>q4, <2>1
<1>b3. buffer = p2 \o q3
  <2>1. (p2 \o t3) \o q4 = p2 \o (t3 \o q4)
    BY <1>m2, <1>t3, <1>n4, ConcatAssociative
  <2> QED
    BY <1>b4, <1>p3, <1>q3, <2>1
<1>b2. buffer = p1 \o q2
  <2>1. (p1 \o t2) \o q3 = p1 \o (t2 \o q3)
    BY <1>m1, <1>t2, <1>n3, ConcatAssociative
  <2> QED
    BY <1>b3, <1>p2, <1>q2, <2>1
<1>4. View(Setup(s), f) = SubSeq(buffer, Start(s, f) + 1, Start(s, f) + s[f])
  BY <1>3 DEF View, Setup
<1>5. CASE f = 1
  <2>1. SubSeq(<<>> \o (t1 \o q2), Len(<<>>) + 1, Len(<<>>) + Len(t1)) = t1
    BY <1>t1, <1>n2, EmptySeq, MiddlePart
  <2>2. t1 \o q2 \in Seq(S)
    BY <1>t1, <1>n2, ConcatProperties
  <2>3. <<>> \o (t1 \o q2) = buffer
    BY <1>p1, <1>b2, <2>2, ConcatEmptySeq
  <2>4. Start(s, f) = Len(<<>>) /\ s[f] = Len(t1)
    BY <1>5, <1>u1, Starts
  <2> QED
    BY <1>2, <1>4, <1>5, <2>1, <2>3, <2>4
<1>6. CASE f = 2
  <2>1. SubSeq(p1 \o (t2 \o q3), Len(p1) + 1, Len(p1) + Len(t2)) = t2
    BY <1>m1, <1>t2, <1>n3, MiddlePart
  <2>2. Start(s, f) = Len(p1) /\ s[f] = Len(t2)
    BY <1>6, <1>l1, <1>u2, Starts
  <2> QED
    BY <1>2, <1>4, <1>6, <1>b2, <1>q2, <2>1, <2>2
<1>7. CASE f = 3
  <2>1. SubSeq(p2 \o (t3 \o q4), Len(p2) + 1, Len(p2) + Len(t3)) = t3
    BY <1>m2, <1>t3, <1>n4, MiddlePart
  <2>2. Start(s, f) = Len(p2) /\ s[f] = Len(t3)
    BY <1>7, <1>l2, <1>u3, Starts
  <2> QED
    BY <1>2, <1>4, <1>7, <1>b3, <1>q3, <2>1, <2>2
<1>8. CASE f = 4
  <2>1. SubSeq(p3 \o (t4 \o q5), Len(p3) + 1, Len(p3) + Len(t4)) = t4
    BY <1>m3, <1>t4, <1>n5, MiddlePart
  <2>2. Start(s, f) = Len(p3) /\ s[f] = Len(t4)
    BY <1>8, <1>l3, <1>u4, Starts
  <2> QED
    BY <1>2, <1>4, <1>8, <1>b4, <1>q4, <2>1, <2>2
<1>9. CASE f = 5
  <2>1. SubSeq(p4 \o (t5 \o q6), Len(p4) + 1, Len(p4) + Len(t5)) = t5
    BY <1>m4, <1>t5, <1>n6, MiddlePart
  <2>2. Start(s, f) = Len(p4) /\ s[f] = Len(t5)
    BY <1>9, <1>l4, <1>u5, Starts
  <2> QED
    BY <1>2, <1>4, <1>9, <1>b5, <1>q5, <2>1, <2>2
<1>10. CASE f = 6
  <2>1. SubSeq(p5 \o (t6 \o <<>>), Len(p5) + 1, Len(p5) + Len(t6)) = t6
    BY <1>m5, <1>t6, EmptySeq, MiddlePart
  <2>2. t6 \o <<>> = q6
    BY <1>t6, <1>q6, ConcatEmptySeq
  <2>3. Start(s, f) = Len(p5) /\ s[f] = Len(t6)
    BY <1>10, <1>l5, <1>u6, Starts
  <2> QED
    BY <1>2, <1>4, <1>10, <1>b6, <2>1, <2>2, <2>3
<1> QED
  BY <1>5, <1>6, <1>7, <1>8, <1>9, <1>10 DEF CertFields

\* A session keeps the certificate it got; a copy knows the session it came on,
\* and a worker has locked the certificate of that session.
LockInv ==
    /\ session \in 0..MaxSessions /\ (conn # "closed" => session # 0)
    /\ DOMAIN copy = Workers /\ DOMAIN seen = Workers /\ DOMAIN locked = Workers
    /\ DOMAIN cert = 1..MaxSessions
    /\ \A t \in 1..MaxSessions :
          cert[t] = NoCert \/ \E sizes \in Certificates : cert[t] = Setup(sizes)
    /\ \A w \in Workers :
          /\ copy[w] # NoCopy =>
                copy[w].session = seen[w].session /\ copy[w].session \in 1..MaxSessions
          /\ locked[w] # 0 =>
                /\ locked[w] = seen[w].session /\ locked[w] \in 1..MaxSessions
                /\ cert[locked[w]] # NoCert

LEMMA HandshakeLocks ==
  ASSUME LockInv, Handshake
  PROVE  LockInv'
<1>1. UNCHANGED <<session, count, copy, memory, locked, seen>> /\ conn = "accepted" /\ conn' = "ready"
  BY DEF Handshake
<1>2. CASE UNCHANGED cert
  BY <1>1, <1>2 DEF LockInv
<1>3. ASSUME NEW sizes \in Certificates, cert' = [cert EXCEPT ![session] = Setup(sizes)]
      PROVE  LockInv'
  <2>1. Setup(sizes) # NoCert
    <3>1. sizes \in [CertFields -> Nat] /\ 1 \in CertFields
      BY CertificatesAssumption DEF CertFields
    <3>2. sizes # <<>>
      BY <3>1
    <3> QED
      BY <3>2 DEF Setup, NoCert
  <2>2. ASSUME NEW t \in 1..MaxSessions
        PROVE  cert'[t] = IF t = session THEN Setup(sizes) ELSE cert[t]
    BY <1>3 DEF LockInv
  <2>3. DOMAIN cert' = 1..MaxSessions
    BY <1>3 DEF LockInv
  <2>4. \A t \in 1..MaxSessions : cert'[t] = NoCert \/ \E z \in Certificates : cert'[t] = Setup(z)
    BY <2>2 DEF LockInv
  <2>5. \A t \in 1..MaxSessions : cert[t] # NoCert => cert'[t] # NoCert
    BY <2>1, <2>2
  <2> QED
    BY <1>1, <2>3, <2>4, <2>5 DEF LockInv
<1> QED
  BY <1>2, <1>3 DEF Handshake

LEMMA ToAsyncLocks ==
  ASSUME LockInv, NEW w \in Workers, ToAsync(w)
  PROVE  LockInv'
<1>1. /\ session \in 1..MaxSessions /\ locked[w] = 0
      /\ UNCHANGED <<session, cert, locked>> /\ conn # "closed"
  BY DEF LockInv, ToAsync
<1>2. PICK msg \in Messages, b \in CopyBases :
         /\ copy' = [copy EXCEPT ![w] = [base |-> b, session |-> session,
                                         msg |-> MakeCopy(b, Received(msg))]]
         /\ seen' = [seen EXCEPT ![w] =
                       [session |-> session,
                        texts |-> Texts(Received(msg), ReceivedBytes(count + 1))]]
  BY DEF ToAsync
<1>3. DOMAIN copy' = Workers /\ DOMAIN seen' = Workers
  BY <1>2 DEF LockInv
<1>4. copy'[w].session = session /\ seen'[w].session = session
  BY <1>2 DEF LockInv
<1>5. \A v \in Workers : v # w => copy'[v] = copy[v] /\ seen'[v] = seen[v]
  BY <1>2 DEF LockInv
<1>6. ASSUME NEW v \in Workers
      PROVE  /\ copy'[v] # NoCopy =>
                   copy'[v].session = seen'[v].session /\ copy'[v].session \in 1..MaxSessions
             /\ locked'[v] # 0 =>
                   /\ locked'[v] = seen'[v].session /\ locked'[v] \in 1..MaxSessions
                   /\ cert'[locked'[v]] # NoCert
  <2>1. CASE v = w
    BY <1>1, <1>4, <2>1
  <2>2. CASE v # w
    BY <1>1, <1>5, <2>2 DEF LockInv
  <2> QED
    BY <2>1, <2>2
<1> QED
  BY <1>1, <1>3, <1>6 DEF LockInv

\* A tls_cert_info that a worker has locked is that of the connection its
\* request came on, and each view of it is the field it is named for. (setup,
\* get_tls_cert_info)
THEOREM LockedIsOwn == Spec => []LockedCertificate
<1>1. Init => LockInv
  BY AsyncRequestAssumption DEF Init, LockInv
<1>2. LockInv /\ [Next]_vars => LockInv'
  <2> SUFFICES ASSUME LockInv, [Next]_vars PROVE LockInv'
    OBVIOUS
  <2>1. CASE UNCHANGED vars
    BY <2>1 DEF vars, LockInv
  <2>2. CASE Accept
    BY <2>2, AsyncRequestAssumption DEF Accept, LockInv
  <2>3. CASE Handshake
    BY <2>3, HandshakeLocks
  <2>4. CASE Close
    BY <2>4 DEF Close, LockInv
  <2>5. ASSUME NEW w \in Workers, ToAsync(w) PROVE LockInv'
    BY <2>5, ToAsyncLocks
  <2>6. ASSUME NEW w \in Workers, Lock(w) PROVE LockInv'
    <3>1. /\ copy[w] # NoCopy /\ locked' = [locked EXCEPT ![w] = copy[w].session]
          /\ cert[copy[w].session] # NoCert
          /\ UNCHANGED <<session, conn, cert, copy, seen>>
      BY <2>6 DEF Lock, Alive
    <3>2. copy[w].session = seen[w].session /\ copy[w].session \in 1..MaxSessions
      BY <3>1 DEF LockInv
    <3>3. DOMAIN locked' = Workers /\ locked'[w] = copy[w].session
      BY <3>1 DEF LockInv
    <3>4. \A v \in Workers : v # w => locked'[v] = locked[v]
      BY <3>1 DEF LockInv
    <3>5. ASSUME NEW v \in Workers, locked'[v] # 0
          PROVE  /\ locked'[v] = seen'[v].session /\ locked'[v] \in 1..MaxSessions
                 /\ cert'[locked'[v]] # NoCert
      BY <3>1, <3>2, <3>3, <3>4, <3>5 DEF LockInv
    <3> QED
      BY <3>1, <3>3, <3>5 DEF LockInv
  <2>7. ASSUME NEW w \in Workers, Unlock(w) PROVE LockInv'
    <3>1. /\ locked' = [locked EXCEPT ![w] = 0]
          /\ UNCHANGED <<session, conn, cert, copy, seen>>
      BY <2>7 DEF Unlock
    <3>2. \A v \in Workers : locked'[v] = 0 \/ locked'[v] = locked[v]
      BY <3>1 DEF LockInv
    <3>3. DOMAIN locked' = Workers
      BY <3>1 DEF LockInv
    <3>4. ASSUME NEW v \in Workers, locked'[v] # 0
          PROVE  /\ locked'[v] = seen'[v].session /\ locked'[v] \in 1..MaxSessions
                 /\ cert'[locked'[v]] # NoCert
      BY <3>1, <3>2, <3>4 DEF LockInv
    <3> QED
      BY <3>1, <3>3, <3>4 DEF LockInv
  <2>8. ASSUME NEW w \in Workers, Drop(w) PROVE LockInv'
    <3>1. /\ copy' = [copy EXCEPT ![w] = NoCopy]
          /\ UNCHANGED <<session, conn, cert, locked, seen>>
      BY <2>8 DEF Drop
    <3>2. \A v \in Workers : copy'[v] = NoCopy \/ copy'[v] = copy[v]
      BY <3>1 DEF LockInv
    <3>3. DOMAIN copy' = Workers
      BY <3>1 DEF LockInv
    <3> QED
      BY <3>1, <3>2, <3>3 DEF LockInv
  <2> QED
    BY <2>1, <2>2, <2>3, <2>4, <2>5, <2>6, <2>7, <2>8 DEF Next
<1>3. LockInv => LockedCertificate
  <2> SUFFICES ASSUME LockInv, NEW w \in Workers, locked[w] # 0
               PROVE  /\ locked[w] = seen[w].session /\ Alive(locked[w])
                      /\ \A f \in CertFields :
                            View(cert[locked[w]], f) = FieldText(cert[locked[w]].sizes, f)
    BY DEF LockedCertificate
  <2>1. PICK t : t = locked[w]
    OBVIOUS
  <2>2. t = seen[w].session /\ t \in 1..MaxSessions /\ cert[t] # NoCert
    BY <2>1 DEF LockInv
  <2>3. PICK sizes \in Certificates : cert[t] = Setup(sizes)
    BY <2>2 DEF LockInv
  <2>4. sizes \in [CertFields -> Nat] /\ cert[t].sizes = sizes
    BY <2>3, CertificatesAssumption DEF Setup
  <2>5. \A f \in CertFields : View(cert[t], f) = FieldText(cert[t].sizes, f)
    BY <2>3, <2>4, ViewsAreFields
  <2>6. Alive(t)
    BY <2>1, <2>2 DEF Alive
  <2> QED
    BY <2>1, <2>2, <2>5, <2>6
<1> QED
  BY <1>1, <1>2, <1>3, PTL DEF Spec
=============================================================================
