---------------------------- MODULE AsyncRequest ----------------------------
(***************************************************************************)
(* http::async_request: what a worker keeps of a request once the handler  *)
(* has returned. A parsed message is a record of slices into the receive   *)
(* buffer of the connection; the copy moves them into a buffer of its own. *)
(* The client certificate is shared with the connection's remote_context.  *)
(***************************************************************************)
EXTENDS Integers, Sequences, FiniteSets

CONSTANTS
    Workers,      \* threads that hold an async_request
    RecvBase,     \* address of the message in the receive buffer
    CopyBases,    \* addresses the allocator may return for a copy
    MsgLen,       \* bytes of a message
    Messages,     \* parsed messages a client may send, as offsets
    MaxHeaders,   \* MG_MAX_HTTP_HEADERS
    Certificates, \* client certificates a peer may present: a length per field
    MaxMessages,  \* bound: requests
    MaxSessions   \* bound: connections, one after the other

Null == [buf |-> 0, len |-> 0]     \* a mg_str whose buf is nullptr
Absent == [buf |-> -1, len |-> 0]  \* a part a parsed message does not have
Region(base) == base .. base + MsgLen - 1

ASSUME AsyncRequestAssumption ==
    /\ MsgLen \in Nat \ {0} /\ MaxHeaders \in Nat \ {0}
    /\ MaxMessages \in Nat /\ MaxSessions \in Nat
    /\ RecvBase \in Nat \ {0} /\ CopyBases \subseteq Nat \ {0} /\ RecvBase \notin CopyBases
    /\ \A a, b \in CopyBases \union {RecvBase} :
          a # b => Region(a) \intersect Region(b) = {}

\* What mg_http_parse and mg_match leave: a slice that is there lies within the
\* message, and the headers fill the first of the slots.
WithinMessage(slice) ==
    \/ slice = Absent
    \/ slice.buf \in Nat /\ slice.len \in Nat /\ slice.buf + slice.len <= MsgLen

ASSUME MessagesAssumption ==
    \A msg \in Messages :
       /\ \A f \in DOMAIN msg.line : WithinMessage(msg.line[f])
       /\ \A k \in DOMAIN msg.groups : WithinMessage(msg.groups[k])
       /\ \A k \in 1..MaxHeaders :
             /\ WithinMessage(msg.headers[k].name) /\ WithinMessage(msg.headers[k].value)
             /\ \A j \in 1..(k - 1) : msg.headers[j].name = Absent =>
                   msg.headers[k].name = Absent /\ msg.headers[k].value = Absent

VARIABLES
    session,  \* number of the connection that is open, or was last
    conn,     \* "closed", "accepted" (no handshake yet) or "ready"
    cert,     \* cert[s]: what setup made of the certificate of session s, or NoCert
    count,    \* number of messages received so far
    copy,     \* copy[w]: the async_request of worker w, or NoCopy
    memory,   \* memory[b]: the message in the copy at b, 0 when b is free
    locked,   \* locked[w]: the session whose tls_cert_info w has locked, or 0
    seen      \* seen[w]: history; what the handler saw of the request of w

vars == <<session, conn, cert, count, copy, memory, locked, seen>>

-----------------------------------------------------------------------------
\* The slices a message at base has for the offsets of a parsed message.
At(base, slice) ==
    IF slice = Absent THEN Null ELSE [buf |-> base + slice.buf, len |-> slice.len]

\* rebase: a slice is shifted by the distance of the two messages.
Rebase(slice, delta) ==
    IF slice.buf = 0 THEN Null ELSE [buf |-> slice.buf + delta, len |-> slice.len]

NoHeader == [name |-> Null, value |-> Null]

\* Mutant of RebaseHeaders: the loop stops one header early.
RebaseHeadersShort(headers, delta) ==
    [k \in 1..MaxHeaders |->
        IF k = MaxHeaders \/ \E j \in 1..k : headers[j].name.buf = 0 THEN NoHeader
        ELSE [name |-> Rebase(headers[k].name, delta), value |-> Rebase(headers[k].value, delta)]]

\* The loop over the headers, which ends after the first one without a name.
RebaseHeaders(headers, delta) ==
    [k \in 1..MaxHeaders |->
        IF \E j \in 1..(k - 1) : headers[j].name.buf = 0 THEN NoHeader
        ELSE [name |-> Rebase(headers[k].name, delta), value |-> Rebase(headers[k].value, delta)]]

\* The constructor, with the copy of the message at base.
MakeCopy(base, req) ==
    LET delta == base - RecvBase
    IN  [line |-> [f \in DOMAIN req.line |-> Rebase(req.line[f], delta)],
         headers |-> RebaseHeaders(req.headers, delta),
         groups |-> [k \in DOMAIN req.groups |-> Rebase(req.groups[k], delta)]]

\* The message with number n in the receive buffer: its slices, and its bytes.
Received(msg) ==
    [line |-> [f \in DOMAIN msg.line |-> At(RecvBase, msg.line[f])],
     headers |-> [k \in 1..MaxHeaders |->
                    [name |-> At(RecvBase, msg.headers[k].name),
                     value |-> At(RecvBase, msg.headers[k].value)]],
     groups |-> [k \in DOMAIN msg.groups |-> At(RecvBase, msg.groups[k])]]

ReceivedBytes(n) == [a \in Region(RecvBase) |-> <<n, a - RecvBase>>]

\* What a worker finds in memory. The receive buffer is overwritten as soon as
\* the handler returns, and a copy when it is freed; a byte outside the copies
\* is nobody's.
Bytes ==
    [a \in UNION {Region(b) : b \in CopyBases \union {RecvBase}} |->
        IF a \in Region(RecvBase) THEN <<0, 0>>
        ELSE LET b == CHOOSE b \in CopyBases : a \in Region(b)
             IN  IF memory[b] = 0 THEN <<0, 0>> ELSE <<memory[b], a - b>>]

\* What the accessors read: string_view{slice.buf, slice.len} for every slice.
Texts(req, bytes) ==
    LET text(slice) == [k \in 0..(slice.len - 1) |-> bytes[slice.buf + k]]
    IN  [line |-> [f \in DOMAIN req.line |-> text(req.line[f])],
         headers |-> [k \in 1..MaxHeaders |->
                        [name |-> text(req.headers[k].name),
                         value |-> text(req.headers[k].value)]],
         groups |-> [k \in DOMAIN req.groups |-> text(req.groups[k])]]

-----------------------------------------------------------------------------
\* subject, issuer, serial number, not before, not after, fingerprint
CertFields == 1..6

ASSUME CertificatesAssumption == Certificates \subseteq [CertFields -> Nat]

FieldText(sizes, f) == [k \in 1..sizes[f] |-> <<f, k>>]

\* Mutant of Start: the size of the serial number is left out.
StartNoSerial(sizes, f) ==
    LET sum[g \in CertFields] ==
            IF g = 1 THEN 0 ELSE sum[g - 1] + (IF g = 4 THEN 0 ELSE sizes[g - 1])
    IN  sum[f]

\* Where the view of field f starts: after the sizes of the fields before it.
Start(sizes, f) ==
    LET sum[g \in CertFields] == IF g = 1 THEN 0 ELSE sum[g - 1] + sizes[g - 1]
    IN  sum[f]

NoCert == [buffer |-> <<>>, views |-> <<>>, sizes |-> <<>>]

\* setup: the fields are appended to one buffer and viewed in it.
Setup(sizes) ==
    LET text(f) == FieldText(sizes, f)
    IN  [buffer |-> text(1) \o text(2) \o text(3) \o text(4) \o text(5) \o text(6),
         views |-> [f \in CertFields |-> [from |-> Start(sizes, f), len |-> sizes[f]]],
         sizes |-> sizes]

View(info, f) ==
    SubSeq(info.buffer, info.views[f].from + 1, info.views[f].from + info.views[f].len)

\* Someone owns the tls_cert_info of session s: its context, or a worker.
Alive(s) ==
    /\ s # 0 /\ cert[s] # NoCert
    /\ (s = session /\ conn # "closed") \/ \E w \in Workers : locked[w] = s

-----------------------------------------------------------------------------
NoCopy == [base |-> 0]

Init ==
    /\ session = 0 /\ conn = "closed" /\ count = 0
    /\ cert = [s \in 1..MaxSessions |-> NoCert]
    /\ copy = [w \in Workers |-> NoCopy]
    /\ memory = [b \in CopyBases |-> 0]
    /\ locked = [w \in Workers |-> 0]
    /\ seen = [w \in Workers |-> [session |-> 0]]

\* MG_EV_ACCEPT: a remote_context without a certificate.
Accept ==
    /\ conn = "closed" /\ session < MaxSessions
    /\ session' = session + 1 /\ conn' = "accepted"
    /\ UNCHANGED <<cert, count, copy, memory, locked, seen>>

\* MG_EV_TLS_HS: setup, which returns early for a peer without a certificate.
Handshake ==
    /\ conn = "accepted" /\ conn' = "ready"
    /\ \/ UNCHANGED cert
       \/ \E sizes \in Certificates : cert' = [cert EXCEPT ![session] = Setup(sizes)]
    /\ UNCHANGED <<session, count, copy, memory, locked, seen>>

\* An asynchronous listener keeps req.to_async() for its worker w.
ToAsync(w) ==
    /\ conn # "closed" /\ conn' = "ready"
    /\ copy[w] = NoCopy /\ locked[w] = 0
    /\ count < MaxMessages /\ count' = count + 1
    /\ \E msg \in Messages, b \in {a \in CopyBases : memory[a] = 0} :
          LET req == Received(msg)
          IN  /\ copy' = [copy EXCEPT ![w] =
                            [base |-> b, session |-> session, msg |-> MakeCopy(b, req)]]
              /\ memory' = [memory EXCEPT ![b] = count + 1]
              /\ seen' = [seen EXCEPT ![w] =
                            [session |-> session, texts |-> Texts(req, ReceivedBytes(count + 1))]]
    /\ UNCHANGED <<session, cert, locked>>

\* Mutant of Lock: the certificate is that of the connection that is open now.
LockCurrent(w) ==
    /\ copy[w] # NoCopy /\ locked[w] = 0
    /\ Alive(session)
    /\ locked' = [locked EXCEPT ![w] = session]
    /\ UNCHANGED <<session, conn, cert, count, copy, memory, seen>>

\* get_tls_cert_info().lock(), unless it yields nullptr.
Lock(w) ==
    /\ copy[w] # NoCopy /\ locked[w] = 0
    /\ Alive(copy[w].session)
    /\ locked' = [locked EXCEPT ![w] = copy[w].session]
    /\ UNCHANGED <<session, conn, cert, count, copy, memory, seen>>

Unlock(w) ==
    /\ locked[w] # 0 /\ locked' = [locked EXCEPT ![w] = 0]
    /\ UNCHANGED <<session, conn, cert, count, copy, memory, seen>>

\* ~async_request: mg_free of the copied message.
Drop(w) ==
    /\ copy[w] # NoCopy
    /\ memory' = [memory EXCEPT ![copy[w].base] = 0]
    /\ copy' = [copy EXCEPT ![w] = NoCopy]
    /\ UNCHANGED <<session, conn, cert, count, locked, seen>>

\* MG_EV_CLOSE: the remote_context is deleted.
Close ==
    /\ conn # "closed" /\ conn' = "closed"
    /\ UNCHANGED <<session, cert, count, copy, memory, locked, seen>>

Next ==
    \/ Accept \/ Handshake \/ Close
    \/ \E w \in Workers : ToAsync(w) \/ Lock(w) \/ Unlock(w) \/ Drop(w)

Spec == Init /\ [][Next]_vars

-----------------------------------------------------------------------------
\* As long as a worker keeps its async_request, every accessor reads what the
\* handler read in the request, whatever happened to the connection and to the
\* other requests since.
CopyReadsTheSame ==
    \A w \in Workers : copy[w] # NoCopy => Texts(copy[w].msg, Bytes) = seen[w].texts

\* A tls_cert_info that a worker has locked is that of the connection its
\* request came on, and each view of it is the field it is named for.
LockedCertificate ==
    \A w \in Workers : locked[w] # 0 =>
       /\ locked[w] = seen[w].session /\ Alive(locked[w])
       /\ \A f \in CertFields :
             View(cert[locked[w]], f) = FieldText(cert[locked[w]].sizes, f)

=============================================================================
