------------------------- MODULE SyncResponseProof -------------------------
(***************************************************************************)
(* Theorems about http::response and its headers: the case-insensitive map *)
(* is the reference one for every set of spellings, a response writes one  *)
(* answer, and a chunked one carries no Content-Length.                    *)
(***************************************************************************)
EXTENDS SyncResponse, TLAPS, FiniteSetTheorems

-----------------------------------------------------------------------------
\* headers::set: assigning to the map is binding the lower-case name.
LEMMA AssignRepresents ==
    ASSUME NEW entries \in SUBSET Entry, NEW m, Represents(entries, m),
           NEW name \in Names, NEW value \in Values
    PROVE  /\ Assign(entries, name, value) \in SUBSET Entry
           /\ Represents(Assign(entries, name, value), Bind(m, name, value))
  <1> DEFINE new == Assign(entries, name, value)
             bound == Bind(m, name, value)
             keys(set) == {Lower[e.name] : e \in set}
  <1>1. \A e \in entries : e \in Find(entries, name) <=> Lower[e.name] = Lower[name]
    BY DEF Find, HashKey, IsEqual
  <1>2. Find(entries, name) \subseteq entries
    BY DEF Find
  <1>3. \A e \in entries : [e EXCEPT !.value = value] =
                             [name |-> e.name, value |-> value]
    BY DEF Entry
  <1>4. ASSUME NEW set, NEW n
        PROVE  keys(set \union {[name |-> n, value |-> value]}) = keys(set) \union {Lower[n]}
    <2> DEFINE added == [name |-> n, value |-> value]
    <2>1. added.name = n
      OBVIOUS
    <2>2. keys(set \union {added}) = keys(set) \union {Lower[added.name]}
      <3> HIDE DEF added
      <3> QED
        OBVIOUS
    <2> QED
      BY <2>1, <2>2
  <1>5. CASE Find(entries, name) = {}
    <2>1. new = entries \union {[name |-> name, value |-> value]}
      BY <1>5 DEF Assign
    <2>2. \A e \in entries : Lower[e.name] # Lower[name]
      BY <1>1, <1>5
    <2>3. new \in SUBSET Entry
      BY <2>1 DEF Entry
    <2>4. DOMAIN bound = DOMAIN m \union {Lower[name]}
      BY DEF Bind
    <2>5. keys(new) = keys(entries) \union {Lower[name]}
      BY <1>4, <2>1
    <2>6. \A d, e \in new : Lower[d.name] = Lower[e.name] => d = e
      BY <2>1, <2>2 DEF Represents
    <2>7. \A e \in entries : Lower[e.name] \in DOMAIN m
      BY DEF Represents
    <2>8. \A e \in new : e.value = bound[Lower[e.name]]
      BY <2>1, <2>2, <2>7 DEF Represents, Bind
    <2> QED
      BY <2>3, <2>4, <2>5, <2>6, <2>8 DEF Represents
  <1>6. CASE Find(entries, name) # {}
    <2>1. PICK old \in entries : Lower[old.name] = Lower[name]
      BY <1>1, <1>2, <1>6
    <2>2. Find(entries, name) = {old}
      BY <1>1, <1>2, <2>1 DEF Represents
    <2>3. new = (entries \ {old}) \union {[name |-> old.name, value |-> value]}
      <3>1. new = (entries \ {old}) \union {[e EXCEPT !.value = value] : e \in {old}}
        BY <1>6, <2>2 DEF Assign
      <3>2. {[e EXCEPT !.value = value] : e \in {old}} = {[old EXCEPT !.value = value]}
        OBVIOUS
      <3> QED
        BY <1>3, <2>1, <3>1, <3>2
    <2>4. \A e \in entries \ {old} : Lower[e.name] # Lower[name]
      BY <2>1 DEF Represents
    <2>5. old.name \in Names
      BY <2>1 DEF Entry
    <2>6. new \in SUBSET Entry
      BY <2>3, <2>5 DEF Entry
    <2>7. DOMAIN bound = DOMAIN m \union {Lower[name]}
      BY DEF Bind
    <2>8. keys(new) = DOMAIN bound
      <3>1. keys(new) = keys(entries \ {old}) \union {Lower[old.name]}
        BY <1>4, <2>3
      <3>2. keys(entries) = keys(entries \ {old}) \union {Lower[old.name]}
        OBVIOUS
      <3> QED
        BY <2>1, <2>7, <3>1, <3>2 DEF Represents
    <2>9. \A e \in new : e.value = bound[Lower[e.name]]
      <3>1. SUFFICES ASSUME NEW e \in new PROVE e.value = bound[Lower[e.name]]
        OBVIOUS
      <3>2. CASE e \in entries \ {old}
        BY <2>4, <3>2 DEF Represents, Bind
      <3>3. CASE e = [name |-> old.name, value |-> value]
        BY <2>1, <3>3 DEF Bind
      <3> QED
        BY <2>3, <3>1, <3>2, <3>3
    <2>10. \A d, e \in new : Lower[d.name] = Lower[e.name] => d = e
      BY <2>1, <2>3, <2>4 DEF Represents
    <2> QED
      BY <2>6, <2>8, <2>9, <2>10 DEF Represents
  <1> QED
    BY <1>5, <1>6

\* headers::remove: erasing from the map is unbinding the lower-case name.
LEMMA EraseRepresents ==
    ASSUME NEW entries \in SUBSET Entry, NEW m, Represents(entries, m),
           NEW name \in Names
    PROVE  /\ Erase(entries, name) \in SUBSET Entry
           /\ \A e \in Erase(entries, name) : Lower[e.name] # Lower[name]
           /\ Represents(Erase(entries, name), Unbind(m, name))
  <1>1. Erase(entries, name) = {e \in entries : Lower[e.name] # Lower[name]}
    BY DEF Erase, Find, HashKey, IsEqual
  <1> QED
    BY <1>1 DEF Represents, Unbind

\* Assigning leaves the names of the other entries, and adds one entry at most.
LEMMA AssignNames ==
    ASSUME NEW entries \in SUBSET Entry, NEW m, Represents(entries, m),
           NEW name \in Names, NEW value \in Values
    PROVE  /\ \A e \in Assign(entries, name, value) :
                 Lower[e.name] = Lower[name] \/ e \in entries
           /\ \E e \in Assign(entries, name, value) :
                 /\ Lower[e.name] = Lower[name]
                 /\ \A d \in Assign(entries, name, value) :
                       Lower[d.name] = Lower[name] => d = e
  <1> DEFINE new == Assign(entries, name, value)
  <1>1. Represents(new, Bind(m, name, value))
    BY AssignRepresents
  <1>2. Lower[name] \in {Lower[e.name] : e \in new}
    BY <1>1 DEF Represents, Bind
  <1>3. PICK e \in new : Lower[e.name] = Lower[name]
    BY <1>2
  <1>4. \A d \in new : Lower[d.name] = Lower[name] => d = e
    BY <1>1, <1>3 DEF Represents
  <1>5. \A d \in new : Lower[d.name] = Lower[name] \/ d \in entries
    <2>1. \A d \in Find(entries, name) :
             Lower[[d EXCEPT !.value = value].name] = Lower[name]
      BY DEF Find, IsEqual, Entry
    <2>2. CASE Find(entries, name) = {}
      BY <2>2 DEF Assign
    <2>3. CASE Find(entries, name) # {}
      <3>1. new = (entries \ Find(entries, name))
                     \union {[e2 EXCEPT !.value = value] : e2 \in Find(entries, name)}
        BY <2>3 DEF Assign
      <3>2. \A d \in {[e2 EXCEPT !.value = value] : e2 \in Find(entries, name)} :
               Lower[d.name] = Lower[name]
        BY <2>1
      <3> QED
        BY <3>1, <3>2
    <2> QED
      BY <2>2, <2>3
  <1> QED
    BY <1>3, <1>4, <1>5

-----------------------------------------------------------------------------
\* One answer has been written exactly when m_conn was reset, and it is a
\* preamble of one encoding, or a reply.
Answered ==
    \/ conn = TRUE /\ sent = <<>>
    \/ conn = FALSE /\ Len(sent) = 1 /\ DOMAIN sent = {1}

\* The inductive invariant: the entries have the type of the map, stand for
\* what was meant, and the answers written carried well-formed headers.
ResponseInv ==
    /\ headers \in SUBSET Entry
    /\ HeadersAsMeant
    /\ Answered
    /\ ChunkedPreamble

\* stream: the preamble has no Content-Length and one Transfer-Encoding.
LEMMA StreamStep ==
    ASSUME ResponseInv, Stream PROVE ResponseInv'
  <1> USE HeadersAssumption, SyncResponseAssumption
  <1>1. PICK encoding \in Values :
          /\ headers' = Assign(Erase(headers, ContentLength), TransferEncoding, encoding)
          /\ meant' = Bind(Unbind(meant, ContentLength), TransferEncoding, encoding)
    BY DEF Stream
  <1> DEFINE left == Erase(headers, ContentLength)
             kept == Unbind(meant, ContentLength)
             named(name) == {e \in headers' : Lower[e.name] = Lower[name]}
  <1>2. /\ left \in SUBSET Entry
        /\ \A e \in left : Lower[e.name] # Lower[ContentLength]
        /\ Represents(left, kept)
    BY EraseRepresents DEF ResponseInv, HeadersAsMeant
  <1>3. headers' \in SUBSET Entry /\ HeadersAsMeant'
    <2> HIDE DEF left, kept
    <2>1. /\ Assign(left, TransferEncoding, encoding) \in SUBSET Entry
          /\ Represents(Assign(left, TransferEncoding, encoding),
                        Bind(kept, TransferEncoding, encoding))
      BY <1>2, AssignRepresents
    <2> QED
      BY <1>1, <2>1 DEF HeadersAsMeant, Represents, left, kept
  <1>4. /\ \A e \in headers' : Lower[e.name] = Lower[TransferEncoding] \/ e \in left
        /\ \E e \in headers' : /\ Lower[e.name] = Lower[TransferEncoding]
                               /\ \A d \in headers' :
                                     Lower[d.name] = Lower[TransferEncoding] => d = e
    <2> HIDE DEF left, kept
    <2>1. headers' = Assign(left, TransferEncoding, encoding)
      BY <1>1 DEF left
    <2> QED
      BY <1>2, <2>1, AssignNames
  <1>5. named(ContentLength) = {}
    BY <1>2, <1>4
  <1>6. PICK e \in headers' : /\ Lower[e.name] = Lower[TransferEncoding]
                              /\ \A d \in headers' :
                                    Lower[d.name] = Lower[TransferEncoding] => d = e
    BY <1>4
  <1>7. Cardinality(named(TransferEncoding)) = 1
    <2>1. named(TransferEncoding) = {e}
      BY <1>6
    <2> QED
      BY <2>1, FS_Singleton
  <1>8. Format(headers') = headers'
    BY <1>4 DEF Format
  <1>9. sent' = <<[kind |-> "preamble", headers |-> headers']>> /\ conn' = FALSE
    BY <1>8 DEF Stream, ResponseInv, Answered
  <1>10. Answered'
    BY <1>9 DEF Answered
  <1>11. ChunkedPreamble'
    <2>1. DOMAIN sent' = {1} /\ sent'[1].headers = headers'
      BY <1>9
    <2> QED
      BY <1>5, <1>7, <2>1 DEF ChunkedPreamble
  <1> QED
    BY <1>3, <1>10, <1>11 DEF ResponseInv

\* The calls other than stream.
LEMMA OtherSteps ==
    ASSUME ResponseInv,
           SetHeader \/ RemoveHeader \/ ClearHeaders \/ Send \/ NextRequest
    PROVE  ResponseInv'
  <1> USE DEF ResponseInv
  <1>1. CASE SetHeader
    <2>1. PICK name \in Names, value \in Values :
             headers' = Assign(headers, name, value) /\ meant' = Bind(meant, name, value)
      BY <1>1 DEF SetHeader
    <2>2. /\ Assign(headers, name, value) \in SUBSET Entry
          /\ Represents(Assign(headers, name, value), Bind(meant, name, value))
      BY AssignRepresents DEF HeadersAsMeant
    <2>3. headers' \in SUBSET Entry /\ HeadersAsMeant'
      BY <2>1, <2>2 DEF HeadersAsMeant, Represents
    <2> QED
      BY <1>1, <2>3 DEF SetHeader, Answered, ChunkedPreamble
  <1>2. CASE RemoveHeader
    <2>1. PICK name \in Names :
             headers' = Erase(headers, name) /\ meant' = Unbind(meant, name)
      BY <1>2 DEF RemoveHeader
    <2>2. /\ Erase(headers, name) \in SUBSET Entry
          /\ Represents(Erase(headers, name), Unbind(meant, name))
      BY EraseRepresents DEF HeadersAsMeant
    <2>3. headers' \in SUBSET Entry /\ HeadersAsMeant'
      BY <2>1, <2>2 DEF HeadersAsMeant, Represents
    <2> QED
      BY <1>2, <2>3 DEF RemoveHeader, Answered, ChunkedPreamble
  <1>3. CASE ClearHeaders
    BY <1>3 DEF ClearHeaders, HeadersAsMeant, Represents, Answered, ChunkedPreamble
  <1>4. CASE Send
    <2>1. sent' = <<[kind |-> "reply", headers |-> Format(headers)]>> /\ conn' = FALSE
      BY <1>4 DEF Send, Answered
    <2>2. Answered'
      BY <2>1 DEF Answered
    <2>3. ChunkedPreamble'
      BY <2>1 DEF ChunkedPreamble
    <2> QED
      BY <1>4, <2>2, <2>3 DEF Send, HeadersAsMeant
  <1>5. CASE NextRequest
    BY <1>5 DEF NextRequest, HeadersAsMeant, Represents, Answered, ChunkedPreamble
  <1> QED
    BY <1>1, <1>2, <1>3, <1>4, <1>5

\* Whatever a listener calls, its response keeps the invariant.
THEOREM ResponseInvariant == Spec => []ResponseInv
  <1>1. Init => ResponseInv
    BY DEF Init, ResponseInv, HeadersAsMeant, Represents, Answered, ChunkedPreamble
  <1>2. ResponseInv /\ [Next]_vars => ResponseInv'
    <2>1. ResponseInv /\ UNCHANGED vars => ResponseInv'
      BY DEF vars, ResponseInv, HeadersAsMeant, Answered, ChunkedPreamble
    <2> QED
      BY <2>1, StreamStep, OtherSteps DEF Next
  <1> QED
    BY <1>1, <1>2, PTL DEF Spec

\* The headers of a response are, for every set of spellings, names up to case
\* with the value of the last call to set, unless removed since.
THEOREM HeadersStayAsMeant == Spec => []HeadersAsMeant
  <1>1. ResponseInv => HeadersAsMeant
    BY DEF ResponseInv
  <1> QED
    BY <1>1, ResponseInvariant, PTL

\* A listener's response writes at most one answer: m_conn is null after it.
THEOREM AnswersOnce == Spec => []OneAnswer
  <1>1. Answered => OneAnswer
    <2>1. sent = <<>> => Len(sent) = 0
      OBVIOUS
    <2> QED
      BY <2>1 DEF Answered, OneAnswer
  <1>2. ResponseInv => Answered
    BY DEF ResponseInv
  <1> QED
    BY <1>1, <1>2, ResponseInvariant, PTL

\* The preamble that stream sends has one Transfer-Encoding and no
\* Content-Length, whatever spellings the listener used.
THEOREM PreambleIsChunked == Spec => []ChunkedPreamble
  <1>1. ResponseInv => ChunkedPreamble
    BY DEF ResponseInv
  <1> QED
    BY <1>1, ResponseInvariant, PTL

=============================================================================
