---------------------------- MODULE SyncResponse ----------------------------
(***************************************************************************)
(* http::response: what a synchronous listener may do with the responses   *)
(* it is given, one per request, in any order of calls.                    *)
(***************************************************************************)
EXTENDS Headers, Naturals, Sequences

CONSTANTS
    ContentLength, TransferEncoding, ContentType,   \* as the code spells them
    Chunked, PlainText

ASSUME SyncResponseAssumption ==
    /\ {ContentLength, TransferEncoding, ContentType} \subseteq Names
    /\ {Chunked, PlainText} \subseteq Values
    /\ Lower[ContentLength] # Lower[TransferEncoding]

VARIABLES
    headers,  \* response::m_headers
    conn,     \* response::m_conn is not null
    sent,     \* what this response has written: its kind and the headers it carries
    meant     \* history: the map the listener's calls describe, by lower-case name

vars == <<headers, conn, sent, meant>>

Init == headers = {} /\ conn = TRUE /\ sent = <<>> /\ meant = <<>>

\* The reference for set and remove: a function from lower-case names to values.
Bind(m, name, value) ==
    [k \in DOMAIN m \union {Lower[name]} |-> IF k = Lower[name] THEN value ELSE m[k]]
Unbind(m, name) == [k \in DOMAIN m \ {Lower[name]} |-> m[k]]

\* format: the entries, or a default one when there are none.
Format(entries) ==
    IF entries = {} THEN {[name |-> ContentType, value |-> PlainText]} ELSE entries

SetHeader ==
    /\ \E name \in Names, value \in Values :
          /\ headers' = Assign(headers, name, value)
          /\ meant' = Bind(meant, name, value)
    /\ UNCHANGED <<conn, sent>>

RemoveHeader ==
    /\ \E name \in Names :
          /\ headers' = Erase(headers, name)
          /\ meant' = Unbind(meant, name)
    /\ UNCHANGED <<conn, sent>>

ClearHeaders ==
    /\ headers' = {} /\ meant' = <<>>
    /\ UNCHANGED <<conn, sent>>

\* Mutant of Send: m_conn is kept.
SendAgain ==
    /\ conn /\ Len(sent) < 3
    /\ sent' = Append(sent, [kind |-> "reply", headers |-> Format(headers)])
    /\ UNCHANGED <<headers, conn, meant>>

\* send: nothing once m_conn is null.
Send ==
    /\ conn
    /\ sent' = Append(sent, [kind |-> "reply", headers |-> Format(headers)])
    /\ conn' = FALSE
    /\ UNCHANGED <<headers, meant>>

\* stream: nothing once m_conn is null. The preamble is sent, and the producer
\* handed to the remote_context.
Stream ==
    /\ conn
    /\ \E encoding \in Values :
          /\ headers' = Assign(Erase(headers, ContentLength), TransferEncoding, encoding)
          /\ meant' = Bind(Unbind(meant, ContentLength), TransferEncoding, encoding)
    /\ sent' = Append(sent, [kind |-> "preamble", headers |-> Format(headers')])
    /\ conn' = FALSE

\* The listener returns; the next request gets a response of its own.
NextRequest ==
    /\ headers' = {} /\ conn' = TRUE /\ sent' = <<>> /\ meant' = <<>>

Next ==
    \/ SetHeader \/ RemoveHeader \/ ClearHeaders
    \/ Send \/ Stream
    \/ NextRequest

Spec == Init /\ [][Next]_vars

-----------------------------------------------------------------------------
\* The entries are those of the reference m: one per name, with its value.
Represents(entries, m) ==
    /\ \A d, e \in entries : Lower[d.name] = Lower[e.name] => d = e
    /\ {Lower[e.name] : e \in entries} = DOMAIN m
    /\ \A e \in entries : e.value = m[Lower[e.name]]

\* However a listener spells its header names, one name has one entry, and it
\* holds what the last call for that name asked for.
HeadersAsMeant == Represents(headers, meant)

\* A response writes one answer, whatever its listener calls (README.md marks
\* the calls after the first as no-ops).
OneAnswer == Len(sent) <= 1

\* The preamble of a chunked response has one Transfer-Encoding and, whatever
\* spelling the listener used, no Content-Length.
ChunkedPreamble ==
    \A k \in DOMAIN sent : sent[k].kind = "preamble" =>
        LET named(name) == {e \in sent[k].headers : Lower[e.name] = Lower[name]}
        IN  named(ContentLength) = {} /\ Cardinality(named(TransferEncoding)) = 1

=============================================================================
