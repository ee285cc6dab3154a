------------------------------ MODULE TlsConfig -----------------------------
(***************************************************************************)
(* The TLS configuration of an http::endpoint: m_tls_ca, m_tls_cert,       *)
(* m_tls_key and m_tls_alloc, through the four forms of use_tls, the       *)
(* destructor and handle_secure. A buffer is named by the call that gave   *)
(* it: a copy the endpoint made on the heap, or the caller's own text,     *)
(* which the caller keeps.                                                 *)
(***************************************************************************)
EXTENDS Naturals

Part == {"ca", "cert", "key"}
Buffer == [call : Nat, part : Part, copy : BOOLEAN]
NoBuffer == [call |-> 0, part |-> "ca", copy |-> FALSE]   \* a slice of length 0

Tls == [ca : Buffer, cert : Buffer, key : Buffer, alloc : BOOLEAN]
NoTls == [ca |-> NoBuffer, cert |-> NoBuffer, key |-> NoBuffer, alloc |-> FALSE]

\* How a text is given to use_tls: not at all, or empty, or not.
Given == {"absent", "empty", "text"}

is_mtls(t) == t.ca # NoBuffer

\* The slice that call n leaves for a part whose slice was old.
Slice(n, part, form, given, old) ==
    CASE given = "absent" -> old
      [] given = "empty" -> NoBuffer
      [] given = "text" -> [call |-> n, part |-> part, copy |-> form = "string"]

\* Mutant of UseTls: the forms that take views set m_tls_alloc too.
UseTlsAlwaysAlloc(t, n, form, ca, pair) ==
    [ca |-> Slice(n, "ca", form, ca, t.ca),
     cert |-> Slice(n, "cert", form, pair, t.cert),
     key |-> Slice(n, "key", form, pair, t.key),
     alloc |-> TRUE]

\* Mutant of UseTls: strings are not copied.
UseTlsNoCopy(t, n, form, ca, pair) ==
    [ca |-> Slice(n, "ca", "view", ca, t.ca),
     cert |-> Slice(n, "cert", "view", pair, t.cert),
     key |-> Slice(n, "key", "view", pair, t.key),
     alloc |-> t.alloc \/ form = "string"]

\* use_tls, call number n: with strings, which are copied, or with views; with
\* or without a CA. What was there is overwritten, not freed.
UseTls(t, n, form, ca, pair) ==
    [ca |-> Slice(n, "ca", form, ca, t.ca),
     cert |-> Slice(n, "cert", form, pair, t.cert),
     key |-> Slice(n, "key", form, pair, t.key),
     alloc |-> t.alloc \/ form = "string"]

\* The copies that call n makes.
Copies(n, form, ca, pair) ==
    {b \in {Slice(n, "ca", form, ca, NoBuffer), Slice(n, "cert", form, pair, NoBuffer),
            Slice(n, "key", form, pair, NoBuffer)} : b.copy}

\* Mutant of Freed: the destructor forgets the CA.
FreedWithoutCA(t) ==
    IF ~t.alloc THEN {} ELSE {t.cert, t.key} \ {NoBuffer}

\* What ~endpoint frees.
Freed(t) ==
    IF ~t.alloc THEN {}
    ELSE ({t.cert, t.key} \union (IF is_mtls(t) THEN {t.ca} ELSE {})) \ {NoBuffer}

\* The credentials that mg_tls_init gets for an accepted connection.
Credentials == [on : BOOLEAN, ca : Buffer, cert : Buffer, key : Buffer]
NoCredentials == [on |-> FALSE, ca |-> NoBuffer, cert |-> NoBuffer, key |-> NoBuffer]

\* handle_secure
Offered(t) ==
    IF t.cert = NoBuffer \/ t.key = NoBuffer THEN NoCredentials
    ELSE [on |-> TRUE, ca |-> t.ca, cert |-> t.cert, key |-> t.key]

=============================================================================
