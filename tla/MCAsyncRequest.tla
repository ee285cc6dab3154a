--------------------------- MODULE MCAsyncRequest ---------------------------
EXTENDS AsyncRequest

CONSTANTS w1, w2

Slice(from, len) == [buf |-> from, len |-> len]
NoSlot == [name |-> Absent, value |-> Absent]
Line(method, uri, query, proto, body) ==
    [method |-> method, uri |-> uri, query |-> query, proto |-> proto, body |-> body]

MCWorkers == {w1, w2}
MCCopyBases == {1, 21}   \* below and above the receive buffer

\* Two header slots: none used, one used, both used; a query or none; captures
\* with the null group that mg_match leaves after the last one.
MCMessages == {
    [line |-> Line(Slice(0, 1), Slice(1, 2), Absent, Slice(3, 1), Slice(8, 0)),
     headers |-> <<NoSlot, NoSlot>>,
     groups |-> <<Absent>>],
    [line |-> Line(Slice(0, 1), Slice(1, 2), Slice(3, 1), Slice(4, 1), Slice(7, 1)),
     headers |-> <<[name |-> Slice(5, 1), value |-> Slice(6, 0)], NoSlot>>,
     groups |-> <<Slice(2, 1), Absent>>],
    [line |-> Line(Slice(0, 1), Slice(1, 1), Absent, Slice(2, 1), Slice(7, 1)),
     headers |-> <<[name |-> Slice(3, 1), value |-> Slice(4, 1)],
                   [name |-> Slice(5, 1), value |-> Slice(6, 1)]>>,
     groups |-> <<>>]}

\* Every field present; the time and the fingerprint missing; one long name.
MCCertificates == {<<1, 1, 1, 1, 1, 1>>, <<2, 1, 3, 0, 0, 0>>, <<0, 2, 0, 1, 1, 2>>}
=============================================================================
