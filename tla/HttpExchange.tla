---------------------------- MODULE HttpExchange ----------------------------
(***************************************************************************)
(* HttpEndpoint implements Exchange on every connection: the refinement    *)
(* mapping reads off the wire how many answers are complete, and what the  *)
(* client received last.                                                   *)
(***************************************************************************)
EXTENDS HttpEndpoint

\* The frames that complete an answer, by their place on the wire.
Finals(wire) == {p \in DOMAIN wire : wire[p].kind \in Whole \union {"last"}}

\* What a client sees of a frame.
Seen(f) ==
    [to |-> f.req, n |-> f.n,
     kind |-> IF f.kind \in Whole THEN "whole" ELSE IF f.kind = "last" THEN "end" ELSE "part"]

Latest(wire) ==
    IF wire = <<>> THEN [to |-> 0, n |-> 0, kind |-> "none"] ELSE Seen(wire[Len(wire)])

Promise == INSTANCE Exchange WITH
    link <- phase,
    asked <- reqs,
    answered <- [c \in Conns |-> Cardinality(Finals(out[c].wire))],
    latest <- [c \in Conns |-> Latest(out[c].wire)]

\* On each connection the endpoint, its workers and its streams together do
\* what Exchange promises a client, whatever the order of their steps.
KeepsPromise == Promise!Spec

=============================================================================
