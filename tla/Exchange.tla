------------------------------ MODULE Exchange ------------------------------
(***************************************************************************)
(* What the clients of a server are promised, whatever way their requests  *)
(* are served: the requests of a connection are answered one at a time and *)
(* in order, each by one whole response or by one chunked response with    *)
(* its chunks in order, and nothing is sent once the connection is closed. *)
(***************************************************************************)
EXTENDS Naturals

CONSTANT Conns

VARIABLES
    link,      \* link[c]: "idle", "open" or "closed"
    asked,     \* asked[c]: number of requests received
    answered,  \* answered[c]: number of answers completed
    latest     \* latest[c]: what was sent last, which part of the answer to what

vars == <<link, asked, answered, latest>>

\* A whole answer, the n-th part of a chunked one, or its end.
Whole(request) == [to |-> request, kind |-> "whole", n |-> 0]
Part(request, n) == [to |-> request, kind |-> "part", n |-> n]
End(request, n) == [to |-> request, kind |-> "end", n |-> n]
Nothing == [to |-> 0, kind |-> "none", n |-> 0]

Init ==
    /\ link = [c \in Conns |-> "idle"]
    /\ asked = [c \in Conns |-> 0]
    /\ answered = [c \in Conns |-> 0]
    /\ latest = [c \in Conns |-> Nothing]

Connect(c) ==
    /\ link[c] = "idle" /\ link' = [link EXCEPT ![c] = "open"]
    /\ UNCHANGED <<asked, answered, latest>>

Leave(c) ==
    /\ link[c] = "open" /\ link' = [link EXCEPT ![c] = "closed"]
    /\ UNCHANGED <<asked, answered, latest>>

Send(c, frame) == latest' = [latest EXCEPT ![c] = frame]
Complete(c) == answered' = [answered EXCEPT ![c] = @ + 1]

\* Some of the answer to the request: all of it, or the preamble.
Answer(c, request) ==
    \/ Send(c, Whole(request)) /\ Complete(c)
    \/ Send(c, Part(request, 0)) /\ UNCHANGED answered

\* The next request is received, once the one before has its answer; it may be
\* answered at once.
Ask(c) ==
    /\ link[c] = "open" /\ latest[c].kind # "part" /\ answered[c] = asked[c]
    /\ asked' = [asked EXCEPT ![c] = @ + 1]
    /\ Answer(c, asked[c] + 1) \/ UNCHANGED <<answered, latest>>
    /\ UNCHANGED link

\* The request that was left open is answered.
AnswerLater(c) ==
    /\ link[c] = "open" /\ latest[c].kind # "part" /\ answered[c] + 1 = asked[c]
    /\ Answer(c, asked[c])
    /\ UNCHANGED <<link, asked>>

\* One more chunk, or the terminating one.
Continue(c) ==
    /\ link[c] = "open" /\ latest[c].kind = "part"
    /\ \/ Send(c, Part(asked[c], latest[c].n + 1)) /\ UNCHANGED answered
       \/ Send(c, End(asked[c], latest[c].n + 1)) /\ Complete(c)
    /\ UNCHANGED <<link, asked>>

Next == \E c \in Conns :
    Connect(c) \/ Leave(c) \/ Ask(c) \/ AnswerLater(c) \/ Continue(c)

Spec == Init /\ [][Next]_vars

=============================================================================
