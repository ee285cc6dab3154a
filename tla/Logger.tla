------------------------------- MODULE Logger -------------------------------
(***************************************************************************)
(* server::m_logger: mongoose hands log messages over one character at a   *)
(* time, and the listener gets a line, or as much of one as the buffer     *)
(* holds. Every thread that logs calls event_manager_logger; nothing in it *)
(* is atomic, so the store to offset is a step after its load.             *)
(***************************************************************************)
EXTENDS Naturals, Sequences

CONSTANTS
    Threads,     \* threads that log: the event loop, and workers in stream()
    Chars,       \* characters other than the newline
    NewLine,
    BufferSize,  \* the size given to register_logger
    MaxLogged    \* bound: characters logged

ASSUME LoggerAssumption ==
    /\ BufferSize \in Nat \ {0}
    /\ MaxLogged \in Nat
    /\ NewLine \notin Chars

VARIABLES
    buffer,    \* logger::buffer
    offset,    \* logger::offset
    call,      \* call[t]: where thread t is in event_manager_logger
    logged,    \* history: the characters logged, in the order the calls began
    delivered  \* history: what the listener was invoked with, concatenated

vars == <<buffer, offset, call, logged, delivered>>

Char == Chars \union {NewLine}

\* A call about to store ch at slot, to test or to reset the offset.
Call == [at : {"idle", "store", "test", "deliver", "reset"}, ch : Char, slot : Nat]
NoCall == [at |-> "idle", ch |-> NewLine, slot |-> 0]

\* register_logger: the buffer is resized and the callback installed.
Init ==
    /\ buffer = [k \in 1..BufferSize |-> NewLine]
    /\ offset = 0
    /\ call = [t \in Threads |-> NoCall]
    /\ logged = <<>>
    /\ delivered = <<>>

Goto(t, from, to) == call[t].at = from /\ call' = [call EXCEPT ![t].at = to]

\* buffer[offset++] = ch: the offset is loaded.
Load(t) ==
    /\ call[t].at = "idle"
    /\ Len(logged) < MaxLogged
    /\ \E ch \in Char :
          /\ call' = [call EXCEPT ![t] = [at |-> "store", ch |-> ch, slot |-> offset]]
          /\ logged' = Append(logged, ch)
    /\ UNCHANGED <<buffer, offset, delivered>>

\* Mutant of Store: the character goes into the slot after the offset.
StoreNext(t) ==
    /\ Goto(t, "store", "test")
    /\ buffer' = IF call[t].slot + 2 \in DOMAIN buffer
                 THEN [buffer EXCEPT ![call[t].slot + 2] = call[t].ch]
                 ELSE buffer
    /\ offset' = call[t].slot + 1
    /\ UNCHANGED <<logged, delivered>>

\* The character and the incremented offset are stored.
Store(t) ==
    /\ Goto(t, "store", "test")
    /\ buffer' = IF call[t].slot < BufferSize
                 THEN [buffer EXCEPT ![call[t].slot + 1] = call[t].ch]
                 ELSE buffer
    /\ offset' = call[t].slot + 1
    /\ UNCHANGED <<logged, delivered>>

\* Mutant of Test: the piece is handed over one character early.
TestEarly(t) ==
    /\ IF call[t].ch = NewLine \/ offset + 1 >= BufferSize
       THEN Goto(t, "test", "deliver")
       ELSE Goto(t, "test", "idle")
    /\ UNCHANGED <<buffer, offset, logged, delivered>>

\* Mutant of Test: a full buffer is not a reason to hand it over.
TestNewLine(t) ==
    /\ IF call[t].ch = NewLine
       THEN Goto(t, "test", "deliver")
       ELSE Goto(t, "test", "idle")
    /\ UNCHANGED <<buffer, offset, logged, delivered>>

\* if (ch == '\n' || offset >= buffer.size())
Test(t) ==
    /\ IF call[t].ch = NewLine \/ offset >= BufferSize
       THEN Goto(t, "test", "deliver")
       ELSE Goto(t, "test", "idle")
    /\ UNCHANGED <<buffer, offset, logged, delivered>>

\* listener->invoke(string_view(buffer.data(), offset))
Deliver(t) ==
    /\ Goto(t, "deliver", "reset")
    /\ delivered' = delivered \o
          SubSeq(buffer, 1, IF offset < BufferSize THEN offset ELSE BufferSize)
    /\ UNCHANGED <<buffer, offset, logged>>

\* offset = 0
Reset(t) ==
    /\ Goto(t, "reset", "idle")
    /\ offset' = 0
    /\ UNCHANGED <<buffer, logged, delivered>>

Next == \E t \in Threads : Load(t) \/ Store(t) \/ Test(t) \/ Deliver(t) \/ Reset(t)

Spec == Init /\ [][Next]_vars

-----------------------------------------------------------------------------
\* The shape of every variable.
TypeOK ==
    /\ buffer \in [1..BufferSize -> Char]
    /\ offset \in 0..BufferSize
    /\ call \in [Threads -> Call]
    /\ logged \in Seq(Char)
    /\ delivered \in Seq(Char)

\* event_manager_logger writes inside the buffer: README.md promises "Custom
\* logging with configurable level and callback" next to asynchronous request
\* handling that is "thread-safe".
WritesInBounds == \A t \in Threads : call[t].at = "store" => call[t].slot < BufferSize

\* Between calls, what the listener was given and what waits in the buffer are
\* together the characters logged: none is lost, repeated or reordered.
NothingLost ==
    (\A t \in Threads : call[t].at = "idle") =>
        logged = delivered \o SubSeq(buffer, 1, offset)

\* The listener is given whole lines, or exactly a buffer full of one.
WholeLines ==
    [][LET n == Len(delivered') - Len(delivered)
       IN  delivered' # delivered =>
              /\ n \in 1..BufferSize
              /\ delivered'[Len(delivered')] = NewLine \/ n = BufferSize
              /\ \A k \in 1..(n - 1) : delivered'[Len(delivered) + k] # NewLine]_delivered

=============================================================================
