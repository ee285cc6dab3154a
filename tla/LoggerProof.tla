---------------------------- MODULE LoggerProof ----------------------------
(***************************************************************************)
(* Theorems about server::m_logger when one thread logs, for every size of *)
(* the buffer: it writes in bounds, loses no character, and hands over     *)
(* whole lines or full buffers.                                            *)
(***************************************************************************)
EXTENDS Logger, SequenceTheorems, TLAPS

Held(n) == SubSeq(buffer, 1, n)
NoLineIn(n) == \A k \in 1..n : buffer[k] # NewLine

\* The inductive invariant for the only thread t, by where it is in
\* event_manager_logger: what the offset, the buffer and the histories say.
LoggerInv(t) ==
    /\ buffer \in [1..BufferSize -> Char]
    /\ logged \in Seq(Char) /\ delivered \in Seq(Char)
    /\ call \in [{t} -> Call]
    /\ offset \in 0..BufferSize
    /\ call[t].at = "idle" =>
          /\ offset < BufferSize /\ NoLineIn(offset)
          /\ logged = delivered \o Held(offset)
    /\ call[t].at = "store" =>
          /\ offset < BufferSize /\ NoLineIn(offset)
          /\ call[t].slot = offset
          /\ logged = (delivered \o Held(offset)) \o <<call[t].ch>>
    /\ call[t].at \in {"test", "deliver"} =>
          /\ offset # 0 /\ NoLineIn(offset - 1)
          /\ logged = delivered \o Held(offset)
    /\ call[t].at = "test" => call[t].ch = buffer[offset]
    /\ call[t].at = "deliver" => buffer[offset] = NewLine \/ offset = BufferSize
    /\ call[t].at = "reset" => logged = delivered

-----------------------------------------------------------------------------
\* What the buffer holds up to the offset is a sequence of characters.
LEMMA HeldIsSeq ==
    ASSUME NEW b \in [1..BufferSize -> Char], NEW n \in 0..BufferSize
    PROVE  /\ SubSeq(b, 1, n) \in Seq(Char)
           /\ Len(SubSeq(b, 1, n)) = n
           /\ \A k \in 1..n : SubSeq(b, 1, n)[k] = b[k]
  <1> USE LoggerAssumption
  <1>1. \A k \in 1..n : b[k] \in Char
    OBVIOUS
  <1>2. /\ SubSeq(b, 1, n) \in Seq(Char)
        /\ Len(SubSeq(b, 1, n)) = IF 1 <= n THEN n - 1 + 1 ELSE 0
        /\ \A k \in 1..(n - 1 + 1) : SubSeq(b, 1, n)[k] = b[1 + k - 1]
    <2> HIDE LoggerAssumption
    <2>1. 1 \in Int /\ n \in Int
      BY LoggerAssumption
    <2> QED
      BY <1>1, <2>1, SubSeqProperties
  <1> QED
    BY <1>2

\* Storing one more character appends it to what the buffer holds.
LEMMA HeldGrows ==
    ASSUME NEW b \in [1..BufferSize -> Char], NEW n \in 0..(BufferSize - 1), NEW ch \in Char
    PROVE  SubSeq([b EXCEPT ![n + 1] = ch], 1, n + 1) = SubSeq(b, 1, n) \o <<ch>>
  <1> USE LoggerAssumption
  <1> DEFINE c == [b EXCEPT ![n + 1] = ch]
             left == SubSeq(c, 1, n + 1)
             held == SubSeq(b, 1, n)
  <1>1. /\ c \in [1..BufferSize -> Char] /\ c[n + 1] = ch
        /\ n + 1 \in 0..BufferSize /\ n \in 0..BufferSize
        /\ \A k \in 1..n : c[k] = b[k]
    OBVIOUS
  <1>2. /\ left \in Seq(Char) /\ Len(left) = n + 1
        /\ \A k \in 1..(n + 1) : left[k] = c[k]
    BY <1>1, HeldIsSeq
  <1>3. /\ held \in Seq(Char) /\ Len(held) = n
        /\ \A k \in 1..n : held[k] = b[k]
    BY <1>1, HeldIsSeq
  <1> HIDE DEF c, left, held
  <1>4. <<ch>> \in Seq(Char) /\ Len(<<ch>>) = 1 /\ <<ch>>[1] = ch
    OBVIOUS
  <1>5. /\ held \o <<ch>> \in Seq(Char)
        /\ Len(held \o <<ch>>) = n + 1
        /\ \A k \in 1..(n + 1) :
              (held \o <<ch>>)[k] = IF k <= n THEN held[k] ELSE <<ch>>[k - n]
    BY <1>3, <1>4, ConcatProperties
  <1>6. \A k \in 1..(n + 1) : left[k] = (held \o <<ch>>)[k]
    <2>1. SUFFICES ASSUME NEW k \in 1..(n + 1) PROVE left[k] = (held \o <<ch>>)[k]
      OBVIOUS
    <2>2. CASE k <= n
      <3>1. k \in 1..n
        BY <2>2
      <3>2. left[k] = c[k] /\ c[k] = b[k]
        BY <1>1, <1>2, <3>1
      <3>3. (held \o <<ch>>)[k] = held[k] /\ held[k] = b[k]
        BY <1>3, <1>5, <2>2, <3>1
      <3> QED
        BY <3>2, <3>3
    <2>3. CASE k = n + 1
      <3>1. ~(k <= n) /\ k - n = 1
        BY <2>3
      <3>2. left[k] = ch
        BY <1>1, <1>2, <2>3
      <3>3. (held \o <<ch>>)[k] = <<ch>>[k - n]
        BY <1>5, <3>1
      <3>4. <<ch>>[k - n] = ch
        BY <1>4, <3>1
      <3> QED
        BY <3>2, <3>3, <3>4
    <2>4. k <= n \/ k = n + 1
      BY <1>1
    <2> QED
      BY <2>2, <2>3, <2>4
  <1>7. left = held \o <<ch>>
    BY <1>2, <1>5, <1>6, SeqEqual
  <1> QED
    BY <1>7 DEF c, left, held

-----------------------------------------------------------------------------
\* register_logger leaves an empty buffer.
LEMMA InitInv ==
    ASSUME NEW t, Threads = {t}, Init PROVE LoggerInv(t)
  <1> USE LoggerAssumption
  <1>1. NewLine \in Char /\ NoCall \in Call
    BY DEF Char, Call, NoCall
  <1>2. buffer \in [1..BufferSize -> Char] /\ call \in [{t} -> Call] /\ offset = 0
    BY <1>1 DEF Init
  <1>3. Held(0) = <<>>
    BY SubSeqEmpty DEF Held
  <1>4. logged = <<>> /\ delivered = <<>> /\ <<>> \o <<>> = <<>> /\ <<>> \in Seq(Char)
    BY DEF Init
  <1>5. call[t].at = "idle"
    BY DEF Init, NoCall
  <1>6. NoLineIn(0)
    BY DEF NoLineIn
  <1> QED
    BY <1>2, <1>3, <1>4, <1>5, <1>6 DEF LoggerInv

\* The load of the offset: the character is logged, and not yet in the buffer.
LEMMA LoadStep ==
    ASSUME NEW t, Threads = {t}, LoggerInv(t), Load(t) PROVE LoggerInv(t)'
  <1> USE LoggerAssumption DEF LoggerInv
  <1>1. PICK ch \in Char :
          /\ call' = [call EXCEPT ![t] = [at |-> "store", ch |-> ch, slot |-> offset]]
          /\ logged' = Append(logged, ch)
    BY DEF Load
  <1>2. call[t].at = "idle" /\ UNCHANGED <<buffer, offset, delivered>>
    BY DEF Load
  <1>3. /\ call' \in [{t} -> Call] /\ call'[t].at = "store"
        /\ call'[t].slot = offset /\ call'[t].ch = ch
    BY <1>1 DEF Call
  <1>4. logged' = logged \o <<ch>> /\ logged' \in Seq(Char)
    BY <1>1, AppendIsConcat
  <1>5. Held(offset)' = Held(offset) /\ NoLineIn(offset)' = NoLineIn(offset)
    BY <1>2 DEF Held, NoLineIn
  <1> QED
    BY <1>2, <1>3, <1>4, <1>5

\* The store of the character and of the next offset.
LEMMA StoreStep ==
    ASSUME NEW t, Threads = {t}, LoggerInv(t), Store(t) PROVE LoggerInv(t)'
  <1> USE LoggerAssumption DEF LoggerInv
  <1> DEFINE ch == call[t].ch
  <1>1. /\ call[t].at = "store" /\ call' = [call EXCEPT ![t].at = "test"]
        /\ UNCHANGED <<logged, delivered>>
    BY DEF Store, Goto
  <1>2. /\ buffer' = [buffer EXCEPT ![offset + 1] = ch]
        /\ offset' = offset + 1
    BY <1>1 DEF Store
  <1>3. ch \in Char /\ call' \in [{t} -> Call] /\ call'[t].at = "test" /\ call'[t].ch = ch
    BY <1>1 DEF Call
  <1>4. /\ buffer' \in [1..BufferSize -> Char] /\ offset' \in 1..BufferSize
        /\ buffer'[offset'] = ch
    BY <1>1, <1>2, <1>3
  <1>5. logged' = delivered' \o SubSeq(buffer', 1, offset')
    <2>1. SubSeq(buffer', 1, offset') = Held(offset) \o <<ch>>
      <3>1. offset \in 0..(BufferSize - 1)
        BY <1>1
      <3>2. SubSeq([buffer EXCEPT ![offset + 1] = ch], 1, offset + 1) =
               SubSeq(buffer, 1, offset) \o <<ch>>
        BY <1>3, <3>1, HeldGrows
      <3> QED
        BY <1>2, <3>2 DEF Held
    <2>2. Held(offset) \in Seq(Char)
      BY HeldIsSeq DEF Held
    <2>3. <<ch>> \in Seq(Char)
      BY <1>3
    <2>4. (delivered \o Held(offset)) \o <<ch>> = delivered \o (Held(offset) \o <<ch>>)
      BY <2>2, <2>3, ConcatAssociative
    <2> QED
      BY <1>1, <2>1, <2>4
  <1>6. NoLineIn(offset - 1)'
    BY <1>1, <1>2, <1>3 DEF NoLineIn
  <1> QED
    BY <1>1, <1>3, <1>4, <1>5, <1>6 DEF Held

\* The test: only a newline or a full buffer is handed over.
LEMMA TestStep ==
    ASSUME NEW t, Threads = {t}, LoggerInv(t), Test(t) PROVE LoggerInv(t)'
  <1> USE LoggerAssumption DEF LoggerInv
  <1>1. call[t].at = "test" /\ UNCHANGED <<buffer, offset, logged, delivered>>
    BY DEF Test, Goto
  <1>2. /\ Held(offset)' = Held(offset)
        /\ NoLineIn(offset)' = NoLineIn(offset) /\ NoLineIn(offset - 1)' = NoLineIn(offset - 1)
    BY <1>1 DEF Held, NoLineIn
  <1>3. CASE call[t].ch = NewLine \/ offset >= BufferSize
    <2>1. call' = [call EXCEPT ![t].at = "deliver"]
      BY <1>3 DEF Test, Goto
    <2>2. call' \in [{t} -> Call] /\ call'[t].at = "deliver"
      BY <2>1 DEF Call
    <2>3. buffer[offset] = NewLine \/ offset = BufferSize
      BY <1>1, <1>3
    <2> QED
      BY <1>1, <1>2, <2>2, <2>3
  <1>4. CASE ~(call[t].ch = NewLine \/ offset >= BufferSize)
    <2>1. call' = [call EXCEPT ![t].at = "idle"]
      BY <1>4 DEF Test, Goto
    <2>2. call' \in [{t} -> Call] /\ call'[t].at = "idle"
      BY <2>1 DEF Call
    <2>3. NoLineIn(offset) /\ offset < BufferSize
      BY <1>1, <1>4 DEF NoLineIn
    <2> QED
      BY <1>1, <1>2, <2>2, <2>3
  <1> QED
    BY <1>3, <1>4

\* The listener is given what the buffer holds.
LEMMA DeliverStep ==
    ASSUME NEW t, Threads = {t}, LoggerInv(t), Deliver(t)
    PROVE  LoggerInv(t)' /\ delivered' = delivered \o Held(offset)
  <1> USE LoggerAssumption DEF LoggerInv
  <1>1. /\ call[t].at = "deliver" /\ call' = [call EXCEPT ![t].at = "reset"]
        /\ UNCHANGED <<buffer, offset, logged>>
    BY DEF Deliver, Goto
  <1>2. delivered' = delivered \o Held(offset)
    BY <1>1 DEF Deliver, Held
  <1>3. call' \in [{t} -> Call] /\ call'[t].at = "reset"
    BY <1>1 DEF Call
  <1>4. delivered' = logged
    BY <1>1, <1>2
  <1> QED
    BY <1>1, <1>2, <1>3, <1>4

\* offset = 0: everything logged has been delivered.
LEMMA ResetStep ==
    ASSUME NEW t, Threads = {t}, LoggerInv(t), Reset(t) PROVE LoggerInv(t)'
  <1> USE LoggerAssumption DEF LoggerInv
  <1>1. /\ call[t].at = "reset" /\ call' = [call EXCEPT ![t].at = "idle"]
        /\ offset' = 0 /\ UNCHANGED <<buffer, logged, delivered>>
    BY DEF Reset, Goto
  <1>2. call' \in [{t} -> Call] /\ call'[t].at = "idle"
    BY <1>1 DEF Call
  <1>3. SubSeq(buffer', 1, offset') = <<>>
    BY <1>1, SubSeqEmpty
  <1>4. delivered' \o <<>> = delivered'
    BY <1>1, ConcatEmptySeq
  <1>5. NoLineIn(offset)'
    BY <1>1 DEF NoLineIn
  <1> QED
    BY <1>1, <1>2, <1>3, <1>4, <1>5 DEF Held

\* With one thread the invariant holds in every state.
THEOREM LoggerInvariant ==
    ASSUME NEW t, Threads = {t} PROVE Spec => []LoggerInv(t)
  <1>1. Init => LoggerInv(t)
    BY InitInv
  <1>2. LoggerInv(t) /\ [Next]_vars => LoggerInv(t)'
    <2>1. LoggerInv(t) /\ Next => LoggerInv(t)'
      BY LoadStep, StoreStep, TestStep, DeliverStep, ResetStep DEF Next
    <2>2. LoggerInv(t) /\ UNCHANGED vars => LoggerInv(t)'
      BY DEF vars, LoggerInv, Held, NoLineIn
    <2> QED
      BY <2>1, <2>2
  <1> QED
    BY <1>1, <1>2, PTL DEF Spec

\* With one thread every variable keeps its type; in particular the offset never
\* leaves the buffer. (With more it does.)
THEOREM OneThreadTypes ==
    ASSUME NEW t, Threads = {t} PROVE Spec => []TypeOK
  <1>1. LoggerInv(t) => TypeOK
    BY DEF LoggerInv, TypeOK
  <1> QED
    BY <1>1, LoggerInvariant, PTL

\* One thread never stores past the end of the buffer.
THEOREM OneThreadWritesInBounds ==
    ASSUME NEW t, Threads = {t} PROVE Spec => []WritesInBounds
  <1>1. LoggerInv(t) => WritesInBounds
    BY DEF LoggerInv, WritesInBounds
  <1> QED
    BY <1>1, LoggerInvariant, PTL

\* Between the calls of one thread no character is lost, repeated or reordered.
THEOREM OneThreadLosesNothing ==
    ASSUME NEW t, Threads = {t} PROVE Spec => []NothingLost
  <1>1. LoggerInv(t) => NothingLost
    BY DEF LoggerInv, NothingLost, Held
  <1> QED
    BY <1>1, LoggerInvariant, PTL

\* The listener of one thread is given whole lines, or a buffer full of one.
THEOREM OneThreadWholeLines ==
    ASSUME NEW t, Threads = {t} PROVE Spec => WholeLines
  <1> DEFINE n == Len(delivered') - Len(delivered)
             Whole == delivered' # delivered =>
                         /\ n \in 1..BufferSize
                         /\ delivered'[Len(delivered')] = NewLine \/ n = BufferSize
                         /\ \A k \in 1..(n - 1) : delivered'[Len(delivered) + k] # NewLine
  <1>1. LoggerInv(t) /\ [Next]_vars => [Whole]_delivered
    <2>1. SUFFICES ASSUME LoggerInv(t), Deliver(t) PROVE Whole
      BY DEF Next, vars, Load, Store, Test, Reset
    <2> USE LoggerAssumption
    <2>2. /\ offset \in 1..BufferSize
          /\ NoLineIn(offset - 1)
          /\ buffer[offset] = NewLine \/ offset = BufferSize
          /\ buffer \in [1..BufferSize -> Char] /\ delivered \in Seq(Char)
      BY <2>1 DEF LoggerInv, Deliver, Goto
    <2>3. delivered' = delivered \o Held(offset)
      BY <2>1, DeliverStep
    <2>4. /\ Held(offset) \in Seq(Char) /\ Len(Held(offset)) = offset
          /\ \A k \in 1..offset : Held(offset)[k] = buffer[k]
      BY <2>2, HeldIsSeq DEF Held
    <2>5. /\ Len(delivered') = Len(delivered) + offset
          /\ \A i \in 1..(Len(delivered) + offset) : delivered'[i] =
                IF i <= Len(delivered) THEN delivered[i]
                ELSE Held(offset)[i - Len(delivered)]
      <3> DEFINE held == Held(offset)
      <3> HIDE DEF held
      <3>1. delivered \in Seq(Char) /\ held \in Seq(Char) /\ Len(held) = offset
        BY <2>2, <2>4 DEF held
      <3>2. /\ Len(delivered \o held) = Len(delivered) + offset
            /\ \A i \in 1..(Len(delivered) + offset) : (delivered \o held)[i] =
                  IF i <= Len(delivered) THEN delivered[i] ELSE held[i - Len(delivered)]
        BY <3>1, ConcatProperties
      <3> QED
        BY <2>3, <3>2 DEF held
    <2>6. Len(delivered) \in Nat
      BY <2>2, LenProperties
    <2>7. \A k \in 1..offset : delivered'[Len(delivered) + k] = buffer[k]
      <3>1. SUFFICES ASSUME NEW k \in 1..offset
                     PROVE  delivered'[Len(delivered) + k] = buffer[k]
        OBVIOUS
      <3>2. /\ Len(delivered) + k \in 1..(Len(delivered) + offset)
            /\ ~(Len(delivered) + k <= Len(delivered))
            /\ Len(delivered) + k - Len(delivered) = k
        BY <2>2, <2>6
      <3> QED
        BY <2>4, <2>5, <3>2
    <2>8. n = offset
      BY <2>2, <2>5, <2>6
    <2>9. delivered'[Len(delivered')] = buffer[offset]
      BY <2>2, <2>5, <2>7
    <2>10. \A k \in 1..(n - 1) : delivered'[Len(delivered) + k] # NewLine
      BY <2>2, <2>7, <2>8 DEF NoLineIn
    <2> QED
      BY <2>2, <2>8, <2>9, <2>10
  <1> QED
    BY <1>1, LoggerInvariant, PTL DEF Spec, WholeLines

=============================================================================
