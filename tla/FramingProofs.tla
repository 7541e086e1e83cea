--------------------------- MODULE FramingProofs ---------------------------
(***************************************************************************)
(* Proofs about Framing, for messages of any length, any limit and a       *)
(* substream that breaks anywhere: what the reader returns is the message  *)
(* that was written.                                                       *)
(***************************************************************************)
EXTENDS Framing, TLAPS, SequenceTheorems

Tokens == [length : Nat] \cup [piece : Pieces]

\* The tokens in s are those of the frame from its place k on.
PartFrom(s, frame, k) ==
    /\ k + Len(s) <= Len(frame)
    /\ \A i \in 1..Len(s) : s[i] = frame[k + i]

\* The buffer and the wire hold, one behind the other, the beginning of the
\* frame.  A break may have taken the rest of it.
StreamInv ==
    /\ message \in Seq(Pieces)
    /\ wire \in Seq(Tokens)
    /\ buffer \in Seq(Tokens)
    /\ writer \in {"opened", "ready", "sent", "closed", "failed"}
    /\ writer \in {"opened", "ready", "failed"} => wire = <<>> /\ buffer = <<>>
    /\ writer \in {"sent", "closed"} =>
          /\ Len(message) <= MaxFrame
          /\ PartFrom(buffer, Encoded(message), 0)
          /\ PartFrom(wire, Encoded(message), Len(buffer))

FrameInv == StreamInv /\ MessagesArriveWholeOrNotAtAll

-----------------------------------------------------------------------------
\* A frame is the length of the message and then its pieces.
LEMMA EncodedFrame ==
    ASSUME NEW m \in Seq(Pieces)
    PROVE  /\ Encoded(m) \in Seq(Tokens)
           /\ Len(Encoded(m)) = Len(m) + 1
           /\ Encoded(m)[1] = Length(Len(m))
           /\ \A i \in 1..Len(m) : Encoded(m)[i + 1] = Piece(m[i])
<1> DEFINE head == <<Length(Len(m))>>
           body == [i \in DOMAIN m |-> Piece(m[i])]
<1>1. head \in Seq(Tokens) /\ Len(head) = 1 /\ head[1] = Length(Len(m))
  BY DEF Tokens, Length
<1>2. /\ body \in Seq(Tokens)
      /\ Len(body) = Len(m)
      /\ \A i \in 1..Len(m) : body[i] = Piece(m[i])
  <2>1. DOMAIN m = 1..Len(m) /\ Len(m) \in Nat
    OBVIOUS
  <2>2. \A i \in 1..Len(m) : m[i] \in Pieces
    OBVIOUS
  <2>3. \A i \in 1..Len(m) : Piece(m[i]) \in Tokens
    BY <2>2 DEF Tokens, Piece
  <2> QED
    BY <2>1, <2>3
<1> HIDE DEF head, body
<1>3. /\ head \o body \in Seq(Tokens)
      /\ Len(head \o body) = Len(m) + 1
      /\ \A i \in 1..(Len(m) + 1) :
            (head \o body)[i] = IF i <= 1 THEN head[i] ELSE body[i - 1]
  <2>1. /\ head \o body \in Seq(Tokens)
        /\ Len(head \o body) = Len(head) + Len(body)
        /\ \A i \in 1..(Len(head) + Len(body)) :
              (head \o body)[i] = IF i <= Len(head) THEN head[i]
                                 ELSE body[i - Len(head)]
    <3>1. head \in Seq(Tokens) /\ body \in Seq(Tokens)
      BY <1>1, <1>2
    <3> QED
      BY <3>1, ConcatProperties, Zenon
  <2>2. Len(m) \in Nat
    OBVIOUS
  <2> QED
    BY <1>1, <1>2, <2>1, <2>2
<1>4. Len(m) \in Nat
  OBVIOUS
<1>5. (head \o body)[1] = Length(Len(m))
  BY <1>1, <1>3, <1>4
<1>6. ASSUME NEW i \in 1..Len(m) PROVE (head \o body)[i + 1] = Piece(m[i])
  BY <1>2, <1>3, <1>4
<1> QED
  BY <1>3, <1>5, <1>6 DEF Encoded, head, body

\* A buffer that begins as the frame and is complete holds the message.
LEMMA CompleteIsWhole ==
    ASSUME NEW m \in Seq(Pieces), NEW b \in Seq(Tokens),
           PartFrom(b, Encoded(m), 0), Complete(b)
    PROVE  Decoded(b) = m
<1>1. Len(b) \in Nat \ {0} /\ Len(m) \in Nat
  BY DEF Complete
<1>2. b[1] = Length(Len(m))
  BY <1>1, EncodedFrame, SMTT(30) DEF PartFrom
<1>3. Announced(b) = Len(m)
  BY <1>2 DEF Announced, Length
<1>4. \A i \in 1..Len(m) : b[i + 1] = Piece(m[i])
  BY <1>1, <1>3, EncodedFrame DEF PartFrom, Complete
<1>5. Decoded(b) = [i \in 1..Len(m) |-> m[i]]
  <2>1. \A i \in 1..Len(m) : Piece(m[i]).piece = m[i]
    BY DEF Piece
  <2>2. \A i \in 1..Len(m) : b[i + 1].piece = m[i]
    BY <1>4, <2>1
  <2> QED
    BY <1>3, <2>2 DEF Decoded
<1> QED
  BY <1>5

-----------------------------------------------------------------------------
LEMMA FrameInitial == Init => FrameInv
<1> SUFFICES ASSUME Init PROVE FrameInv
  OBVIOUS
<1>1. message \in Seq(Pieces)
  BY DEF Init, Messages, SeqOf
<1> QED
  BY <1>1 DEF Init, FrameInv, StreamInv, MessagesArriveWholeOrNotAtAll

\* The whole frame is put on an empty wire, or nothing is.
LEMMA FrameSend ==
    ASSUME FrameInv, Send, writer \in {"opened", "ready"}
    PROVE  FrameInv'
<1>1. wire = <<>> /\ buffer = <<>> /\ message \in Seq(Pieces)
  BY DEF FrameInv, StreamInv
<1>2. UNCHANGED <<message, buffer, reader, result>>
  BY DEF Send
<1>3. MessagesArriveWholeOrNotAtAll'
  BY <1>2 DEF FrameInv, MessagesArriveWholeOrNotAtAll
<1>4. CASE Len(message) > MaxFrame
  BY <1>1, <1>2, <1>3, <1>4 DEF Send, FrameInv, StreamInv
<1>5. CASE ~(Len(message) > MaxFrame)
  <2>1. writer' = "sent" /\ wire' = Encoded(message)
    BY <1>5 DEF Send
  <2>2. Len(message) <= MaxFrame
    BY <1>1, <1>5, FramingAssumption
  <2>3. wire' \in Seq(Tokens) /\ Len(wire') \in Nat /\ Len(buffer) = 0
    BY <1>1, <2>1, EncodedFrame
  <2>4. PartFrom(buffer, Encoded(message), 0)
    BY <2>1, <2>3 DEF PartFrom
  <2>5. PartFrom(wire', Encoded(message), Len(buffer))
    BY <2>1, <2>3 DEF PartFrom
  <2> QED
    BY <1>1, <1>2, <1>3, <2>1, <2>2, <2>3, <2>4, <2>5 DEF FrameInv, StreamInv
<1> QED
  BY <1>4, <1>5

\* A token moves from the wire to the end of the buffer.
LEMMA FrameArrive ==
    ASSUME FrameInv, Arrive
    PROVE  FrameInv'
<1> DEFINE E == Encoded(message)
<1>1. /\ message \in Seq(Pieces)
      /\ buffer \in Seq(Tokens)
      /\ wire \in Seq(Tokens)
      /\ wire # <<>>
      /\ writer \in {"sent", "closed"}
      /\ Len(message) <= MaxFrame
      /\ PartFrom(buffer, E, 0)
      /\ PartFrom(wire, E, Len(buffer))
  BY DEF FrameInv, StreamInv, Arrive
<1>2. /\ buffer' = Append(buffer, Head(wire))
      /\ wire' = Tail(wire)
      /\ UNCHANGED <<message, writer, reader, result>>
  BY DEF Arrive
<1>3. MessagesArriveWholeOrNotAtAll'
  BY <1>2 DEF FrameInv, MessagesArriveWholeOrNotAtAll
<1>4. E \in Seq(Tokens)
  BY <1>1, EncodedFrame
<1>5. Len(E) \in Nat /\ Len(buffer) \in Nat /\ Len(wire) \in Nat \ {0}
  BY <1>1, <1>4
<1> HIDE DEF E
<1>6. Head(wire) \in Tokens /\ Head(wire) = wire[1]
  BY <1>1
<1>7. /\ buffer' \in Seq(Tokens)
      /\ Len(buffer') = Len(buffer) + 1
      /\ \A i \in 1..Len(buffer) : buffer'[i] = buffer[i]
      /\ buffer'[Len(buffer) + 1] = Head(wire)
  BY <1>1, <1>2, <1>6, AppendProperties
<1>8. /\ wire' \in Seq(Tokens)
      /\ Len(wire') = Len(wire) - 1
      /\ \A i \in 1..Len(wire') : wire'[i] = wire[i + 1]
  BY <1>1, <1>2, HeadTailProperties
<1>9. wire[1] = E[Len(buffer) + 1]
  BY <1>1, <1>5 DEF PartFrom
<1>10. PartFrom(buffer', E, 0)
  BY <1>1, <1>5, <1>6, <1>7, <1>9 DEF PartFrom
<1>11. PartFrom(wire', E, Len(buffer'))
  <2>1. ASSUME NEW i \in 1..Len(wire') PROVE wire'[i] = E[Len(buffer') + i]
    BY <1>1, <1>5, <1>7, <1>8 DEF PartFrom
  <2> QED
    BY <1>1, <1>5, <1>7, <1>8, <2>1 DEF PartFrom
<1> QED
  BY <1>1, <1>2, <1>3, <1>7, <1>8, <1>10, <1>11 DEF FrameInv, StreamInv, E

\* A break leaves the buffer alone.
LEMMA FrameBreak ==
    ASSUME FrameInv, Break
    PROVE  FrameInv'
<1>1. message \in Seq(Pieces) /\ buffer \in Seq(Tokens)
  BY DEF FrameInv, StreamInv
<1>2. wire' = <<>> /\ UNCHANGED <<message, writer, buffer, reader, result>>
  BY DEF Break
<1>3. wire' \in Seq(Tokens) /\ Len(wire') = 0
  BY <1>2
<1>4. PartFrom(buffer, Encoded(message), 0) =>
         PartFrom(wire', Encoded(message), Len(buffer))
  BY <1>1, <1>3, EncodedFrame DEF PartFrom
<1> QED
  BY <1>2, <1>3, <1>4 DEF FrameInv, StreamInv, MessagesArriveWholeOrNotAtAll

\* The reader returns what it has decoded from a complete buffer.
LEMMA FrameRead ==
    ASSUME FrameInv, Read
    PROVE  FrameInv'
<1>1. UNCHANGED <<message, writer, wire, buffer>>
  BY DEF Read, Return, AtEnd, ReadFails
<1>2. StreamInv'
  BY <1>1 DEF FrameInv, StreamInv
<1>3. CASE Complete(buffer) /\ Return(Decoded(buffer))
  <2>1. buffer # <<>>
    BY <1>3 DEF Complete
  <2>2. /\ Len(message) <= MaxFrame
        /\ PartFrom(buffer, Encoded(message), 0)
        /\ message \in Seq(Pieces)
        /\ buffer \in Seq(Tokens)
    BY <2>1 DEF FrameInv, StreamInv
  <2>3. result' = message
    BY <1>3, <2>2, CompleteIsWhole DEF Return
  <2> QED
    BY <1>1, <1>2, <2>2, <2>3 DEF FrameInv, MessagesArriveWholeOrNotAtAll
<1>4. CASE AtEnd
  BY <1>2, <1>4 DEF AtEnd, ReadFails, FrameInv, MessagesArriveWholeOrNotAtAll
<1> QED
  BY <1>3, <1>4 DEF Read

LEMMA FrameStep == FrameInv /\ [Next]_vars => FrameInv'
<1> SUFFICES ASSUME FrameInv, [Next]_vars PROVE FrameInv'
  OBVIOUS
<1>1. CASE ReadRequest
  BY <1>1 DEF ReadRequest, FrameInv, StreamInv, MessagesArriveWholeOrNotAtAll
<1>2. CASE SendRequest \/ WriteResponse
  BY <1>2, FrameSend DEF SendRequest, WriteResponse
<1>3. CASE CloseAfterResponse
  BY <1>3 DEF CloseAfterResponse, FrameInv, StreamInv, MessagesArriveWholeOrNotAtAll
<1>4. CASE UNCHANGED vars
  BY <1>4 DEF vars, FrameInv, StreamInv, MessagesArriveWholeOrNotAtAll
<1> QED
  BY <1>1, <1>2, <1>3, <1>4, FrameArrive, FrameBreak, FrameRead DEF Next

\* MessagesArriveWholeOrNotAtAll: receive_message and read_response return
\* the message as it was written, within the codec's limit, or an error,
\* wherever the substream breaks.
THEOREM MessagesAreWhole == Spec => []MessagesArriveWholeOrNotAtAll
<1>1. FrameInv => MessagesArriveWholeOrNotAtAll
  BY DEF FrameInv
<1> QED
  BY <1>1, FrameInitial, FrameStep, PTL DEF Spec

=============================================================================
