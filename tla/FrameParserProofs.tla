--------------------------- MODULE FrameParserProofs ---------------------------
(***************************************************************************)
(* Proofs about FrameParser, for all streams of bytes, every checksum and  *)
(* every limit of the payload.                                             *)
(*                                                                         *)
(* Each turn of the loop keeps a suffix of the buffer, a shorter one       *)
(* unless the loop is left, and what it leaves is shorter than the largest *)
(* frame.                                                                  *)
(*                                                                         *)
(* What the parser handles is compared with Scan(), the reference that     *)
(* reads a stream in one go: at any time the scan of however much of the   *)
(* stream finds what was handled, and then what it finds from the buffer   *)
(* on. So the cuts of recv() make no difference, frames get through, and   *)
(* nothing but frames does. Scan() is a recursive function; that it exists *)
(* and obeys its equations (ScanFacts) comes from SequenceFacts.           *)
(***************************************************************************)
EXTENDS FrameParser, Crc16Proofs

\* Nothing is received without a connection.
IdleInv == ~socket_ => received = 0

\* The inductive invariant.
IInv == TypeOK /\ IdleInv /\ BufferIsBounded

\* What From() returns.
LEMMA FromFacts ==
  ASSUME NEW s \in Seq(Byte), NEW i \in 1..(Len(s) + 1)
  PROVE  /\ From(s, i) \in Seq(Byte)
         /\ Len(From(s, i)) = Len(s) - i + 1
         /\ \A k \in 1..(Len(s) - i + 1) : From(s, i)[k] = s[i + k - 1]
<1>1. Len(s) \in Nat /\ \A k \in i..Len(s) : s[k] \in Byte
  BY LenProperties, ElementOfSeq
<1> QED
  BY <1>1, SubSeqProperties, Zenon, SMT DEF From

\* A suffix of a suffix.
LEMMA FromFrom ==
  ASSUME NEW s \in Seq(Byte), NEW i \in 1..(Len(s) + 1),
         NEW k \in 1..(Len(s) - i + 2)
  PROVE  From(From(s, i), k) = From(s, i + k - 1)
<1>1. Len(s) \in Nat /\ Len(From(s, i)) = Len(s) - i + 1
  BY FromFacts, LenProperties
<1>2. CASE i <= Len(s) /\ k <= Len(s) - i + 1
  BY <1>1, <1>2, SubSeqOfSubSeq DEF From
<1>3. CASE i = Len(s) + 1 \/ k = Len(s) - i + 2
  <2>1. From(From(s, i), k) = <<>>
    BY <1>1, <1>3, SubSeqEmpty DEF From
  <2>2. From(s, i + k - 1) = <<>>
    BY <1>1, <1>3, SubSeqEmpty DEF From
  <2> QED
    BY <2>1, <2>2
<1> QED
  BY <1>1, <1>2, <1>3

\* Tail() is a suffix.
LEMMA TailIsFrom ==
  ASSUME NEW s \in Seq(Byte), Len(s) > 0
  PROVE  Tail(s) = From(s, 2)
BY EmptySeq, TailIsSubSeq DEF From

\* The first preamble is one, and none comes before it.
LEMMA FirstPreambleIsFirst ==
  ASSUME NEW s, Preambles(s) # {}, Len(s) \in Nat
  PROVE  /\ FirstPreamble(s) \in Preambles(s)
         /\ \A k \in Preambles(s) : FirstPreamble(s) <= k
<1>1. Preambles(s) \subseteq Nat
  BY DEF Preambles
<1>2. \E i \in Preambles(s) : \A k \in Preambles(s) : i <= k
  BY <1>1, LeastNumber
<1> QED
  BY <1>2 DEF FirstPreamble

\* What the loop looks at is a suffix of the buffer that begins with a
\* preamble.
LEMMA CandidateFacts ==
  ASSUME receive_buffer_ \in Seq(Byte), HasPreamble
  PROVE  /\ FirstPreamble(receive_buffer_) \in 1..Len(receive_buffer_)
         /\ Candidate \in Seq(Byte)
         /\ Len(Candidate)
              = Len(receive_buffer_) - FirstPreamble(receive_buffer_) + 1
<1>1. Len(receive_buffer_) \in Nat
  BY LenProperties
<1>2. FirstPreamble(receive_buffer_) \in 1..Len(receive_buffer_)
  BY <1>1, FirstPreambleIsFirst DEF HasPreamble, Preambles
<1> QED
  BY <1>1, <1>2, FromFacts DEF Candidate

\* Two bytes make a number.
LEMMA U16Facts ==
  ASSUME NEW s \in Seq(Byte), NEW i \in Nat \ {0}, i + 1 <= Len(s)
  PROVE  read_u16(s, i) \in Nat
<1>1. s[i] \in 0..255 /\ s[i + 1] \in 0..255
  <2>1. Len(s) \in Nat /\ i \in 1..Len(s) /\ i + 1 \in 1..Len(s)
    BY LenProperties
  <2> QED
    BY <2>1, ElementOfSeq DEF Byte
<1>2. \A low, high \in 0..255 : low + 256 * high \in Nat
  OBVIOUS
<1> QED
  BY <1>1, <1>2, Zenon DEF read_u16

\* A header tells a size.
LEMMA FrameSizeFacts ==
  ASSUME NEW s \in Seq(Byte), Len(s) >= kFrameOverhead
  PROVE  PayloadSize(s) \in Nat /\ FrameSize(s) \in Nat /\ FrameSize(s) >= 8
<1>1. PayloadSize(s) \in Nat
  <2>1. 5 \in Nat \ {0} /\ 5 + 1 <= Len(s)
    BY LenProperties DEF kFrameOverhead
  <2> QED
    BY <2>1, U16Facts DEF PayloadSize
<1>2. FrameSize(s) = 8 + PayloadSize(s)
  BY DEF FrameSize, kFrameOverhead
<1> QED
  BY <1>1, <1>2

\* What is left when the first byte, or the whole, of a candidate is erased.
LEMMA ErasedFacts ==
  ASSUME receive_buffer_ \in Seq(Byte), HasPreamble,
         Len(Candidate) >= kFrameOverhead
  PROVE  /\ Tail(Candidate) =
              From(receive_buffer_, FirstPreamble(receive_buffer_) + 1)
         /\ Len(Candidate) >= FrameSize(Candidate) =>
              From(Candidate, FrameSize(Candidate) + 1) =
                From(receive_buffer_, FirstPreamble(receive_buffer_)
                                        + FrameSize(Candidate))
<1> DEFINE first == FirstPreamble(receive_buffer_)
<1>1. /\ Len(receive_buffer_) \in Nat /\ first \in 1..Len(receive_buffer_)
      /\ Candidate \in Seq(Byte)
      /\ Len(Candidate) = Len(receive_buffer_) - first + 1
      /\ Candidate = From(receive_buffer_, first)
  BY CandidateFacts, LenProperties DEF Candidate
<1>2. FrameSize(Candidate) \in Nat
  BY <1>1, FrameSizeFacts
<1>3. Tail(Candidate) = From(Candidate, 2)
  BY <1>1, TailIsFrom DEF kFrameOverhead
<1>4. ASSUME NEW k \in 1..(Len(Candidate) + 1)
      PROVE  From(Candidate, k) = From(receive_buffer_, first + k - 1)
  BY <1>1, FromFrom
<1>5. From(Candidate, 2) = From(receive_buffer_, first + 1)
  <2>1. 2 \in 1..(Len(Candidate) + 1) /\ first + 2 - 1 = first + 1
    BY <1>1
  <2> QED
    BY <2>1, <1>4
<1>6. ASSUME Len(Candidate) >= FrameSize(Candidate)
      PROVE  From(Candidate, FrameSize(Candidate) + 1) =
               From(receive_buffer_, first + FrameSize(Candidate))
  <2>1. /\ FrameSize(Candidate) + 1 \in 1..(Len(Candidate) + 1)
        /\ first + (FrameSize(Candidate) + 1) - 1 = first + FrameSize(Candidate)
    BY <1>1, <1>2, <1>6
  <2> QED
    BY <2>1, <1>4
<1> QED
  BY <1>3, <1>5, <1>6

\* A turn that goes on erases at least one byte from the front.
LEMMA GoingOn ==
  ASSUME receive_buffer_ \in Seq(Byte), TooLong \/ WrongChecksum \/ Frame
  PROVE  \E k \in 2..(Len(receive_buffer_) + 1) :
           receive_buffer_' = From(receive_buffer_, k)
<1> DEFINE first == FirstPreamble(receive_buffer_)
<1>1. HasPreamble /\ Len(Candidate) >= kFrameOverhead
  BY DEF TooLong, WrongChecksum, Frame, ProperHeader
<1>2. /\ Len(receive_buffer_) \in Nat /\ first \in 1..Len(receive_buffer_)
      /\ Candidate \in Seq(Byte)
      /\ Len(Candidate) = Len(receive_buffer_) - first + 1
  BY <1>1, CandidateFacts, LenProperties
<1>3. FrameSize(Candidate) \in Nat /\ FrameSize(Candidate) >= 8
  BY <1>1, <1>2, FrameSizeFacts
<1>4. CASE TooLong \/ WrongChecksum
  <2>1. receive_buffer_' = From(receive_buffer_, first + 1)
    BY <1>1, <1>4, ErasedFacts DEF TooLong, WrongChecksum, GoOn
  <2>2. first + 1 \in 2..(Len(receive_buffer_) + 1)
    BY <1>2
  <2> QED
    BY <2>1, <2>2
<1>5. CASE Frame
  <2>1. Len(Candidate) >= FrameSize(Candidate)
    BY <1>5 DEF Frame
  <2>2. receive_buffer_' =
          From(receive_buffer_, first + FrameSize(Candidate))
    BY <1>1, <1>5, <2>1, ErasedFacts DEF Frame, GoOn
  <2>3. first + FrameSize(Candidate) \in 2..(Len(receive_buffer_) + 1)
    BY <1>2, <1>3, <2>1
  <2> QED
    BY <2>2, <2>3
<1> QED
  BY <1>4, <1>5

\* A turn that leaves the loop erases from the front too, and what it leaves
\* is shorter than the largest frame.
LEMMA Leaving ==
  ASSUME receive_buffer_ \in Seq(Byte),
         TooShort \/ NoPreamble \/ HeaderIncomplete \/ FrameIncomplete
  PROVE  \E k \in 1..(Len(receive_buffer_) + 1) :
           /\ receive_buffer_' = From(receive_buffer_, k)
           /\ Len(From(receive_buffer_, k)) < kFrameOverhead + max_payload_size
<1> USE ParserAssumption DEF kFrameOverhead
<1>1. Len(receive_buffer_) \in Nat
  BY LenProperties
<1>2. CASE TooShort
  <2>1. receive_buffer_ = From(receive_buffer_, 1)
    BY SubSeqFull DEF From
  <2>2. receive_buffer_' = receive_buffer_ /\ Len(receive_buffer_) < 8
    BY <1>2 DEF TooShort, Leave
  <2>3. 1 \in 1..(Len(receive_buffer_) + 1)
    BY <1>1
  <2> QED
    BY <1>1, <2>1, <2>2, <2>3
<1>3. CASE NoPreamble
  <2> DEFINE k == Len(receive_buffer_) - Keep(receive_buffer_) + 1
  <2>1. Keep(receive_buffer_) \in 0..2
    BY DEF Keep
  <2>2. Len(receive_buffer_) >= 8 /\ receive_buffer_' = From(receive_buffer_, k)
    BY <1>3 DEF NoPreamble, Leave
  <2>3. k \in 1..(Len(receive_buffer_) + 1)
    BY <1>1, <2>1, <2>2
  <2>4. Len(From(receive_buffer_, k)) = Len(receive_buffer_) - k + 1
    BY <2>3, FromFacts
  <2>5. Len(From(receive_buffer_, k)) < 8 + max_payload_size
    BY <1>1, <2>1, <2>4
  <2> QED
    BY <2>2, <2>3, <2>5
<1>4. CASE HeaderIncomplete \/ FrameIncomplete
  <2>1. HasPreamble /\ receive_buffer_' = Candidate
    BY <1>4 DEF HeaderIncomplete, FrameIncomplete, ProperHeader, Leave
  <2>2. /\ FirstPreamble(receive_buffer_) \in 1..Len(receive_buffer_)
        /\ Candidate \in Seq(Byte)
        /\ Candidate = From(receive_buffer_, FirstPreamble(receive_buffer_))
    BY <2>1, CandidateFacts DEF Candidate
  <2>3. Len(Candidate) < 8 + max_payload_size
    <3>1. Len(Candidate) \in Nat
      BY <2>2, LenProperties
    <3>2. CASE HeaderIncomplete
      BY <3>1, <3>2 DEF HeaderIncomplete
    <3>3. CASE FrameIncomplete
      <4>1. /\ Len(Candidate) < 8 + PayloadSize(Candidate)
            /\ PayloadSize(Candidate) <= max_payload_size
            /\ Len(Candidate) >= kFrameOverhead
        BY <3>3 DEF FrameIncomplete, ProperHeader, FrameSize
      <4>2. PayloadSize(Candidate) \in Nat
        BY <2>2, <4>1, FrameSizeFacts
      <4> QED
        BY <3>1, <4>1, <4>2
    <3> QED
      BY <1>4, <3>2, <3>3
  <2> QED
    BY <1>1, <2>1, <2>2, <2>3
<1> QED
  BY <1>2, <1>3, <1>4

-----------------------------------------------------------------------------
\* Where the buffer is a part of the stream, so is every suffix of it.
LEMMA SuffixOfReceived ==
  ASSUME wire \in Seq(Byte), received \in 0..Len(wire),
         receive_buffer_ \in Seq(Byte), Len(receive_buffer_) <= received,
         receive_buffer_ =
           SubSeq(wire, received - Len(receive_buffer_) + 1, received),
         NEW k \in 1..(Len(receive_buffer_) + 1)
  PROVE  LET rest == From(receive_buffer_, k)
         IN  /\ Len(rest) <= received
             /\ rest = SubSeq(wire, received - Len(rest) + 1, received)
<1> DEFINE size == Len(receive_buffer_)
           rest == From(receive_buffer_, k)
<1>1. size \in Nat /\ Len(wire) \in Nat
  BY LenProperties
<1>2. Len(rest) = size - k + 1
  BY FromFacts
<1>3. CASE k = size + 1
  <2>1. rest = <<>> /\ Len(rest) = 0
    BY <1>1, <1>2, <1>3, SubSeqEmpty DEF From
  <2>2. SubSeq(wire, received + 1, received) = <<>>
    BY <1>1, SubSeqEmpty
  <2> QED
    BY <1>1, <2>1, <2>2
<1>4. CASE k <= size
  <2> DEFINE m == received - size + 1
  <2>1. m \in 1..Len(wire) /\ received \in m..Len(wire)
    BY <1>1, <1>4
  <2>2. k \in 1..(received - m + 1) /\ size \in k..(received - m + 1)
    BY <1>1, <1>4
  <2>3. SubSeq(SubSeq(wire, m, received), k, size)
          = SubSeq(wire, m + k - 1, m + size - 1)
    BY <2>1, <2>2, SubSeqOfSubSeq
  <2>4. rest = SubSeq(SubSeq(wire, m, received), k, size)
    BY DEF From
  <2>5. m + k - 1 = received - Len(rest) + 1 /\ m + size - 1 = received
    BY <1>1, <1>2
  <2> HIDE DEF rest, m
  <2>6. rest = SubSeq(wire, received - Len(rest) + 1, received)
    BY <2>3, <2>4, <2>5
  <2>7. Len(rest) <= received
    BY <1>1, <1>2, <1>4
  <2> QED
    BY <2>6, <2>7 DEF rest
<1> QED
  BY <1>1, <1>3, <1>4

\* A turn of the loop keeps a suffix of the buffer.
LEMMA ParseKeepsSuffix ==
  ASSUME TypeOK, Parse
  PROVE  /\ UNCHANGED <<socket_, wire, received>>
         /\ parsing' \in BOOLEAN /\ turn' \in Nat
         /\ \E k \in 1..(Len(receive_buffer_) + 1) :
              receive_buffer_' = From(receive_buffer_, k)
<1>1. receive_buffer_ \in Seq(Byte) /\ Len(receive_buffer_) \in Nat
  BY LenProperties DEF TypeOK
<1>2. CASE TooShort \/ NoPreamble \/ HeaderIncomplete \/ FrameIncomplete
  <2>1. \E k \in 1..(Len(receive_buffer_) + 1) :
          receive_buffer_' = From(receive_buffer_, k)
    BY <1>1, <1>2, Leaving
  <2>2. UNCHANGED <<socket_, wire, received>> /\ parsing' = FALSE /\ turn' = 0
    BY <1>2 DEF TooShort, NoPreamble, HeaderIncomplete, FrameIncomplete, Leave
  <2> QED
    BY <2>1, <2>2
<1>3. CASE TooLong \/ WrongChecksum \/ Frame
  <2>1. \E k \in 1..(Len(receive_buffer_) + 1) :
          receive_buffer_' = From(receive_buffer_, k)
    BY <1>1, <1>3, GoingOn
  <2> QED
    BY <1>3, <2>1 DEF TooLong, WrongChecksum, Frame, GoOn, TypeOK
<1> QED
  BY <1>2, <1>3 DEF Parse

\* What recv() returned is appended to what was received just before it.
LEMMA ReceiveAppends ==
  ASSUME TypeOK, Receive
  PROVE  /\ received' \in 0..Len(wire) /\ receive_buffer_' \in Seq(Byte)
         /\ Len(receive_buffer_') <= received'
         /\ receive_buffer_' =
              SubSeq(wire, received' - Len(receive_buffer_') + 1, received')
<1>1. PICK upto \in (received + 1)..Len(wire) :
        /\ receive_buffer_' =
             receive_buffer_ \o SubSeq(wire, received + 1, upto)
        /\ received' = upto
  BY DEF Receive
<1>2. /\ wire \in Seq(Byte) /\ Len(wire) \in Nat /\ received \in 0..Len(wire)
      /\ receive_buffer_ \in Seq(Byte) /\ Len(receive_buffer_) \in Nat
      /\ Len(receive_buffer_) <= received
      /\ receive_buffer_ =
           SubSeq(wire, received - Len(receive_buffer_) + 1, received)
  BY LenProperties DEF TypeOK, Receive
<1> DEFINE m == received - Len(receive_buffer_) + 1
<1>3. m \in 1..(received + 1) /\ upto \in Nat /\ upto <= Len(wire)
  BY <1>2
<1>4. receive_buffer_' = SubSeq(wire, m, upto)
  <2>1. SubSeq(wire, m, received) \o SubSeq(wire, received + 1, upto)
          = SubSeq(wire, m, upto)
    <3>1. /\ m \in 1..(Len(wire) + 1) /\ received \in (m - 1)..Len(wire)
          /\ upto \in received..Len(wire)
      BY <1>2, <1>3
    <3> QED
      BY <1>2, <3>1, ConcatAdjacentSubSeq
  <2> QED
    BY <1>1, <1>2, <2>1
<1>5. SubSeq(wire, m, upto) \in Seq(Byte) /\ Len(SubSeq(wire, m, upto)) = upto - m + 1
  <2>1. \A k \in m..upto : wire[k] \in Byte
    BY <1>2, <1>3, ElementOfSeq
  <2> QED
    BY <1>2, <1>3, <2>1, SubSeqProperties
<1> HIDE DEF m
<1>6. Len(receive_buffer_') = upto - m + 1 /\ upto - (upto - m + 1) + 1 = m
  BY <1>3, <1>4, <1>5
<1>7. received' \in 0..Len(wire) /\ Len(receive_buffer_') <= received'
  BY <1>1, <1>2, <1>3, <1>6
<1> QED
  BY <1>1, <1>4, <1>5, <1>6, <1>7

\* The initial state satisfies the invariant.
LEMMA InitHolds ==
  ASSUME Init
  PROVE  IInv
<1>1. <<>> \in Seq(Byte) /\ Len(<<>>) = 0
  BY EmptySeq
<1> QED
  <2>1. TypeOK
    <3>1. wire \in Seq(Byte) /\ Len(wire) = 0 /\ receive_buffer_ \in Seq(Byte)
      BY <1>1, Zenon DEF Init
    <3>2. 0 \in 0..0 /\ 0 \in Nat
      OBVIOUS
    <3> QED
      BY <3>1, <3>2, Zenon DEF Init, TypeOK
  <2>2. BufferIsBounded
    BY <1>1, ParserAssumption DEF Init, BufferIsBounded, kFrameOverhead
  <2>3. IdleInv
    BY DEF Init, IdleInv
  <2> QED
    BY <2>1, <2>2, <2>3 DEF IInv

\* Every step keeps the types, and the buffer the end of what was received.
LEMMA TypeStep ==
  ASSUME IInv, [Next]_vars
  PROVE  TypeOK'
<1> USE DEF IInv
<1>1. CASE Parse
  <2>1. UNCHANGED <<socket_, wire, received>>
        /\ parsing' \in BOOLEAN /\ turn' \in Nat
    BY <1>1, ParseKeepsSuffix
  <2>2. PICK k \in 1..(Len(receive_buffer_) + 1) :
          receive_buffer_' = From(receive_buffer_, k)
    BY <1>1, ParseKeepsSuffix
  <2>3. receive_buffer_' \in Seq(Byte)
    BY <2>2, FromFacts DEF TypeOK
  <2>4. ASSUME socket_
        PROVE  /\ Len(receive_buffer_') <= received
               /\ receive_buffer_' =
                    SubSeq(wire, received - Len(receive_buffer_') + 1, received)
    BY <2>2, <2>4, SuffixOfReceived DEF TypeOK
  <2> QED
    BY <2>1, <2>3, <2>4 DEF TypeOK
<1>2. CASE Receive
  BY <1>2, ReceiveAppends DEF TypeOK, Receive
<1>3. CASE Connects
  <2>1. receive_buffer_' = <<>> /\ Len(<<>>) = 0 /\ <<>> \in Seq(Byte)
    BY <1>3, EmptySeq DEF Connects
  <2>2. wire' \in Seq(Byte) /\ Len(wire') \in Nat
    BY <1>3, ParserAssumption, LenProperties DEF Connects
  <2>3. received' = 0 /\ SubSeq(wire', 1, 0) = <<>>
    BY <1>3, SubSeqEmpty DEF Connects, IdleInv
  <2>4. socket_' \in BOOLEAN /\ parsing' \in BOOLEAN /\ turn' \in Nat
    BY <1>3 DEF TypeOK, Connects
  <2> QED
    BY <2>1, <2>2, <2>3, <2>4 DEF TypeOK
<1>4. CASE Disconnects
  <2>1. <<>> \in Seq(Byte) /\ Len(<<>>) = 0
    BY EmptySeq
  <2> QED
    <3>1. wire' \in Seq(Byte) /\ Len(wire') = 0
      BY <1>4, <2>1, Zenon DEF Disconnects
    <3>2. /\ socket_' = FALSE /\ received' = 0
          /\ UNCHANGED <<receive_buffer_, parsing, turn>>
      BY <1>4 DEF Disconnects
    <3>3. 0 \in 0..0
      OBVIOUS
    <3> QED
      BY <3>1, <3>2, <3>3, Zenon DEF TypeOK
<1>5. CASE UNCHANGED vars
  BY <1>5 DEF TypeOK, vars
<1> QED
  BY <1>1, <1>2, <1>3, <1>4, <1>5 DEF Next

\* Every step keeps IdleInv.
LEMMA IdleStep ==
  ASSUME IInv, [Next]_vars
  PROVE  IdleInv'
<1>1. CASE Parse
  BY <1>1, ParseKeepsSuffix DEF IInv, IdleInv
<1>2. CASE Receive \/ Connects \/ Disconnects \/ UNCHANGED vars
  BY <1>2 DEF IInv, IdleInv, Receive, Connects, Disconnects, vars
<1> QED
  BY <1>1, <1>2 DEF Next

\* When the loop is left the buffer is small, and only a loop follows recv().
LEMMA BoundedStep ==
  ASSUME IInv, [Next]_vars
  PROVE  BufferIsBounded'
<1> USE DEF IInv, BufferIsBounded
<1>1. receive_buffer_ \in Seq(Byte)
  BY DEF TypeOK
<1>2. CASE TooShort \/ NoPreamble \/ HeaderIncomplete \/ FrameIncomplete
  BY <1>1, <1>2, Leaving
<1>3. CASE TooLong \/ WrongChecksum \/ Frame
  <2>1. parsing' = parsing /\ parsing
    BY <1>3 DEF TooLong, WrongChecksum, Frame, GoOn, ProperHeader, HasPreamble
  <2> QED
    BY <2>1
<1>4. CASE Receive
  BY <1>4 DEF Receive
<1>5. CASE Connects
  <2>1. receive_buffer_' = <<>> /\ Len(<<>>) = 0
    BY <1>5, EmptySeq DEF Connects
  <2> QED
    BY <2>1, ParserAssumption DEF kFrameOverhead
<1>6. CASE Disconnects \/ UNCHANGED vars
  BY <1>6 DEF Disconnects, vars
<1> QED
  BY <1>2, <1>3, <1>4, <1>5, <1>6 DEF Next, Parse

\* A turn that goes on leaves a shorter buffer.
LEMMA ErasesStep ==
  ASSUME IInv, [Next]_vars
  PROVE  [turn' > turn => Len(receive_buffer_') < Len(receive_buffer_)]_vars
<1>1. /\ receive_buffer_ \in Seq(Byte) /\ Len(receive_buffer_) \in Nat
      /\ turn \in Nat
  BY LenProperties DEF IInv, TypeOK
<1>2. CASE TooLong \/ WrongChecksum \/ Frame
  <2>1. PICK k \in 2..(Len(receive_buffer_) + 1) :
          receive_buffer_' = From(receive_buffer_, k)
    BY <1>1, <1>2, GoingOn
  <2>2. Len(From(receive_buffer_, k)) = Len(receive_buffer_) - k + 1
    <3>1. k \in 1..(Len(receive_buffer_) + 1)
      BY <1>1, <2>1
    <3> QED
      BY <1>1, <3>1, FromFacts
  <2> QED
    BY <1>1, <2>1, <2>2
<1>3. CASE TooShort \/ NoPreamble \/ HeaderIncomplete \/ FrameIncomplete
  BY <1>1, <1>3
     DEF TooShort, NoPreamble, HeaderIncomplete, FrameIncomplete, Leave
<1>4. CASE Receive \/ Connects \/ Disconnects \/ UNCHANGED vars
  BY <1>1, <1>4 DEF Receive, Connects, Disconnects, vars
<1> QED
  BY <1>2, <1>3, <1>4 DEF Next, Parse

-----------------------------------------------------------------------------
(* What Scan() computes.                                                   *)

\* What handle_frame() is given, read out of the frame.
Reply == [id : Byte, status : Nat, payload : Seq(Byte)]

Read(s, i) == HandleFrame(From(s, i)[4], Payload(From(s, i)))

\* One position of the scan, and where the next one is.
Passed(s, i) ==
  IF FrameAt(s, i) THEN i + FrameSize(From(s, i)) ELSE i + 1

\* The equations of the scan.
Scans(f, s) ==
  /\ f \in [1..(Len(s) + 1) -> Seq(Reply)]
  /\ f[Len(s) + 1] = <<>>
  /\ \A i \in 1..Len(s) :
       f[i] = IF Unfinished(s, i) THEN <<>>
              ELSE IF FrameAt(s, i) THEN Read(s, i) \o f[Passed(s, i)]
              ELSE f[Passed(s, i)]

\* A frame lies within the bytes, and what is read of it is a reply, or
\* nothing where there is no room for a status.
LEMMA FrameAtFacts ==
  ASSUME NEW s \in Seq(Byte), NEW i \in 1..Len(s), FrameAt(s, i)
  PROVE  /\ Passed(s, i) \in (i + 1)..(Len(s) + 1)
         /\ Payload(From(s, i)) \in Seq(Byte)
         /\ Len(Payload(From(s, i))) = PayloadSize(From(s, i))
         /\ Read(s, i) \in Seq(Reply)
<1> DEFINE front == From(s, i)
<1>1. /\ Len(s) \in Nat /\ front \in Seq(Byte) /\ Len(front) = Len(s) - i + 1
      /\ Len(front) >= kFrameOverhead /\ Len(front) >= FrameSize(front)
  <2>1. Len(s) \in Nat /\ i \in 1..(Len(s) + 1)
    BY LenProperties
  <2>2. Len(front) >= kFrameOverhead /\ Len(front) >= FrameSize(front)
    BY Zenon DEF FrameAt
  <2> QED
    BY <2>1, <2>2, FromFacts
<1> HIDE DEF front
<1>2. /\ PayloadSize(front) \in Nat /\ FrameSize(front) = 8 + PayloadSize(front)
      /\ kFrameOverhead = 8
  BY <1>1, FrameSizeFacts DEF FrameSize, kFrameOverhead
<1>3. Passed(s, i) \in (i + 1)..(Len(s) + 1)
  <2>1. Passed(s, i) = i + FrameSize(front)
    BY DEF Passed, front
  <2> QED
    BY <1>1, <1>2, <2>1
<1>4. /\ Payload(front) \in Seq(Byte)
      /\ Len(Payload(front)) = PayloadSize(front)
  <2>1. Payload(front) = SubSeq(front, 7, 6 + PayloadSize(front))
    BY DEF Payload, kHeaderSize
  <2>2. \A k \in 7..(6 + PayloadSize(front)) : front[k] \in Byte
    BY <1>1, <1>2, ElementOfSeq
  <2>3. 6 + PayloadSize(front) \in Nat
    BY <1>2
  <2>4. /\ SubSeq(front, 7, 6 + PayloadSize(front)) \in Seq(Byte)
        /\ Len(SubSeq(front, 7, 6 + PayloadSize(front)))
             = IF 7 <= 6 + PayloadSize(front)
                 THEN (6 + PayloadSize(front)) - 7 + 1 ELSE 0
    BY <1>2, <2>2, SubSeqProperties
  <2> QED
    BY <1>2, <2>1, <2>4
<1>5. Read(s, i) \in Seq(Reply)
  <2>1. front[4] \in Byte
    BY <1>1, <1>2, ElementOfSeq
  <2>2. CASE Len(Payload(front)) < 2
    <3>1. <<>> \in Seq(Reply)
      BY EmptySeq
    <3> QED
      BY <2>2, <3>1 DEF Read, HandleFrame, front
  <2>3. CASE ~(Len(Payload(front)) < 2)
    <3> DEFINE reply == [id |-> front[4], status |-> read_u16(Payload(front), 1),
                         payload |-> Payload(front)]
    <3>1. read_u16(Payload(front), 1) \in Nat
      BY <1>2, <1>4, <2>3, U16Facts
    <3>2. reply \in Reply
      BY <1>4, <2>1, <3>1 DEF Reply
    <3>3. Read(s, i) = <<reply>>
      BY <2>3 DEF Read, HandleFrame, front
    <3> HIDE DEF reply
    <3> QED
      BY <3>2, <3>3
  <2> QED
    BY <2>2, <2>3
<1> QED
  BY <1>3, <1>4, <1>5 DEF front

\* A scan exists, and it is the function that Scan() is defined to be.
LEMMA ScanFacts ==
  ASSUME NEW s \in Seq(Byte) PROVE Scans(Scan(s), s)
<1> DEFINE N == Len(s) + 1
           value(f, i) == IF Unfinished(s, i) THEN <<>>
                          ELSE IF FrameAt(s, i) THEN Read(s, i) \o f[Passed(s, i)]
                          ELSE f[Passed(s, i)]
           body(f) == [i \in 1..(Len(s) + 1) |->
                         IF i = Len(s) + 1 \/ Unfinished(s, i) THEN <<>>
                         ELSE IF FrameAt(s, i)
                           THEN LET front == From(s, i) IN
                                  HandleFrame(front[4], Payload(front))
                                    \o f[i + FrameSize(front)]
                           ELSE f[i + 1]]
           step == [i \in 1..(N - 1) |-> [t \in Seq(Reply) |->
                      IF Unfinished(s, i) THEN <<>>
                      ELSE IF FrameAt(s, i) THEN Read(s, i) \o t ELSE t]]
           next == [i \in 1..(N - 1) |-> Passed(s, i)]
<1>1. Len(s) \in Nat /\ N \in Nat \ {0} /\ N - 1 = Len(s) /\ N = Len(s) + 1
  BY LenProperties
<1>2. <<>> \in Seq(Reply)
  BY EmptySeq
<1>3. \A i \in 1..Len(s) : Passed(s, i) \in (i + 1)..N
  <2> TAKE i \in 1..Len(s)
  <2>1. CASE FrameAt(s, i)
    BY <2>1, FrameAtFacts
  <2>2. CASE ~FrameAt(s, i)
    BY <1>1, <2>2 DEF Passed
  <2> QED
    BY <2>1, <2>2
<1>4. step \in [1..(N - 1) -> [Seq(Reply) -> Seq(Reply)]]
  <2>1. ASSUME NEW i \in 1..(N - 1), NEW t \in Seq(Reply)
        PROVE  (IF Unfinished(s, i) THEN <<>>
                ELSE IF FrameAt(s, i) THEN Read(s, i) \o t ELSE t) \in Seq(Reply)
    <3>1. FrameAt(s, i) => Read(s, i) \o t \in Seq(Reply)
      BY <1>1, FrameAtFacts, ConcatProperties
    <3> QED
      BY <1>2, <3>1, Zenon
  <2> QED
    BY <2>1, Zenon
<1>5. /\ next \in [1..(N - 1) -> 1..N]
      /\ \A i \in 1..(N - 1) : next[i] > i
  BY <1>1, <1>3
<1>6. PICK F : LeadsBack(F, step, next, <<>>, N, Seq(Reply))
  <2> HIDE DEF N, step, next
  <2> QED
    BY <1>1, <1>2, <1>4, <1>5, BackwardRecursionExists
<1>7. Scans(F, s)
  <2>1. /\ F \in [1..N -> Seq(Reply)] /\ F[N] = <<>>
        /\ \A i \in 1..(N - 1) : F[i] = step[i][F[next[i]]]
    BY <1>6 DEF LeadsBack
  <2>2. ASSUME NEW i \in 1..Len(s) PROVE F[i] = value(F, i)
    <3>1. /\ i \in 1..(N - 1) /\ next[i] = Passed(s, i)
          /\ F[Passed(s, i)] \in Seq(Reply)
      BY <1>1, <1>3, <2>1
    <3>2. step[i][F[Passed(s, i)]] = value(F, i)
      BY <3>1, Zenon
    <3> QED
      BY <2>1, <3>1, <3>2, Zenon
  <2> QED
    BY <1>1, <2>1, <2>2 DEF Scans
<1>8. ASSUME NEW f, f = body(f)
      PROVE  /\ f[N] = <<>>
             /\ \A i \in 1..Len(s) : f[i] = value(f, i)
  <2>1. f[N] = <<>>
    <3>1. N \in 1..(Len(s) + 1) /\ N = Len(s) + 1
      BY <1>1
    <3>2. body(f)[N] = <<>>
      BY <3>1, Zenon
    <3> QED
      BY <1>8, <3>2, Zenon
  <2>2. ASSUME NEW i \in 1..Len(s) PROVE f[i] = value(f, i)
    <3>1. i \in 1..(Len(s) + 1) /\ i # Len(s) + 1
      BY <1>1
    <3>2. body(f)[i] = value(f, i)
      BY <3>1, Zenon DEF Passed, Read
    <3> HIDE DEF body, value
    <3> QED
      BY <1>8, <3>2
  <2> QED
    BY <2>1, <2>2
<1>9. F = body(F)
  <2>1. /\ F = [i \in 1..(Len(s) + 1) |-> F[i]] /\ F[Len(s) + 1] = <<>>
        /\ \A i \in 1..Len(s) : F[i] = value(F, i)
    BY <1>7 DEF Scans
  <2>2. ASSUME NEW i \in 1..(Len(s) + 1) PROVE F[i] = body(F)[i]
    <3>1. CASE i = Len(s) + 1
      BY <2>1, <3>1, Zenon
    <3>2. CASE i \in 1..Len(s) /\ i # Len(s) + 1
      <4>1. body(F)[i] = value(F, i)
        BY <3>2, Zenon DEF Passed, Read
      <4> QED
        BY <2>1, <3>2, <4>1, Zenon
    <3> QED
      BY <1>1, <3>1, <3>2
  <2>3. body(F) = [i \in 1..(Len(s) + 1) |-> body(F)[i]]
    BY Zenon
  <2> QED
    <3> HIDE DEF body
    <3> QED
      BY <2>1, <2>2, <2>3
<1>10. Scan(s) = CHOOSE f : f = body(f)
  BY Zenon DEF Scan
<1>11. Scan(s) = body(Scan(s))
  <2> HIDE DEF body
  <2> QED
    BY <1>9, <1>10
<1> DEFINE own == Scan(s)
           T == {i \in 0..N : i = 0 \/ own[i] = F[i]}
<1>12. /\ own[N] = <<>> /\ \A i \in 1..Len(s) : own[i] = value(own, i)
       /\ own = [i \in 1..N |-> own[i]]
  <2>1. body(own) = [i \in 1..(Len(s) + 1) |-> body(own)[i]]
    BY Zenon
  <2>2. own = body(own)
    BY <1>11
  <2> HIDE DEF body, own, value
  <2>3. /\ own[N] = <<>> /\ \A i \in 1..Len(s) : own[i] = value(own, i)
    BY <1>8, <2>2
  <2> QED
    BY <2>1, <2>2, <2>3
<1>13. /\ F \in [1..N -> Seq(Reply)] /\ F[N] = <<>>
       /\ \A i \in 1..Len(s) : F[i] = value(F, i)
  BY <1>7 DEF Scans
<1>14. ASSUME NEW i \in 0..N, \A k \in (i + 1)..N : k \in T PROVE i \in T
  <2>1. CASE i = 0
    BY <2>1
  <2>2. CASE i = N
    BY <1>12, <1>13, <2>2
  <2>3. CASE i \in 1..Len(s)
    <3>1. Passed(s, i) \in (i + 1)..N /\ Passed(s, i) # 0
      BY <1>1, <1>3, <2>3
    <3>2. own[Passed(s, i)] = F[Passed(s, i)]
      BY <1>14, <3>1
    <3>3. own[i] = value(own, i) /\ F[i] = value(F, i)
      BY <1>12, <1>13, <2>3
    <3> QED
      BY <3>2, <3>3
  <2> QED
    BY <1>1, <2>1, <2>2, <2>3
<1>15. \A i \in 0..N : i \in T
  <2> HIDE DEF N, T
  <2> QED
    BY <1>1, <1>14, DownFrom
<1>16. own = F
  <2>1. \A i \in 1..N : own[i] = F[i]
    BY <1>1, <1>15
  <2>2. F = [i \in 1..N |-> F[i]]
    BY <1>13
  <2> HIDE DEF own, value
  <2> QED
    BY <1>12, <2>1, <2>2
<1> QED
  BY <1>7, <1>16

-----------------------------------------------------------------------------
(* What can be told of a stream from the bytes received of it.             *)

\* t goes on where c ends.
Begins(c, t) ==
  /\ c \in Seq(Byte) /\ t \in Seq(Byte) /\ Len(c) <= Len(t)
  /\ \A k \in 1..Len(c) : c[k] = t[k]

\* A preamble that is all there is there.
LEMMA SamePreamble ==
  ASSUME NEW c, NEW t, Begins(c, t), NEW i \in Nat \ {0}, i + 2 <= Len(c)
  PROVE  PreambleAt(c, i) <=> PreambleAt(t, i)
<1>1. Len(c) \in Nat /\ Len(t) \in Nat
  BY LenProperties DEF Begins
<1>2. i + 2 <= Len(t) /\ \A k \in i..(i + 2) : c[k] = t[k]
  BY <1>1 DEF Begins
<1> QED
  BY <1>2 DEF PreambleAt

\* A header that is all there tells the same size.
LEMMA SameSize ==
  ASSUME NEW c, NEW t, Begins(c, t), Len(c) >= kFrameOverhead
  PROVE  /\ PayloadSize(c) = PayloadSize(t) /\ FrameSize(c) = FrameSize(t)
         /\ c[4] = t[4]
<1>1. Len(c) \in Nat /\ 4 \in 1..Len(c) /\ 5 \in 1..Len(c) /\ 5 + 1 \in 1..Len(c)
  BY LenProperties DEF Begins, kFrameOverhead
<1>2. c[4] = t[4] /\ c[5] = t[5] /\ c[5 + 1] = t[5 + 1]
  BY <1>1 DEF Begins
<1>3. PayloadSize(c) = PayloadSize(t)
  BY <1>2, Zenon DEF PayloadSize, read_u16
<1> QED
  BY <1>2, <1>3, Zenon DEF FrameSize

\* A part that is all there is the same.
LEMMA SamePart ==
  ASSUME NEW c, NEW t, Begins(c, t), NEW i \in Nat \ {0}, NEW k \in Nat, k <= Len(c)
  PROVE  SubSeq(c, i, k) = SubSeq(t, i, k)
<1>1. /\ Len(c) \in Nat /\ Len(t) \in Nat
      /\ \A l \in i..k : c[l] \in Byte /\ t[l] \in Byte /\ c[l] = t[l]
  BY LenProperties, ElementOfSeq DEF Begins
<1>2. /\ SubSeq(c, i, k) \in Seq(Byte)
      /\ Len(SubSeq(c, i, k)) = IF i <= k THEN k - i + 1 ELSE 0
      /\ \A l \in 1..(k - i + 1) : SubSeq(c, i, k)[l] = c[i + l - 1]
  BY <1>1, SubSeqProperties
<1>3. /\ SubSeq(t, i, k) \in Seq(Byte)
      /\ Len(SubSeq(t, i, k)) = IF i <= k THEN k - i + 1 ELSE 0
      /\ \A l \in 1..(k - i + 1) : SubSeq(t, i, k)[l] = t[i + l - 1]
  BY <1>1, SubSeqProperties
<1>4. \A l \in 1..Len(SubSeq(c, i, k)) : SubSeq(c, i, k)[l] = SubSeq(t, i, k)[l]
  <2> TAKE l \in 1..Len(SubSeq(c, i, k))
  <2>1. l \in 1..(k - i + 1) /\ i + l - 1 \in i..k
    BY <1>2
  <2> QED
    BY <1>1, <1>2, <1>3, <2>1
<1> QED
  BY <1>2, <1>3, <1>4, SeqEqual

\* A frame that is all there is the same.
LEMMA SameFrame ==
  ASSUME NEW c, NEW t, Begins(c, t), Len(c) >= kFrameOverhead,
         Len(c) >= FrameSize(c)
  PROVE  /\ ChecksumIsRight(c) <=> ChecksumIsRight(t)
         /\ Payload(c) = Payload(t)
<1>1. /\ PayloadSize(c) = PayloadSize(t) /\ FrameSize(c) = FrameSize(t)
      /\ PayloadSize(c) \in Nat /\ FrameSize(c) \in Nat
      /\ FrameSize(c) = 8 + PayloadSize(c)
  BY SameSize, FrameSizeFacts DEF Begins, FrameSize, kFrameOverhead
<1>2. Len(c) \in Nat
  BY LenProperties DEF Begins
<1>3. SubSeq(c, 1, FrameSize(c)) = SubSeq(t, 1, FrameSize(c))
  BY <1>1, <1>2, SamePart
<1>4. SubSeq(c, 7, 6 + PayloadSize(c)) = SubSeq(t, 7, 6 + PayloadSize(c))
  <2>1. PICK k \in Nat : k = 6 + PayloadSize(c)
    BY <1>1
  <2>2. k <= Len(c) /\ 7 \in Nat \ {0}
    BY <1>1, <1>2, <2>1
  <2>3. SubSeq(c, 7, k) = SubSeq(t, 7, k)
    BY <2>2, SamePart
  <2> QED
    BY <2>1, <2>3
<1>5. Payload(c) = Payload(t)
  BY <1>1, <1>4 DEF Payload, kHeaderSize
<1> QED
  BY <1>1, <1>3, <1>5 DEF ChecksumIsRight

-----------------------------------------------------------------------------
(* How the scan goes on at one position.                                   *)

\* It passes what is neither a frame nor the beginning of one.
LEMMA ScanPasses ==
  ASSUME NEW s \in Seq(Byte), NEW i \in 1..Len(s),
         ~Unfinished(s, i), ~FrameAt(s, i)
  PROVE  Scan(s)[i] = Scan(s)[i + 1]
BY ScanFacts, Zenon DEF Scans, Passed

\* It passes what is no preamble.
LEMMA ScanSkips ==
  ASSUME NEW s \in Seq(Byte), NEW i \in 1..Len(s), ~PreambleAt(From(s, i), 1)
  PROVE  Scan(s)[i] = Scan(s)[i + 1]
<1>1. ~Unfinished(s, i) /\ ~FrameAt(s, i)
  BY Zenon DEF Unfinished, FrameAt
<1> QED
  BY <1>1, ScanPasses

\* It takes a frame that is all there.
LEMMA ScanTakes ==
  ASSUME NEW s \in Seq(Byte), NEW i \in 1..Len(s), FrameAt(s, i)
  PROVE  /\ Scan(s)[i] = Read(s, i) \o Scan(s)[i + FrameSize(From(s, i))]
         /\ i + FrameSize(From(s, i)) \in (i + 1)..(Len(s) + 1)
         /\ Read(s, i) \in Seq(Reply)
<1>1. ~Unfinished(s, i)
  <2>1. /\ Len(From(s, i)) >= kFrameOverhead
        /\ Len(From(s, i)) >= FrameSize(From(s, i))
    BY Zenon DEF FrameAt
  <2>2. From(s, i) \in Seq(Byte)
    <3>1. i \in 1..(Len(s) + 1)
      BY LenProperties
    <3> QED
      BY <3>1, FromFacts
  <2>3. Len(From(s, i)) \in Nat /\ FrameSize(From(s, i)) \in Nat
    BY <2>1, <2>2, FrameSizeFacts, LenProperties
  <2>4. ~(Len(From(s, i)) < kFrameOverhead) /\ ~(Len(From(s, i)) < FrameSize(From(s, i)))
    BY <2>1, <2>3 DEF kFrameOverhead
  <2> QED
    BY <2>4, Zenon DEF Unfinished
<1>2. Passed(s, i) = i + FrameSize(From(s, i))
  BY DEF Passed
<1>3. Scan(s)[i] = Read(s, i) \o Scan(s)[Passed(s, i)]
  BY <1>1, ScanFacts, Zenon DEF Scans
<1> QED
  BY <1>2, <1>3, FrameAtFacts

\* It ends at what may still become a frame.
LEMMA ScanWaits ==
  ASSUME NEW s \in Seq(Byte), NEW i \in 1..Len(s), Unfinished(s, i)
  PROVE  Scan(s)[i] = <<>>
BY ScanFacts, Zenon DEF Scans

\* It finds nothing in less than the shortest frame.
LEMMA ScanOfLittle ==
  ASSUME NEW s \in Seq(Byte), NEW p \in 1..(Len(s) + 1),
         Len(s) - p + 1 < kFrameOverhead
  PROVE  Scan(s)[p] = <<>>
<1> DEFINE N == Len(s) + 1
           T == {i \in 0..N : i >= p => Scan(s)[i] = <<>>}
<1>1. Len(s) \in Nat /\ N \in Nat
  BY LenProperties
<1>2. ASSUME NEW i \in 0..N, \A k \in (i + 1)..N : k \in T PROVE i \in T
  <2> SUFFICES ASSUME i >= p PROVE Scan(s)[i] = <<>>
    OBVIOUS
  <2>1. CASE i = N
    BY <2>1, ScanFacts DEF Scans
  <2>2. CASE i \in 1..Len(s)
    <3>1. From(s, i) \in Seq(Byte) /\ Len(From(s, i)) < kFrameOverhead
      <4>1. i \in 1..(Len(s) + 1)
        BY <1>1
      <4>2. From(s, i) \in Seq(Byte) /\ Len(From(s, i)) = Len(s) - i + 1
        BY <4>1, FromFacts
      <4> QED
        BY <1>1, <4>2 DEF kFrameOverhead
    <3>2. CASE PreambleAt(From(s, i), 1)
      <4>1. Unfinished(s, i)
        BY <3>1, <3>2, Zenon DEF Unfinished
      <4> QED
        BY <2>2, <4>1, ScanWaits
    <3>3. CASE ~PreambleAt(From(s, i), 1)
      <4>1. Scan(s)[i] = Scan(s)[i + 1]
        BY <2>2, <3>3, ScanSkips
      <4>2. i + 1 \in (i + 1)..N /\ i + 1 >= p
        BY <1>1, <2>2
      <4> QED
        BY <1>2, <4>1, <4>2
    <3> QED
      BY <3>2, <3>3
  <2> QED
    BY <1>1, <2>1, <2>2
<1>3. \A i \in 0..N : i \in T
  <2> HIDE DEF N, T
  <2> QED
    BY <1>1, <1>2, DownFrom
<1> QED
  BY <1>1, <1>3

\* Where there is no preamble, the scan goes on behind.
LEMMA ScanSkipsTo ==
  ASSUME NEW s \in Seq(Byte), NEW p \in 1..(Len(s) + 1), NEW q \in p..(Len(s) + 1),
         \A i \in p..(q - 1) : ~PreambleAt(From(s, i), 1)
  PROVE  Scan(s)[p] = Scan(s)[q]
<1> DEFINE T == {i \in 0..q : i >= p => Scan(s)[i] = Scan(s)[q]}
<1>1. Len(s) \in Nat /\ q \in Nat /\ p \in Nat
  BY LenProperties
<1>2. ASSUME NEW i \in 0..q, \A k \in (i + 1)..q : k \in T PROVE i \in T
  <2> SUFFICES ASSUME i >= p, i # q PROVE Scan(s)[i] = Scan(s)[q]
    OBVIOUS
  <2>1. i \in p..(q - 1) /\ i \in 1..Len(s) /\ i + 1 \in (i + 1)..q /\ i + 1 >= p
    BY <1>1
  <2>2. Scan(s)[i] = Scan(s)[i + 1]
    BY <2>1, ScanSkips
  <2> QED
    BY <1>2, <2>1, <2>2
<1>3. \A i \in 0..q : i \in T
  <2> HIDE DEF T
  <2> QED
    BY <1>1, <1>2, DownFrom
<1> QED
  BY <1>1, <1>3

-----------------------------------------------------------------------------
(* What has been handled, and what the scan still finds.                   *)

\* Where in the stream the buffer begins.
Position == received - Len(receive_buffer_) + 1

Upto(n) == SubSeq(wire, 1, n)

\* However much more of the stream is looked at, the scan finds what has
\* been handled, and then what it finds from the buffer on.
ScanInv ==
  \A n \in received..Len(wire) :
    Frames(Upto(n)) = handled \o Scan(Upto(n))[Position]

\* There is no frame in the buffer.
NothingLeft == Scan(Upto(received))[Position] = <<>>

HandledInv ==
  /\ handled \in Seq(Reply)
  /\ ~socket_ => handled = <<>> /\ wire = <<>> /\ ~parsing
  /\ socket_ => ScanInv
  /\ socket_ /\ ~parsing => NothingLeft

\* A preamble at the front of a suffix.
LEMMA PreambleInFront ==
  ASSUME NEW s \in Seq(Byte), NEW i \in 1..(Len(s) + 1)
  PROVE  PreambleAt(From(s, i), 1) <=> PreambleAt(s, i)
<1>1. /\ Len(s) \in Nat /\ Len(From(s, i)) = Len(s) - i + 1
      /\ \A k \in 1..(Len(s) - i + 1) : From(s, i)[k] = s[i + k - 1]
  BY FromFacts, LenProperties
<1>2. CASE i + 2 <= Len(s)
  <2>1. /\ From(s, i)[1] = s[i] /\ From(s, i)[2] = s[i + 1]
        /\ From(s, i)[3] = s[i + 2]
    <3>1. /\ 1 \in 1..(Len(s) - i + 1) /\ i + 1 - 1 = i
          /\ 2 \in 1..(Len(s) - i + 1) /\ i + 2 - 1 = i + 1
          /\ 3 \in 1..(Len(s) - i + 1) /\ i + 3 - 1 = i + 2
      BY <1>1, <1>2
    <3> QED
      BY <1>1, <3>1
  <2>2. 1 + 2 <= Len(From(s, i)) /\ 1..(1 + 2) = {1, 2, 3} /\ i..(i + 2) = {i, i + 1, i + 2}
    BY <1>1, <1>2
  <2> QED
    BY <1>2, <2>1, <2>2 DEF PreambleAt
<1>3. CASE ~(i + 2 <= Len(s))
  BY <1>1, <1>3 DEF PreambleAt
<1> QED
  BY <1>2, <1>3

\* The buffer, from each of its bytes on, begins what the stream goes on with.
LEMMA BufferBegins ==
  ASSUME TypeOK, socket_, NEW n \in received..Len(wire),
         NEW i \in 1..(Len(receive_buffer_) + 1)
  PROVE  /\ Upto(n) \in Seq(Byte) /\ Len(Upto(n)) = n
         /\ Position \in 1..(received + 1)
         /\ Position + i - 1 \in 1..(received + 1) /\ Position + i - 1 \in 1..(n + 1)
         /\ From(receive_buffer_, i) \in Seq(Byte)
         /\ Len(From(receive_buffer_, i)) = received - (Position + i - 1) + 1
         /\ Begins(From(receive_buffer_, i), From(Upto(n), Position + i - 1))
<1> DEFINE size == Len(receive_buffer_)
           s == Upto(n)
           q == Position + i - 1
<1>1. /\ wire \in Seq(Byte) /\ Len(wire) \in Nat /\ received \in 0..Len(wire)
      /\ receive_buffer_ \in Seq(Byte) /\ size \in Nat /\ size <= received
      /\ Position = received - size + 1
      /\ receive_buffer_ = SubSeq(wire, Position, received)
  BY LenProperties DEF TypeOK, Position
<1>2. n \in Nat /\ n <= Len(wire) /\ received <= n
  BY <1>1
<1>3. s \in Seq(Byte) /\ Len(s) = n /\ \A k \in 1..n : s[k] = wire[k]
  <2>1. \A k \in 1..n : wire[k] \in Byte
    BY <1>1, <1>2, ElementOfSeq
  <2>2. /\ SubSeq(wire, 1, n) \in Seq(Byte)
        /\ Len(SubSeq(wire, 1, n)) = IF 1 <= n THEN n - 1 + 1 ELSE 0
        /\ \A k \in 1..(n - 1 + 1) : SubSeq(wire, 1, n)[k] = wire[1 + k - 1]
    BY <1>2, <2>1, SubSeqProperties
  <2> QED
    BY <1>2, <2>2 DEF Upto
<1>4. /\ Position \in 1..(received + 1) /\ q \in 1..(received + 1) /\ q \in 1..(n + 1)
      /\ size - i + 1 = received - q + 1 /\ q = Position + i - 1
  <2>1. /\ received \in Nat /\ size \in Nat /\ size <= received
        /\ n \in Nat /\ received <= n
        /\ i \in Nat /\ 1 <= i /\ i <= size + 1
        /\ Position = received - size + 1
    BY <1>1, <1>2
  <2> HIDE DEF size
  <2> QED
    BY <2>1
<1>5. \A k \in 1..size : receive_buffer_[k] = wire[Position + k - 1]
  <2>1. \A k \in Position..received : wire[k] \in Byte
    BY <1>1, <1>4, ElementOfSeq
  <2>2. \A k \in 1..(received - Position + 1) :
          SubSeq(wire, Position, received)[k] = wire[Position + k - 1]
    <3>1. Position \in Nat /\ Position >= 1 /\ received \in Nat /\ Position <= received + 1
      <4>1. received \in Nat
        BY <1>1
      <4> QED
        BY <1>4, <4>1
    <3> HIDE DEF size, q
    <3> QED
      BY <2>1, <3>1, SubSeqProperties
  <2>3. received - Position + 1 = size
    BY <1>1
  <2> QED
    BY <1>1, <2>2, <2>3
<1> HIDE DEF s, q, size
<1>6. /\ From(receive_buffer_, i) \in Seq(Byte)
      /\ Len(From(receive_buffer_, i)) = size - i + 1
      /\ \A k \in 1..(size - i + 1) :
           From(receive_buffer_, i)[k] = receive_buffer_[i + k - 1]
  BY <1>1, FromFacts DEF size
<1>7. /\ From(s, q) \in Seq(Byte) /\ Len(From(s, q)) = n - q + 1
      /\ \A k \in 1..(n - q + 1) : From(s, q)[k] = s[q + k - 1]
  BY <1>3, <1>4, FromFacts
<1>8. i \in 1..(size + 1)
  BY DEF size
<1>9. \A k \in 1..(size - i + 1) : From(receive_buffer_, i)[k] = From(s, q)[k]
  <2> TAKE k \in 1..(size - i + 1)
  <2>1. PICK m \in Nat : m = i + k - 1
    BY <1>8
  <2>2. /\ m \in 1..size /\ Position + m - 1 = q + k - 1
        /\ q + k - 1 \in 1..n /\ k \in 1..(n - q + 1)
    BY <1>1, <1>2, <1>4, <1>8, <2>1
  <2>3. From(receive_buffer_, i)[k] = wire[q + k - 1]
    BY <1>5, <1>6, <2>1, <2>2
  <2>4. From(s, q)[k] = wire[q + k - 1]
    BY <1>3, <1>7, <2>2
  <2> QED
    BY <2>3, <2>4
<1>10. Begins(From(receive_buffer_, i), From(s, q))
  <2>1. size - i + 1 <= n - q + 1
    BY <1>1, <1>2, <1>4, <1>8
  <2> QED
    BY <1>6, <1>7, <1>9, <2>1 DEF Begins
<1> QED
  BY <1>3, <1>4, <1>6, <1>10 DEF s, q

\* The scan goes on at the first preamble of the buffer.
LEMMA ScanFindsCandidate ==
  ASSUME TypeOK, socket_, HasPreamble, NEW n \in received..Len(wire),
         NEW q, q = Position + FirstPreamble(receive_buffer_) - 1
  PROVE  /\ Upto(n) \in Seq(Byte) /\ Len(Upto(n)) = n
         /\ q \in 1..received /\ q \in 1..n /\ Len(Candidate) = received - q + 1
         /\ Begins(Candidate, From(Upto(n), q))
         /\ PreambleAt(From(Upto(n), q), 1)
         /\ Scan(Upto(n))[Position] = Scan(Upto(n))[q]
<1> DEFINE first == FirstPreamble(receive_buffer_)
           s == Upto(n)
<1>1. /\ received \in Nat /\ Len(wire) \in Nat /\ n \in Nat /\ received <= n
      /\ receive_buffer_ \in Seq(Byte) /\ Len(receive_buffer_) \in Nat
  BY LenProperties DEF TypeOK
<1>2. /\ first \in 1..Len(receive_buffer_) /\ first + 2 <= Len(receive_buffer_)
      /\ PreambleAt(receive_buffer_, first)
      /\ \A k \in Preambles(receive_buffer_) : first <= k
  BY <1>1, FirstPreambleIsFirst DEF HasPreamble, Preambles, PreambleAt
<1>3. Candidate = From(receive_buffer_, first)
  BY DEF Candidate
<1> HIDE DEF first, s
<1>4. q = Position + first - 1
  BY DEF first
<1>5. /\ s \in Seq(Byte) /\ Len(s) = n
      /\ Position \in 1..(received + 1) /\ q \in 1..(received + 1)
      /\ Candidate \in Seq(Byte) /\ Len(Candidate) = received - q + 1
      /\ Begins(Candidate, From(s, q))
  BY <1>1, <1>2, <1>3, <1>4, BufferBegins DEF s
<1>6. Len(Candidate) = Len(receive_buffer_) - first + 1
  <2>1. first \in 1..(Len(receive_buffer_) + 1)
    BY <1>1, <1>2
  <2> QED
    BY <1>1, <1>3, <2>1, FromFacts
<1>7. q \in 1..received /\ q \in 1..n
  BY <1>1, <1>2, <1>5, <1>6
<1>8. PreambleAt(From(s, q), 1)
  <2>1. PreambleAt(Candidate, 1)
    BY <1>1, <1>2, <1>3, PreambleInFront
  <2>2. 1 + 2 <= Len(Candidate)
    BY <2>1 DEF PreambleAt
  <2> QED
    BY <1>5, <2>1, <2>2, SamePreamble
<1>9. ASSUME NEW i \in Position..(q - 1) PROVE ~PreambleAt(From(s, i), 1)
  <2>1. PICK k : k = i - Position + 1
    OBVIOUS
  <2>2. /\ k \in 1..(Len(receive_buffer_) + 1) /\ k < first
        /\ k \in 1..Len(receive_buffer_) /\ k + 2 <= Len(receive_buffer_)
        /\ Position + k - 1 = i
    <3>1. /\ Position \in Nat /\ i \in Nat /\ Position <= i /\ i <= q - 1
          /\ first \in Nat /\ q = Position + first - 1
      <4>1. received \in Nat /\ first \in Nat
        BY <1>1, <1>2
      <4>2. Position \in Nat /\ q \in Nat
        BY <1>5, <4>1
      <4> QED
        BY <1>4, <4>1, <4>2
    <3>2. k \in Nat /\ 1 <= k /\ k < first /\ Position + k - 1 = i
      BY <2>1, <3>1
    <3> QED
      BY <1>1, <1>2, <3>1, <3>2
  <2>3. ~PreambleAt(receive_buffer_, k)
    BY <1>2, <2>2 DEF Preambles
  <2>4. ~PreambleAt(From(receive_buffer_, k), 1)
    BY <1>1, <2>2, <2>3, PreambleInFront
  <2>5. /\ Begins(From(receive_buffer_, k), From(s, i))
        /\ Len(From(receive_buffer_, k)) = Len(receive_buffer_) - k + 1
    BY <1>1, <2>2, BufferBegins, FromFacts DEF s
  <2>6. 1 + 2 <= Len(From(receive_buffer_, k))
    BY <1>1, <2>2, <2>5
  <2> QED
    BY <2>4, <2>5, <2>6, SamePreamble
<1>10. Scan(s)[Position] = Scan(s)[q]
  <2>1. Position \in 1..(Len(s) + 1) /\ q \in Position..(Len(s) + 1)
    BY <1>1, <1>2, <1>4, <1>5, <1>7
  <2> QED
    BY <1>5, <1>9, <2>1, ScanSkipsTo
<1> QED
  BY <1>5, <1>7, <1>8, <1>10 DEF s

-----------------------------------------------------------------------------
(* A turn of the loop.                                                     *)

\* Erasing from the front moves the buffer on.
LEMMA NewPosition ==
  ASSUME TypeOK, received' = received, NEW k \in 1..(Len(receive_buffer_) + 1),
         receive_buffer_' = From(receive_buffer_, k)
  PROVE  Position' = Position + k - 1
<1>1. /\ Len(receive_buffer_) \in Nat /\ received \in Nat
      /\ Len(receive_buffer_') = Len(receive_buffer_) - k + 1
  BY FromFacts, LenProperties DEF TypeOK
<1> QED
  BY <1>1 DEF Position

Regroups(u, v, w) == u \o (v \o w) = (u \o v) \o w

\* Concatenations can be regrouped.
LEMMA Regrouping ==
  ASSUME NEW S, NEW u \in Seq(S), NEW v \in Seq(S), NEW w \in Seq(S)
  PROVE  Regroups(u, v, w)
BY ConcatAssociative DEF Regroups

\* A turn that handles what the scan finds where it erases keeps ScanInv.
LEMMA TurnKeeps ==
  ASSUME TypeOK, HandledInv, socket_, UNCHANGED <<socket_, wire, received>>,
         NEW k \in 1..(Len(receive_buffer_) + 1),
         receive_buffer_' = From(receive_buffer_, k),
         NEW h \in Seq(Reply), handled' = handled \o h,
         \A n \in received..Len(wire) :
           Scan(Upto(n))[Position] = h \o Scan(Upto(n))[Position + k - 1]
  PROVE  handled' \in Seq(Reply) /\ ScanInv'
<1>1. handled \in Seq(Reply) /\ handled' \in Seq(Reply)
  BY ConcatProperties DEF HandledInv
<1>2. Position' = Position + k - 1
  BY NewPosition
<1>3. ASSUME NEW n \in received..Len(wire)
      PROVE  Frames(Upto(n)) = handled' \o Scan(Upto(n))[Position + k - 1]
  <2>1. PICK q : q = Position + k - 1
    OBVIOUS
  <2>2. Upto(n) \in Seq(Byte) /\ Len(Upto(n)) = n /\ q \in 1..(n + 1)
    BY <2>1, BufferBegins
  <2>3. PICK rest : rest = Scan(Upto(n))[q]
    OBVIOUS
  <2>4. rest \in Seq(Reply)
    BY <2>2, <2>3, ScanFacts DEF Scans
  <2>5. Scan(Upto(n))[Position] = h \o rest
    BY <2>1, <2>3
  <2>6. Frames(Upto(n)) = handled \o (h \o rest)
    BY <2>5 DEF HandledInv, ScanInv
  <2>7. handled \o (h \o rest) = (handled \o h) \o rest
    <3>1. Regroups(handled, h, rest)
      BY <1>1, <2>4, Regrouping
    <3> QED
      BY <3>1, Zenon DEF Regroups
  <2> QED
    BY <2>1, <2>3, <2>6, <2>7
<1> QED
  BY <1>1, <1>2, <1>3 DEF ScanInv, Upto

\* A turn that handles nothing keeps it when the scan finds nothing in what
\* is erased.
LEMMA TurnSkips ==
  ASSUME TypeOK, HandledInv, socket_,
         UNCHANGED <<socket_, wire, received, handled>>,
         NEW k \in 1..(Len(receive_buffer_) + 1),
         receive_buffer_' = From(receive_buffer_, k),
         \A n \in received..Len(wire) :
           Scan(Upto(n))[Position] = Scan(Upto(n))[Position + k - 1]
  PROVE  handled' \in Seq(Reply) /\ ScanInv'
<1>1. ASSUME NEW n \in received..Len(wire)
      PROVE  Scan(Upto(n))[Position] = <<>> \o Scan(Upto(n))[Position + k - 1]
  <2>1. PICK q : q = Position + k - 1
    OBVIOUS
  <2>2. Upto(n) \in Seq(Byte) /\ Len(Upto(n)) = n /\ q \in 1..(n + 1)
    BY <2>1, BufferBegins
  <2>3. PICK rest : rest = Scan(Upto(n))[q]
    OBVIOUS
  <2>4. rest \in Seq(Reply)
    BY <2>2, <2>3, ScanFacts DEF Scans
  <2>5. <<>> \o rest = rest
    BY <2>4, ConcatEmptySeq
  <2>6. Scan(Upto(n))[Position] = rest
    BY <2>1, <2>3
  <2> QED
    BY <2>1, <2>3, <2>5, <2>6
<1>2. <<>> \in Seq(Reply) /\ handled' = handled \o <<>>
  <2>1. <<>> \in Seq(Reply)
    BY EmptySeq
  <2> QED
    BY <2>1, ConcatEmptySeq DEF HandledInv
<1> QED
  BY <1>1, <1>2, TurnKeeps

\* TooLong and WrongChecksum erase one byte of what is no frame, and never
\* will be one.
LEMMA NoFrameTurn ==
  ASSUME TypeOK, HandledInv, socket_, TooLong \/ WrongChecksum
  PROVE  handled' \in Seq(Reply) /\ ScanInv'
<1>1. /\ HasPreamble /\ Len(Candidate) >= kFrameOverhead
      /\ UNCHANGED <<socket_, wire, received, handled>>
      /\ receive_buffer_' = Tail(Candidate)
  BY DEF TooLong, WrongChecksum, ProperHeader, GoOn
<1>2. PICK q : q = Position + FirstPreamble(receive_buffer_) - 1
  OBVIOUS
<1>3. PICK k : k = FirstPreamble(receive_buffer_) + 1
  OBVIOUS
<1>4. /\ receive_buffer_' = From(receive_buffer_, k)
      /\ k \in 1..(Len(receive_buffer_) + 1) /\ Position + k - 1 = q + 1
  <2>1. receive_buffer_ \in Seq(Byte) /\ Len(receive_buffer_) \in Nat
    BY LenProperties DEF TypeOK
  <2>2. FirstPreamble(receive_buffer_) \in 1..Len(receive_buffer_)
    BY <1>1, <2>1, CandidateFacts
  <2>3. Position \in Int
    BY <2>1 DEF TypeOK, Position
  <2>4. receive_buffer_' = From(receive_buffer_, k)
    BY <1>1, <1>3, <2>1, ErasedFacts
  <2> QED
    BY <1>2, <1>3, <2>1, <2>2, <2>3, <2>4
<1>5. ASSUME NEW n \in received..Len(wire)
      PROVE  Scan(Upto(n))[Position] = Scan(Upto(n))[Position + k - 1]
  <2>1. /\ Upto(n) \in Seq(Byte) /\ Len(Upto(n)) = n /\ q \in 1..n
        /\ Begins(Candidate, From(Upto(n), q))
        /\ Scan(Upto(n))[Position] = Scan(Upto(n))[q]
    BY <1>1, <1>2, ScanFindsCandidate
  <2>2. PICK front : front = From(Upto(n), q)
    OBVIOUS
  <2>3. /\ Candidate \in Seq(Byte) /\ front \in Seq(Byte)
        /\ Len(Candidate) \in Nat /\ Len(front) \in Nat
        /\ Len(front) >= Len(Candidate) /\ Len(front) >= kFrameOverhead
    BY <1>1, <2>1, <2>2, LenProperties DEF Begins, kFrameOverhead
  <2>4. /\ PayloadSize(front) = PayloadSize(Candidate)
        /\ FrameSize(front) = FrameSize(Candidate)
        /\ PayloadSize(front) \in Nat /\ FrameSize(front) \in Nat
    BY <1>1, <2>1, <2>2, <2>3, SameSize, FrameSizeFacts
  <2>5. ~(Len(front) < kFrameOverhead)
    BY <2>3 DEF kFrameOverhead
  <2>6. ~Unfinished(Upto(n), q) /\ ~FrameAt(Upto(n), q)
    <3>1. CASE TooLong
      <4>1. ~(PayloadSize(front) <= max_payload_size)
        BY <2>4, <3>1, ParserAssumption DEF TooLong
      <4> QED
        BY <2>2, <2>5, <4>1, Zenon DEF Unfinished, FrameAt
    <3>2. CASE WrongChecksum
      <4>1. /\ Len(Candidate) >= FrameSize(Candidate)
            /\ ~ChecksumIsRight(Candidate)
        BY <3>2 DEF WrongChecksum
      <4>2. ~(Len(front) < FrameSize(front))
        BY <2>3, <2>4, <4>1
      <4>3. ~ChecksumIsRight(front)
        BY <1>1, <2>1, <2>2, <4>1, SameFrame
      <4> QED
        BY <2>2, <2>5, <4>2, <4>3, Zenon DEF Unfinished, FrameAt
    <3> QED
      BY <3>1, <3>2
  <2>7. Scan(Upto(n))[q] = Scan(Upto(n))[q + 1]
    BY <2>1, <2>6, ScanPasses
  <2> QED
    BY <1>4, <2>1, <2>7
<1> QED
  BY <1>1, <1>4, <1>5, TurnSkips

\* Frame handles the frame the scan takes, and erases it.
LEMMA FrameTurn ==
  ASSUME TypeOK, HandledInv, socket_, Frame
  PROVE  handled' \in Seq(Reply) /\ ScanInv'
<1>1. /\ HasPreamble /\ Len(Candidate) >= kFrameOverhead
      /\ PayloadSize(Candidate) <= max_payload_size
      /\ Len(Candidate) >= FrameSize(Candidate) /\ ChecksumIsRight(Candidate)
      /\ UNCHANGED <<socket_, wire, received>>
      /\ receive_buffer_' = From(Candidate, FrameSize(Candidate) + 1)
      /\ handled' = handled \o HandleFrame(Candidate[4], Payload(Candidate))
  BY DEF Frame, ProperHeader, GoOn
<1>2. PICK q : q = Position + FirstPreamble(receive_buffer_) - 1
  OBVIOUS
<1>3. PICK k : k = FirstPreamble(receive_buffer_) + FrameSize(Candidate)
  OBVIOUS
<1>4. /\ receive_buffer_' = From(receive_buffer_, k)
      /\ k \in 1..(Len(receive_buffer_) + 1)
      /\ Position + k - 1 = q + FrameSize(Candidate)
  <2>1. receive_buffer_ \in Seq(Byte) /\ Len(receive_buffer_) \in Nat
    BY LenProperties DEF TypeOK
  <2>2. /\ FirstPreamble(receive_buffer_) \in 1..Len(receive_buffer_)
        /\ Candidate \in Seq(Byte)
        /\ Len(Candidate)
             = Len(receive_buffer_) - FirstPreamble(receive_buffer_) + 1
    BY <1>1, <2>1, CandidateFacts
  <2>3. Position \in Int
    BY <2>1 DEF TypeOK, Position
  <2>4. receive_buffer_' = From(receive_buffer_, k)
    BY <1>1, <1>3, <2>1, ErasedFacts
  <2>5. FrameSize(Candidate) \in Nat
    BY <1>1, <2>2, FrameSizeFacts
  <2>6. PICK size : size = FrameSize(Candidate)
    OBVIOUS
  <2>7. PICK first : first = FirstPreamble(receive_buffer_)
    OBVIOUS
  <2>8. /\ size \in Nat /\ first \in 1..Len(receive_buffer_)
        /\ size <= Len(receive_buffer_) - first + 1
        /\ k = first + size /\ q = Position + first - 1
    <3>1. size <= Len(Candidate)
      BY <1>1, <2>5, <2>6
    <3>2. size \in Nat /\ first \in 1..Len(receive_buffer_)
      BY <2>2, <2>5, <2>6, <2>7
    <3>3. Len(Candidate) = Len(receive_buffer_) - first + 1
      BY <2>2, <2>7
    <3>4. k = first + size /\ q = Position + first - 1
      BY <1>2, <1>3, <2>6, <2>7
    <3> QED
      BY <3>1, <3>2, <3>3, <3>4
  <2>9. /\ k \in 1..(Len(receive_buffer_) + 1)
        /\ Position + k - 1 = q + size
    BY <2>1, <2>3, <2>8
  <2> QED
    BY <2>4, <2>6, <2>9
<1> DEFINE h == HandleFrame(Candidate[4], Payload(Candidate))
<1>5. ASSUME NEW n \in received..Len(wire)
      PROVE  /\ h \in Seq(Reply)
             /\ Scan(Upto(n))[Position] = h \o Scan(Upto(n))[Position + k - 1]
  <2>1. /\ Upto(n) \in Seq(Byte) /\ Len(Upto(n)) = n /\ q \in 1..n
        /\ Begins(Candidate, From(Upto(n), q))
        /\ PreambleAt(From(Upto(n), q), 1)
        /\ Scan(Upto(n))[Position] = Scan(Upto(n))[q]
    BY <1>1, <1>2, ScanFindsCandidate
  <2>2. PICK front : front = From(Upto(n), q)
    OBVIOUS
  <2>3. /\ Candidate \in Seq(Byte) /\ front \in Seq(Byte)
        /\ Len(Candidate) \in Nat /\ Len(front) \in Nat
        /\ Len(front) >= Len(Candidate) /\ Len(front) >= kFrameOverhead
    BY <1>1, <2>1, <2>2, LenProperties DEF Begins, kFrameOverhead
  <2>4. /\ PayloadSize(front) = PayloadSize(Candidate)
        /\ FrameSize(front) = FrameSize(Candidate) /\ front[4] = Candidate[4]
        /\ PayloadSize(front) \in Nat /\ FrameSize(front) \in Nat
    BY <1>1, <2>1, <2>2, <2>3, SameSize, FrameSizeFacts
  <2>5. /\ ChecksumIsRight(front) /\ Payload(front) = Payload(Candidate)
    BY <1>1, <2>1, <2>2, SameFrame
  <2>6. Len(front) >= FrameSize(front) /\ PayloadSize(front) <= max_payload_size
    BY <1>1, <2>3, <2>4
  <2>7. FrameAt(Upto(n), q)
    BY <2>1, <2>2, <2>3, <2>5, <2>6, Zenon DEF FrameAt
  <2>8. /\ Scan(Upto(n))[q]
             = Read(Upto(n), q) \o Scan(Upto(n))[q + FrameSize(From(Upto(n), q))]
        /\ Read(Upto(n), q) \in Seq(Reply)
    BY <2>1, <2>7, ScanTakes
  <2>9. Read(Upto(n), q) = h
    BY <2>2, <2>4, <2>5 DEF Read
  <2> QED
    BY <1>4, <2>1, <2>2, <2>4, <2>8, <2>9, Zenon
<1>6. received \in received..Len(wire)
  BY LenProperties DEF TypeOK
<1> HIDE DEF h
<1>7. h \in Seq(Reply) /\ handled' = handled \o h
  BY <1>1, <1>5, <1>6 DEF h
<1> QED
  BY <1>1, <1>4, <1>5, <1>7, TurnKeeps

\* Leaving the loop: nothing is handled, and the scan finds nothing more in
\* what was received.
LEMMA TurnLeaves ==
  ASSUME TypeOK, HandledInv, socket_, NEW rest, Leave(rest),
         NEW k \in 1..(Len(receive_buffer_) + 1), rest = From(receive_buffer_, k),
         \A n \in received..Len(wire) :
           Scan(Upto(n))[Position] = Scan(Upto(n))[Position + k - 1],
         Scan(Upto(received))[Position + k - 1] = <<>>
  PROVE  handled' \in Seq(Reply) /\ ScanInv' /\ NothingLeft'
<1>1. /\ UNCHANGED <<socket_, wire, received, handled>>
      /\ receive_buffer_' = From(receive_buffer_, k)
  BY DEF Leave
<1>2. Position' = Position + k - 1
  BY <1>1, NewPosition
<1>3. NothingLeft'
  BY <1>1, <1>2 DEF NothingLeft, Upto
<1> QED
  BY <1>1, <1>3, TurnSkips

\* There is no frame in less than the shortest one.
LEMMA LittleLeft ==
  ASSUME TypeOK, socket_, NEW k \in 1..(Len(receive_buffer_) + 1),
         Len(receive_buffer_) - k + 1 < kFrameOverhead
  PROVE  Scan(Upto(received))[Position + k - 1] = <<>>
<1>1. received \in received..Len(wire) /\ received \in Nat
  BY LenProperties DEF TypeOK
<1>2. PICK q : q = Position + k - 1
  OBVIOUS
<1>3. /\ Upto(received) \in Seq(Byte) /\ Len(Upto(received)) = received
      /\ q \in 1..(received + 1)
      /\ Len(From(receive_buffer_, k)) = received - q + 1
  BY <1>1, <1>2, BufferBegins
<1>4. Len(From(receive_buffer_, k)) = Len(receive_buffer_) - k + 1
  BY FromFacts DEF TypeOK
<1>5. Len(Upto(received)) - q + 1 < kFrameOverhead
  BY <1>3, <1>4
<1> QED
  BY <1>2, <1>3, <1>5, ScanOfLittle

\* TooShort keeps all of the buffer.
LEMMA TooShortTurn ==
  ASSUME TypeOK, HandledInv, socket_, TooShort
  PROVE  handled' \in Seq(Reply) /\ ScanInv' /\ NothingLeft'
<1>1. Len(receive_buffer_) \in Nat /\ received \in Nat
  BY LenProperties DEF TypeOK
<1>2. /\ Leave(receive_buffer_) /\ receive_buffer_ = From(receive_buffer_, 1)
      /\ 1 \in 1..(Len(receive_buffer_) + 1)
      /\ Len(receive_buffer_) - 1 + 1 < kFrameOverhead
  <2>1. receive_buffer_ = From(receive_buffer_, 1)
    BY SubSeqFull DEF TypeOK, From
  <2>2. Len(receive_buffer_) < kFrameOverhead /\ Leave(receive_buffer_)
    BY DEF TooShort
  <2> QED
    BY <1>1, <2>1, <2>2 DEF kFrameOverhead
<1>3. Position + 1 - 1 = Position
  BY <1>1 DEF Position
<1>4. Scan(Upto(received))[Position + 1 - 1] = <<>>
  BY <1>2, LittleLeft
<1>5. \A n \in received..Len(wire) :
        Scan(Upto(n))[Position] = Scan(Upto(n))[Position + 1 - 1]
  BY <1>3
<1> QED
  BY <1>2, <1>4, <1>5, TurnLeaves

\* HeaderIncomplete and FrameIncomplete keep the candidate.
LEMMA IncompleteTurn ==
  ASSUME TypeOK, HandledInv, socket_, HeaderIncomplete \/ FrameIncomplete
  PROVE  handled' \in Seq(Reply) /\ ScanInv' /\ NothingLeft'
<1>1. HasPreamble /\ Leave(Candidate)
  BY DEF HeaderIncomplete, FrameIncomplete, ProperHeader
<1>2. PICK k : k = FirstPreamble(receive_buffer_)
  OBVIOUS
<1>3. receive_buffer_ \in Seq(Byte) /\ Len(receive_buffer_) \in Nat /\ received \in Nat
  BY LenProperties DEF TypeOK
<1>4. k \in 1..(Len(receive_buffer_) + 1) /\ Candidate = From(receive_buffer_, k)
  <2>1. k \in 1..Len(receive_buffer_)
    BY <1>1, <1>2, <1>3, CandidateFacts
  <2> QED
    BY <1>2, <1>3, <2>1 DEF Candidate
<1>5. PICK q : q = Position + k - 1
  OBVIOUS
<1>6. ASSUME NEW n \in received..Len(wire)
      PROVE  /\ Upto(n) \in Seq(Byte) /\ Len(Upto(n)) = n /\ q \in 1..n
             /\ q \in 1..received /\ Len(Candidate) = received - q + 1
             /\ Begins(Candidate, From(Upto(n), q))
             /\ PreambleAt(From(Upto(n), q), 1)
             /\ Scan(Upto(n))[Position] = Scan(Upto(n))[q]
  BY <1>1, <1>2, <1>5, ScanFindsCandidate
<1>7. Scan(Upto(received))[q] = <<>>
  <2>1. received \in received..Len(wire)
    BY LenProperties DEF TypeOK
  <2>2. PICK s : s = Upto(received)
    OBVIOUS
  <2>3. /\ s \in Seq(Byte) /\ Len(s) = received /\ q \in 1..received
        /\ Len(Candidate) = received - q + 1
        /\ Begins(Candidate, From(s, q)) /\ PreambleAt(From(s, q), 1)
    BY <1>6, <2>1, <2>2
  <2>4. /\ From(s, q) \in Seq(Byte) /\ Len(From(s, q)) = Len(Candidate)
    <3>1. q \in 1..(Len(s) + 1)
      BY <1>3, <2>3
    <3> QED
      BY <2>3, <3>1, FromFacts
  <2>5. Unfinished(s, q)
    <3>1. CASE HeaderIncomplete
      <4>1. Len(From(s, q)) < kFrameOverhead
        BY <2>4, <3>1 DEF HeaderIncomplete
      <4> QED
        BY <2>3, <4>1, Zenon DEF Unfinished
    <3>2. CASE FrameIncomplete
      <4>1. /\ Len(Candidate) >= kFrameOverhead
            /\ PayloadSize(Candidate) <= max_payload_size
            /\ Len(Candidate) < FrameSize(Candidate)
        BY <3>2 DEF FrameIncomplete, ProperHeader
      <4>2. /\ PayloadSize(From(s, q)) = PayloadSize(Candidate)
            /\ FrameSize(From(s, q)) = FrameSize(Candidate)
        BY <2>3, <4>1, SameSize
      <4>3. /\ PayloadSize(From(s, q)) <= max_payload_size
            /\ Len(From(s, q)) < FrameSize(From(s, q))
        BY <2>4, <4>1, <4>2, Zenon
      <4> QED
        BY <2>3, <4>3, Zenon DEF Unfinished
    <3> QED
      BY <3>1, <3>2
  <2>6. q \in 1..Len(s)
    BY <2>3
  <2> QED
    BY <2>2, <2>3, <2>5, <2>6, ScanWaits
<1> QED
  BY <1>1, <1>4, <1>5, <1>6, <1>7, TurnLeaves

\* What is not kept of a buffer without a preamble begins none, whatever
\* comes behind it.
LEMMA NoneBegins ==
  ASSUME TypeOK, socket_, Len(receive_buffer_) >= kFrameOverhead,
         Preambles(receive_buffer_) = {},
         NEW i \in 1..(Len(receive_buffer_) - Keep(receive_buffer_)),
         NEW n \in received..Len(wire)
  PROVE  ~PreambleAt(From(Upto(n), Position + i - 1), 1)
<1> DEFINE size == Len(receive_buffer_)
<1>1. /\ receive_buffer_ \in Seq(Byte) /\ size \in Nat /\ size >= 8
      /\ Keep(receive_buffer_) \in 0..2
  BY LenProperties DEF TypeOK, kFrameOverhead, Keep
<1>2. i \in 1..size /\ i \in 1..(size + 1) /\ i <= size - Keep(receive_buffer_)
  BY <1>1
<1>3. PICK q : q = Position + i - 1
  OBVIOUS
<1>4. PICK c : c = From(receive_buffer_, i)
  OBVIOUS
<1>5. PICK front : front = From(Upto(n), q)
  OBVIOUS
<1>6. Begins(c, front)
  BY <1>2, <1>3, <1>4, <1>5, BufferBegins
<1>7. /\ Len(c) = size - i + 1
      /\ \A l \in 1..(size - i + 1) : c[l] = receive_buffer_[i + l - 1]
  BY <1>1, <1>2, <1>4, FromFacts
<1>8. ASSUME PreambleAt(front, 1) PROVE FALSE
  <2>1. \A l \in 1..3 : l <= Len(c) => c[l] = kPreamble
    <3>1. \A l \in 1..3 : front[l] = kPreamble
      BY <1>8 DEF PreambleAt
    <3>2. \A l \in 1..Len(c) : c[l] = front[l]
      BY <1>6 DEF Begins
    <3> QED
      BY <1>2, <1>7, <3>1, <3>2
  <2>2. CASE i + 2 <= size
    <3>1. 1 + 2 <= Len(c) /\ 1 \in Nat \ {0}
      BY <1>2, <1>7, <2>2
    <3>2. PreambleAt(c, 1)
      BY <1>6, <1>8, <3>1, SamePreamble
    <3>3. PreambleAt(receive_buffer_, i)
      BY <1>1, <1>2, <1>4, <3>2, PreambleInFront
    <3> QED
      BY <1>2, <3>3 DEF Preambles
  <2>3. CASE i = size - 1
    <3>1. receive_buffer_[size - 1] = kPreamble /\ receive_buffer_[size] = kPreamble
      <4>1. /\ 1 \in 1..3 /\ 2 \in 1..3 /\ 1 <= Len(c) /\ 2 <= Len(c)
            /\ 1 \in 1..(size - i + 1) /\ 2 \in 1..(size - i + 1)
            /\ i + 1 - 1 = size - 1 /\ i + 2 - 1 = size
        BY <1>1, <1>2, <1>7, <2>3
      <4> QED
        BY <1>7, <2>1, <4>1
    <3>2. Keep(receive_buffer_) = 2
      BY <3>1, Zenon DEF Keep
    <3> QED
      BY <1>1, <1>2, <2>3, <3>2
  <2>4. CASE i = size
    <3>1. receive_buffer_[size] = kPreamble
      <4>1. /\ 1 \in 1..3 /\ 1 <= Len(c) /\ 1 \in 1..(size - i + 1)
            /\ i + 1 - 1 = size
        BY <1>1, <1>2, <1>7, <2>4
      <4> QED
        BY <1>7, <2>1, <4>1
    <3>2. Keep(receive_buffer_) # 0
      <4>1. Keep(receive_buffer_) = IF receive_buffer_[size - 1] # kPreamble THEN 1 ELSE 2
        BY <3>1, Zenon DEF Keep
      <4> QED
        BY <4>1
    <3> QED
      BY <1>1, <1>2, <2>4, <3>2
  <2> QED
    BY <1>1, <1>2, <2>2, <2>3, <2>4
<1> QED
  BY <1>3, <1>5, <1>8

\* NoPreamble keeps at most two bytes, which may begin one.
LEMMA NoPreambleTurn ==
  ASSUME TypeOK, HandledInv, socket_, NoPreamble
  PROVE  handled' \in Seq(Reply) /\ ScanInv' /\ NothingLeft'
<1>1. PICK k : k = Len(receive_buffer_) - Keep(receive_buffer_) + 1
  OBVIOUS
<1>2. /\ Len(receive_buffer_) >= kFrameOverhead /\ Preambles(receive_buffer_) = {}
      /\ Leave(From(receive_buffer_, k))
  BY <1>1 DEF NoPreamble
<1>3. /\ Len(receive_buffer_) \in Nat /\ Keep(receive_buffer_) \in 0..2
      /\ received \in Nat
  BY LenProperties DEF TypeOK, Keep
<1>4. /\ k \in 1..(Len(receive_buffer_) + 1)
      /\ Len(receive_buffer_) - k + 1 < kFrameOverhead
  BY <1>1, <1>2, <1>3 DEF kFrameOverhead
<1>5. Scan(Upto(received))[Position + k - 1] = <<>>
  BY <1>4, LittleLeft
<1>6. ASSUME NEW n \in received..Len(wire)
      PROVE  Scan(Upto(n))[Position] = Scan(Upto(n))[Position + k - 1]
  <2>1. PICK q : q = Position + k - 1
    OBVIOUS
  <2>2. /\ Upto(n) \in Seq(Byte) /\ Len(Upto(n)) = n
        /\ Position \in 1..(received + 1) /\ q \in 1..(n + 1)
    BY <1>4, <2>1, BufferBegins
  <2>3. /\ Position \in 1..(Len(Upto(n)) + 1) /\ q \in Position..(Len(Upto(n)) + 1)
    BY <1>3, <1>4, <2>1, <2>2
  <2>4. ASSUME NEW i \in Position..(q - 1) PROVE ~PreambleAt(From(Upto(n), i), 1)
    <3>1. PICK l : l = i - Position + 1
      OBVIOUS
    <3>2. /\ l \in 1..(Len(receive_buffer_) - Keep(receive_buffer_))
          /\ Position + l - 1 = i
      BY <1>1, <1>3, <2>1, <2>2, <3>1
    <3> QED
      BY <1>2, <3>2, NoneBegins
  <2> QED
    BY <2>1, <2>2, <2>3, <2>4, ScanSkipsTo
<1> QED
  BY <1>2, <1>4, <1>5, <1>6, TurnLeaves

-----------------------------------------------------------------------------
(* Fragmentation is invisible.                                             *)

\* There are no frames in no bytes.
LEMMA NoFrames ==
  ASSUME NEW w \in Seq(Byte)
  PROVE  SubSeq(w, 1, 0) = <<>> /\ Scan(SubSeq(w, 1, 0))[1] = <<>>
<1>1. SubSeq(w, 1, 0) = <<>> /\ <<>> \in Seq(Byte) /\ Len(<<>>) = 0
  BY SubSeqEmpty, EmptySeq
<1>2. Scan(<<>>)[Len(<<>>) + 1] = <<>>
  BY <1>1, ScanFacts DEF Scans
<1>3. Len(<<>>) + 1 = 1
  BY <1>1
<1> QED
  BY <1>1, <1>2, <1>3

\* A turn of the loop keeps the invariant.
LEMMA HandledTurn ==
  ASSUME TypeOK, HandledInv, Parse
  PROVE  HandledInv'
<1>1. parsing /\ socket_ /\ UNCHANGED socket_
  <2>1. parsing
    BY DEF Parse, TooShort, NoPreamble, HeaderIncomplete, TooLong,
           FrameIncomplete, WrongChecksum, Frame, ProperHeader, HasPreamble
  <2>2. UNCHANGED socket_
    BY ParseKeepsSuffix
  <2> QED
    BY <2>1, <2>2 DEF HandledInv, TypeOK
<1>2. CASE TooLong \/ WrongChecksum \/ Frame
  <2>1. parsing'
    BY <1>1, <1>2 DEF TooLong, WrongChecksum, Frame, GoOn
  <2>2. handled' \in Seq(Reply) /\ ScanInv'
    BY <1>1, <1>2, NoFrameTurn, FrameTurn
  <2> QED
    BY <1>1, <2>1, <2>2 DEF HandledInv
<1>3. CASE TooShort \/ NoPreamble \/ HeaderIncomplete \/ FrameIncomplete
  <2>1. handled' \in Seq(Reply) /\ ScanInv' /\ NothingLeft'
    BY <1>1, <1>3, TooShortTurn, NoPreambleTurn, IncompleteTurn
  <2> QED
    BY <1>1, <2>1 DEF HandledInv
<1> QED
  BY <1>2, <1>3 DEF Parse

\* recv() adds bytes to the buffer, and leaves its beginning where it is.
LEMMA HandledReceive ==
  ASSUME TypeOK, HandledInv, Receive
  PROVE  HandledInv'
<1>1. /\ socket_ /\ socket_' = socket_ /\ parsing' = TRUE
      /\ wire' = wire /\ handled' = handled
  BY DEF Receive
<1>2. PICK upto \in (received + 1)..Len(wire) :
        /\ receive_buffer_' =
             receive_buffer_ \o SubSeq(wire, received + 1, upto)
        /\ received' = upto
  BY DEF Receive
<1>3. /\ wire \in Seq(Byte) /\ Len(wire) \in Nat /\ received \in 0..Len(wire)
      /\ receive_buffer_ \in Seq(Byte) /\ Len(receive_buffer_) \in Nat
  BY LenProperties DEF TypeOK
<1>4. Len(receive_buffer_') = Len(receive_buffer_) + upto - received
  <2>1. \A k \in (received + 1)..upto : wire[k] \in Byte
    BY <1>2, <1>3, ElementOfSeq
  <2>2. /\ SubSeq(wire, received + 1, upto) \in Seq(Byte)
        /\ Len(SubSeq(wire, received + 1, upto)) = upto - received
    BY <1>2, <1>3, <2>1, SubSeqProperties
  <2>3. Len(receive_buffer_')
          = Len(receive_buffer_) + Len(SubSeq(wire, received + 1, upto))
    BY <1>2, <1>3, <2>2, ConcatProperties
  <2> QED
    BY <1>2, <1>3, <2>2, <2>3
<1>5. Position' = Position
  BY <1>2, <1>3, <1>4 DEF Position
<1>6. ScanInv'
  <2>1. ScanInv
    BY <1>1 DEF HandledInv
  <2>2. received'..Len(wire) \subseteq received..Len(wire)
    BY <1>2, <1>3
  <2> QED
    BY <1>1, <1>5, <2>1, <2>2 DEF ScanInv, Upto
<1> QED
  BY <1>1, <1>6 DEF HandledInv

\* A connection begins with an empty buffer.
LEMMA HandledConnects ==
  ASSUME TypeOK, IdleInv, HandledInv, Connects
  PROVE  HandledInv'
<1>1. /\ ~socket_ /\ socket_' = TRUE /\ wire' \in Seq(Byte) /\ received = 0
      /\ receive_buffer_' = <<>> /\ handled = <<>> /\ ~parsing
      /\ UNCHANGED <<received, parsing, handled>>
  BY ParserAssumption DEF Connects, IdleInv, HandledInv
<1>2. Position' = 1
  <2>1. Len(<<>>) = 0
    BY EmptySeq
  <2> QED
    BY <1>1, <2>1 DEF Position
<1>3. handled' \in Seq(Reply) /\ <<>> \in Seq(Reply)
  <2>1. <<>> \in Seq(Reply)
    BY EmptySeq
  <2> QED
    BY <1>1, <2>1
<1>4. ASSUME NEW n \in received'..Len(wire')
      PROVE  Frames(SubSeq(wire', 1, n)) = <<>> \o Scan(SubSeq(wire', 1, n))[1]
  <2>1. PICK w \in Seq(Byte) : w = wire'
    BY <1>1
  <2>2. Len(w) \in Nat /\ n \in Nat /\ n <= Len(w)
    BY <1>1, <2>1, LenProperties
  <2>3. PICK s : s = SubSeq(w, 1, n)
    OBVIOUS
  <2>4. s \in Seq(Byte) /\ Len(s) \in Nat
    <3>1. \A k \in 1..n : w[k] \in Byte
      BY <2>2, ElementOfSeq
    <3> QED
      BY <2>2, <2>3, <3>1, SubSeqProperties, LenProperties
  <2>5. Scan(s)[1] \in Seq(Reply)
    <3>1. 1 \in 1..(Len(s) + 1)
      BY <2>4
    <3> QED
      BY <2>4, <3>1, ScanFacts DEF Scans
  <2>6. <<>> \o Scan(s)[1] = Scan(s)[1]
    BY <2>5, ConcatEmptySeq
  <2> QED
    BY <2>1, <2>3, <2>6 DEF Frames
<1>5. ScanInv'
  BY <1>1, <1>2, <1>4 DEF ScanInv, Upto
<1>6. NothingLeft'
  <2>1. Scan(SubSeq(wire', 1, 0))[1] = <<>>
    BY <1>1, NoFrames
  <2> QED
    BY <1>1, <1>2, <2>1 DEF NothingLeft, Upto
<1> QED
  BY <1>1, <1>3, <1>5, <1>6 DEF HandledInv

\* Every step keeps it.
LEMMA HandledStep ==
  ASSUME IInv, HandledInv, [Next]_vars
  PROVE  HandledInv'
<1>1. CASE Parse
  BY <1>1, HandledTurn DEF IInv
<1>2. CASE Receive
  BY <1>2, HandledReceive DEF IInv
<1>3. CASE Connects
  BY <1>3, HandledConnects DEF IInv
<1>4. CASE Disconnects
  <2>1. <<>> \in Seq(Reply)
    BY EmptySeq
  <2> QED
    BY <1>4, <2>1 DEF Disconnects, HandledInv
<1>5. CASE UNCHANGED vars
  BY <1>5 DEF vars, HandledInv, ScanInv, NothingLeft, Upto, Position
<1> QED
  BY <1>1, <1>2, <1>3, <1>4, <1>5 DEF Next

\* When the loop has been left, what was handled is what the scan of all
\* that was received finds.
LEMMA HandledIsScanned ==
  ASSUME IInv, HandledInv
  PROVE  FragmentationIsInvisible
<1> SUFFICES ASSUME ~parsing
             PROVE  handled = Frames(Upto(received))
  BY DEF FragmentationIsInvisible, Upto
<1>1. /\ wire \in Seq(Byte) /\ Len(wire) \in Nat /\ received \in 0..Len(wire)
      /\ handled \in Seq(Reply)
  BY LenProperties DEF IInv, TypeOK, HandledInv
<1>2. CASE socket_
  <2>1. received \in received..Len(wire)
    BY <1>1
  <2>2. Frames(Upto(received)) = handled \o Scan(Upto(received))[Position]
    BY <1>2, <2>1 DEF HandledInv, ScanInv
  <2>3. Scan(Upto(received))[Position] = <<>>
    BY <1>2 DEF HandledInv, NothingLeft
  <2>4. handled \o <<>> = handled
    BY <1>1, ConcatEmptySeq
  <2> QED
    BY <2>2, <2>3, <2>4
<1>3. CASE ~socket_
  <2>1. handled = <<>> /\ received = 0
    BY <1>3 DEF HandledInv, IInv, IdleInv
  <2>2. Scan(Upto(received))[1] = <<>>
    BY <1>1, <2>1, NoFrames DEF Upto
  <2> QED
    BY <2>1, <2>2 DEF Frames
<1> QED
  BY <1>2, <1>3 DEF IInv, TypeOK

-----------------------------------------------------------------------------
(* Frames get through.                                                     *)

\* Among the replies r is the one of the frame at i.
Tells(r, s, i) ==
  \E n \in 1..Len(r) :
    r[n].id = s[i + 3] /\ r[n].payload = Payload(From(s, i))

\* It stays among them when more are handled before or after it.
LEMMA TellsMore ==
  ASSUME NEW r \in Seq(Reply), NEW t \in Seq(Reply), NEW s, NEW i,
         Tells(r, s, i) \/ Tells(t, s, i)
  PROVE  Tells(r \o t, s, i)
<1>1. /\ Len(r) \in Nat /\ Len(t) \in Nat /\ Len(r \o t) = Len(r) + Len(t)
      /\ \A n \in 1..(Len(r) + Len(t)) :
           (r \o t)[n] = IF n <= Len(r) THEN r[n] ELSE t[n - Len(r)]
  BY ConcatProperties, LenProperties
<1>2. CASE Tells(r, s, i)
  <2>1. PICK n \in 1..Len(r) :
          r[n].id = s[i + 3] /\ r[n].payload = Payload(From(s, i))
    BY <1>2 DEF Tells
  <2>2. n \in 1..Len(r \o t) /\ (r \o t)[n] = r[n]
    BY <1>1
  <2> QED
    BY <2>1, <2>2 DEF Tells
<1>3. CASE Tells(t, s, i)
  <2>1. PICK n \in 1..Len(t) :
          t[n].id = s[i + 3] /\ t[n].payload = Payload(From(s, i))
    BY <1>3 DEF Tells
  <2>2. PICK m : m = Len(r) + n
    OBVIOUS
  <2>3. m \in 1..Len(r \o t) /\ (r \o t)[m] = t[n]
    BY <1>1, <2>2
  <2> QED
    BY <2>1, <2>3 DEF Tells
<1> QED
  BY <1>2, <1>3

\* A frame with room for a status is read as one reply.
LEMMA FrameIsTold ==
  ASSUME NEW s \in Seq(Byte), NEW i \in 1..Len(s), FrameAt(s, i),
         PayloadSize(From(s, i)) >= 2
  PROVE  Tells(Read(s, i), s, i)
<1> DEFINE front == From(s, i)
           reply == [id |-> front[4], status |-> read_u16(Payload(front), 1),
                     payload |-> Payload(front)]
<1>1. ~(Len(Payload(front)) < 2)
  <2>1. Len(Payload(front)) = PayloadSize(front)
    BY FrameAtFacts
  <2>2. Len(Payload(front)) \in Nat
    BY FrameAtFacts, LenProperties
  <2> QED
    BY <2>1, <2>2
<1>2. front[4] = s[i + 3]
  <2>1. /\ Len(s) \in Nat /\ i \in 1..(Len(s) + 1)
        /\ Len(front) = Len(s) - i + 1
        /\ \A k \in 1..(Len(s) - i + 1) : front[k] = s[i + k - 1]
    BY FromFacts, LenProperties
  <2>2. Len(front) >= kFrameOverhead
    BY Zenon DEF FrameAt
  <2>3. 4 \in 1..(Len(s) - i + 1) /\ i + 4 - 1 = i + 3
    BY <2>1, <2>2 DEF kFrameOverhead
  <2> HIDE DEF front
  <2> QED
    BY <2>1, <2>3
<1>3. Read(s, i) = <<reply>>
  BY <1>1 DEF Read, HandleFrame
<1>4. reply.id = s[i + 3] /\ reply.payload = Payload(front)
  BY <1>2
<1>5. 1 \in 1..Len(<<reply>>) /\ <<reply>>[1] = reply
  OBVIOUS
<1> HIDE DEF reply
<1> QED
  BY <1>3, <1>4, <1>5 DEF Tells

\* The scan from j on comes to the frame at i: what begins between j and i is
\* settled by the bytes there are, and is no frame that reaches beyond i.
LEMMA ScanComesTo ==
  ASSUME NEW s \in Seq(Byte), NEW i \in 1..Len(s), FrameAt(s, i),
         PayloadSize(From(s, i)) >= 2,
         \A k \in 1..(i - 1) :
           FrameAt(s, k) => k + FrameSize(From(s, k)) <= i,
         i - 2 + kFrameOverhead + max_payload_size <= Len(s)
  PROVE  Tells(Scan(s)[1], s, i)
<1> DEFINE T == {j \in 0..i : j = 0 \/ Tells(Scan(s)[j], s, i)}
<1>1. Len(s) \in Nat /\ i \in Nat /\ max_payload_size \in Nat
  BY ParserAssumption, LenProperties
<1>2. \A j \in 1..(Len(s) + 1) : Scan(s)[j] \in Seq(Reply)
  BY ScanFacts DEF Scans
<1>3. i \in T
  <2>1. PICK e : e = i + FrameSize(From(s, i))
    OBVIOUS
  <2>2. /\ Scan(s)[i] = Read(s, i) \o Scan(s)[e]
        /\ e \in 1..(Len(s) + 1) /\ Read(s, i) \in Seq(Reply)
    <3>1. /\ Scan(s)[i] = Read(s, i) \o Scan(s)[e]
          /\ e \in (i + 1)..(Len(s) + 1) /\ Read(s, i) \in Seq(Reply)
      BY <2>1, ScanTakes
    <3> QED
      BY <1>1, <3>1
  <2>3. Tells(Read(s, i) \o Scan(s)[e], s, i)
    BY <1>2, <2>2, FrameIsTold, TellsMore
  <2>4. Tells(Scan(s)[i], s, i)
    BY <2>2, <2>3, Zenon
  <2>5. i \in 0..i
    BY <1>1
  <2> QED
    BY <2>4, <2>5
<1>4. ASSUME NEW j \in 0..i, \A k \in (j + 1)..i : k \in T PROVE j \in T
  <2>1. CASE j = 0 \/ j = i
    BY <1>3, <2>1
  <2>2. CASE j \in 1..(i - 1)
    <3>1. j \in 1..Len(s) /\ j \in 1..(Len(s) + 1)
      BY <1>1, <2>2
    <3>2. CASE FrameAt(s, j)
      <4>1. PICK e : e = j + FrameSize(From(s, j))
        OBVIOUS
      <4>2. /\ Scan(s)[j] = Read(s, j) \o Scan(s)[e]
            /\ e \in (j + 1)..(Len(s) + 1) /\ Read(s, j) \in Seq(Reply)
        BY <3>1, <3>2, <4>1, ScanTakes
      <4>3. e <= i
        BY <2>2, <3>2, <4>1
      <4>4. e \in (j + 1)..i /\ e # 0 /\ e \in 1..(Len(s) + 1)
        BY <1>1, <2>2, <4>2, <4>3
      <4>5. Tells(Scan(s)[e], s, i)
        BY <1>4, <4>4
      <4>6. Tells(Read(s, j) \o Scan(s)[e], s, i)
        BY <1>2, <4>2, <4>4, <4>5, TellsMore
      <4> QED
        BY <4>2, <4>6
    <3>3. CASE ~FrameAt(s, j)
      <4>1. ~Unfinished(s, j)
        <5>1. PICK front : front = From(s, j)
          OBVIOUS
        <5>2. front \in Seq(Byte) /\ Len(front) = Len(s) - j + 1
          BY <3>1, <5>1, FromFacts
        <5>3. Len(front) \in Nat /\ Len(front) >= 8 + max_payload_size
          BY <1>1, <2>2, <5>2 DEF kFrameOverhead
        <5>4. Len(front) >= kFrameOverhead /\ ~(Len(front) < kFrameOverhead)
          BY <1>1, <5>3 DEF kFrameOverhead
        <5>5. PayloadSize(front) \in Nat /\ FrameSize(front) = 8 + PayloadSize(front)
          BY <5>2, <5>4, FrameSizeFacts DEF FrameSize, kFrameOverhead
        <5>6. ~(PayloadSize(front) <= max_payload_size /\ Len(front) < FrameSize(front))
          BY <1>1, <5>3, <5>5
        <5> QED
          BY <5>1, <5>4, <5>6, Zenon DEF Unfinished
      <4>2. Scan(s)[j] = Scan(s)[j + 1]
        BY <3>1, <3>3, <4>1, ScanPasses
      <4>3. j + 1 \in (j + 1)..i /\ j + 1 # 0
        BY <1>1, <2>2
      <4> QED
        BY <1>4, <4>2, <4>3
    <3> QED
      BY <3>2, <3>3
  <2> QED
    BY <1>1, <2>1, <2>2
<1>5. \A j \in 0..i : j \in T
  <2> HIDE DEF T
  <2> QED
    BY <1>1, <1>4, DownFrom
<1> QED
  BY <1>1, <1>5

\* What was handled is that scan, and holds the frame.
LEMMA FrameGotThrough ==
  ASSUME IInv, HandledInv
  PROVE  FramesGetThrough
<1> SUFFICES ASSUME ~parsing PROVE FramesGetThrough
  BY DEF FramesGetThrough
<1>1. wire \in Seq(Byte) /\ Len(wire) \in Nat /\ received \in 0..Len(wire)
  BY LenProperties DEF IInv, TypeOK
<1>2. PICK s : s = SubSeq(wire, 1, received)
  OBVIOUS
<1>3. s \in Seq(Byte) /\ Len(s) = received
  <2>1. \A k \in 1..received : wire[k] \in Byte
    BY <1>1, ElementOfSeq
  <2> QED
    BY <1>1, <1>2, <2>1, SubSeqProperties
<1>4. handled = Scan(s)[1]
  BY <1>2, HandledIsScanned DEF FragmentationIsInvisible, Frames
<1>5. ASSUME NEW i \in 1..received,
             FrameAt(s, i), PayloadSize(From(s, i)) >= 2,
             \A k \in 1..(i - 1) :
               FrameAt(s, k) => k + FrameSize(From(s, k)) <= i,
             i - 2 + kFrameOverhead + max_payload_size <= received
      PROVE  \E n \in 1..Len(handled) :
               /\ handled[n].id = s[i + 3]
               /\ handled[n].payload = Payload(From(s, i))
  <2>1. Tells(Scan(s)[1], s, i)
    BY <1>3, <1>5, ScanComesTo
  <2> QED
    BY <1>4, <2>1 DEF Tells
<1> QED
  BY <1>2, <1>5 DEF FramesGetThrough

-----------------------------------------------------------------------------
(* Nothing but frames is handled.                                          *)

\* r is read out of a frame with the right checksum.
Comes(r, s) == \E i \in 1..Len(s) : FrameAt(s, i) /\ Read(s, i) = <<r>>

ComesAll(t, s) == \A n \in 1..Len(t) : Comes(t[n], s)

\* At any time what was handled, each reply on its own, came from a frame
\* within the bytes received.
OnlyFrames == ComesAll(handled, Upto(received))

\* One frame makes at most one reply.
LEMMA OneReply ==
  ASSUME NEW s, NEW i \in 1..Len(s), FrameAt(s, i)
  PROVE  ComesAll(Read(s, i), s)
<1>1. CASE Len(Payload(From(s, i))) < 2
  <2>1. Read(s, i) = <<>> /\ 1..Len(<<>>) = {}
    BY <1>1, EmptySeq DEF Read, HandleFrame
  <2> QED
    BY <2>1 DEF ComesAll
<1>2. CASE ~(Len(Payload(From(s, i))) < 2)
  <2>1. PICK r : Read(s, i) = <<r>>
    BY <1>2 DEF Read, HandleFrame
  <2>2. Comes(r, s)
    BY <2>1 DEF Comes
  <2>3. 1..Len(<<r>>) = {1} /\ <<r>>[1] = r
    OBVIOUS
  <2> QED
    BY <2>1, <2>2, <2>3 DEF ComesAll
<1> QED
  BY <1>1, <1>2

\* What comes from frames, and more of it.
LEMMA ComesMore ==
  ASSUME NEW r \in Seq(Reply), NEW t \in Seq(Reply), NEW s
  PROVE  ComesAll(r \o t, s) <=> ComesAll(r, s) /\ ComesAll(t, s)
<1>1. /\ Len(r) \in Nat /\ Len(t) \in Nat /\ Len(r \o t) = Len(r) + Len(t)
      /\ \A n \in 1..(Len(r) + Len(t)) :
           (r \o t)[n] = IF n <= Len(r) THEN r[n] ELSE t[n - Len(r)]
  BY ConcatProperties, LenProperties
<1>2. ASSUME ComesAll(r, s), ComesAll(t, s) PROVE ComesAll(r \o t, s)
  <2>1. ASSUME NEW n \in 1..Len(r \o t) PROVE Comes((r \o t)[n], s)
    <3>1. CASE n <= Len(r)
      <4>1. n \in 1..Len(r) /\ (r \o t)[n] = r[n]
        BY <1>1, <3>1
      <4> QED
        BY <1>2, <4>1 DEF ComesAll
    <3>2. CASE ~(n <= Len(r))
      <4>1. n - Len(r) \in 1..Len(t) /\ (r \o t)[n] = t[n - Len(r)]
        BY <1>1, <3>2
      <4> QED
        BY <1>2, <4>1 DEF ComesAll
    <3> QED
      BY <3>1, <3>2
  <2> QED
    BY <2>1 DEF ComesAll
<1>3. ASSUME ComesAll(r \o t, s) PROVE ComesAll(r, s) /\ ComesAll(t, s)
  <2>1. ASSUME NEW n \in 1..Len(r) PROVE Comes(r[n], s)
    <3>1. n \in 1..Len(r \o t) /\ (r \o t)[n] = r[n]
      BY <1>1
    <3> QED
      BY <1>3, <3>1 DEF ComesAll
  <2>2. ASSUME NEW n \in 1..Len(t) PROVE Comes(t[n], s)
    <3>1. PICK m : m = Len(r) + n
      OBVIOUS
    <3>2. m \in 1..Len(r \o t) /\ (r \o t)[m] = t[n]
      BY <1>1, <3>1
    <3> QED
      BY <1>3, <3>2 DEF ComesAll
  <2> QED
    BY <2>1, <2>2 DEF ComesAll
<1> QED
  BY <1>2, <1>3

\* The scan finds nothing but frames.
LEMMA ScanFindsFrames ==
  ASSUME NEW s \in Seq(Byte)
  PROVE  ComesAll(Scan(s)[1], s)
<1> DEFINE N == Len(s) + 1
           T == {j \in 0..N : j = 0 \/ ComesAll(Scan(s)[j], s)}
<1>1. Len(s) \in Nat /\ N \in Nat /\ N = Len(s) + 1
  BY LenProperties
<1>2. /\ \A j \in 1..N : Scan(s)[j] \in Seq(Reply)
      /\ Scan(s)[N] = <<>>
  BY ScanFacts DEF Scans
<1>3. ComesAll(<<>>, s)
  <2>1. 1..Len(<<>>) = {}
    BY EmptySeq
  <2> QED
    BY <2>1 DEF ComesAll
<1> HIDE DEF N
<1>4. ASSUME NEW j \in 0..N, \A k \in (j + 1)..N : k \in T PROVE j \in T
  <2>1. CASE j = 0 \/ j = N
    BY <1>1, <1>2, <1>3, <2>1
  <2>2. CASE j \in 1..Len(s)
    <3>1. CASE Unfinished(s, j)
      <4>1. Scan(s)[j] = <<>>
        BY <2>2, <3>1, ScanWaits
      <4> QED
        BY <1>3, <4>1
    <3>2. CASE FrameAt(s, j)
      <4>1. PICK e : e = j + FrameSize(From(s, j))
        OBVIOUS
      <4>2. /\ Scan(s)[j] = Read(s, j) \o Scan(s)[e]
            /\ e \in (j + 1)..N /\ Read(s, j) \in Seq(Reply)
        BY <1>1, <2>2, <3>2, <4>1, ScanTakes
      <4>3. e \in 1..N /\ e # 0
        BY <1>1, <2>2, <4>2
      <4>4. ComesAll(Scan(s)[e], s) /\ ComesAll(Read(s, j), s)
        BY <1>4, <2>2, <3>2, <4>2, <4>3, OneReply
      <4>5. ComesAll(Read(s, j) \o Scan(s)[e], s)
        BY <1>2, <4>2, <4>3, <4>4, ComesMore
      <4> QED
        BY <4>2, <4>5
    <3>3. CASE ~Unfinished(s, j) /\ ~FrameAt(s, j)
      <4>1. Scan(s)[j] = Scan(s)[j + 1]
        BY <2>2, <3>3, ScanPasses
      <4>2. j + 1 \in (j + 1)..N /\ j + 1 # 0
        BY <1>1, <2>2
      <4> QED
        BY <1>4, <4>1, <4>2
    <3> QED
      BY <3>1, <3>2, <3>3
  <2> QED
    BY <1>1, <2>1, <2>2
<1>5. \A j \in 0..N : j \in T
  <2> HIDE DEF T
  <2> QED
    BY <1>1, <1>4, DownFrom
<1> QED
  BY <1>1, <1>5

\* What was handled begins what the scan finds.
LEMMA HandledAreFrames ==
  ASSUME IInv, HandledInv
  PROVE  OnlyFrames
<1>1. /\ wire \in Seq(Byte) /\ Len(wire) \in Nat /\ received \in 0..Len(wire)
      /\ handled \in Seq(Reply)
  BY LenProperties DEF IInv, TypeOK, HandledInv
<1>2. CASE socket_
  <2>1. received \in received..Len(wire) /\ 1 \in 1..(Len(receive_buffer_) + 1)
    BY <1>1, LenProperties DEF IInv, TypeOK
  <2>2. /\ Upto(received) \in Seq(Byte) /\ Len(Upto(received)) = received
        /\ Position \in 1..(received + 1)
    BY <1>2, <2>1, BufferBegins DEF IInv
  <2>3. Scan(Upto(received))[1] = handled \o Scan(Upto(received))[Position]
    BY <1>2, <2>1 DEF HandledInv, ScanInv, Frames
  <2>4. Scan(Upto(received))[Position] \in Seq(Reply)
    BY <2>2, ScanFacts DEF Scans
  <2>5. ComesAll(handled \o Scan(Upto(received))[Position], Upto(received))
    BY <2>2, <2>3, ScanFindsFrames
  <2> QED
    BY <1>1, <2>4, <2>5, ComesMore DEF OnlyFrames
<1>3. CASE ~socket_
  <2>1. handled = <<>> /\ 1..Len(<<>>) = {}
    BY <1>3, EmptySeq DEF HandledInv
  <2> QED
    BY <2>1 DEF OnlyFrames, ComesAll
<1> QED
  BY <1>2, <1>3 DEF IInv, TypeOK

-----------------------------------------------------------------------------
(* What encode_frame() makes is a frame.                                   *)

\* What is expected of the checksum: two bytes hold it, and with them behind
\* it a frame has the checksum 0 (test_transport.cpp l.247).
SelfChecking(id, payload) ==
  LET frame == <<kPreamble, kPreamble, kPreamble, id>>
                 \o u16(Len(payload)) \o payload
  IN  checksum(frame) \in 0..uint16_max /\ checksum(encode_frame(id, payload)) = 0

\* A number that fits is read back.
LEMMA U16RoundTrip ==
  ASSUME NEW n \in 0..uint16_max
  PROVE  /\ u16(n) \in Seq(Byte) /\ Len(u16(n)) = 2
         /\ u16(n)[1] + 256 * u16(n)[2] = n
<1>1. PICK a, b : a = n % 256 /\ b = n \div 256
  OBVIOUS
<1>2. a \in 0..255 /\ b \in 0..255 /\ a + 256 * b = n
  BY <1>1, SMT DEF uint16_max
<1>3. u16(n) = <<a, b>>
  BY <1>1 DEF u16
<1>4. <<a, b>> \in Seq(Byte)
  BY <1>2 DEF Byte
<1> QED
  BY <1>2, <1>3, <1>4

\* The bytes of a frame.
LEMMA EncodedBytes ==
  ASSUME NEW id \in Byte, NEW payload \in Seq(Byte), Len(payload) <= uint16_max,
         SelfChecking(id, payload),
         NEW e, e = encode_frame(id, payload)
  PROVE  /\ e \in Seq(Byte) /\ Len(e) = Len(payload) + 8
         /\ e[1] = kPreamble /\ e[2] = kPreamble /\ e[3] = kPreamble
         /\ e[4] = id /\ read_u16(e, 5) = Len(payload)
         /\ \A k \in 1..Len(payload) : e[6 + k] = payload[k]
<1> DEFINE start == <<kPreamble, kPreamble, kPreamble, id>>
           header == start \o u16(Len(payload))
           frame == header \o payload
           sum == u16(checksum(frame))
<1>1. Len(payload) \in Nat /\ ~(Len(payload) > uint16_max)
      /\ Len(payload) \in 0..uint16_max
  <2>1. Len(payload) \in Nat
    BY LenProperties
  <2>2. uint16_max \in Nat
    BY SMT DEF uint16_max
  <2> QED
    BY <2>1, <2>2
<1>2. e = frame \o sum /\ checksum(frame) \in 0..uint16_max
  BY <1>1, Zenon DEF encode_frame, SelfChecking
<1>3. /\ start \in Seq(Byte) /\ Len(start) = 4
      /\ start[1] = kPreamble /\ start[2] = kPreamble /\ start[3] = kPreamble
      /\ start[4] = id
  BY DEF kPreamble, Byte
<1>4. /\ u16(Len(payload)) \in Seq(Byte) /\ Len(u16(Len(payload))) = 2
      /\ u16(Len(payload))[1] + 256 * u16(Len(payload))[2] = Len(payload)
  BY <1>1, U16RoundTrip
<1>5. sum \in Seq(Byte) /\ Len(sum) = 2
  BY <1>2, U16RoundTrip
<1> HIDE DEF start, sum
<1>6. /\ header \in Seq(Byte) /\ Len(header) = 6
      /\ \A k \in 1..6 : header[k] = IF k <= 4 THEN start[k] ELSE u16(Len(payload))[k - 4]
  <2>1. PICK size : size = u16(Len(payload))
    OBVIOUS
  <2>2. header = start \o size /\ size \in Seq(Byte) /\ Len(size) = 2
    BY <1>4, <2>1
  <2>3. /\ start \o size \in Seq(Byte)
        /\ Len(start \o size) = Len(start) + Len(size)
        /\ \A k \in 1..(Len(start) + Len(size)) :
             (start \o size)[k]
               = IF k <= Len(start) THEN start[k] ELSE size[k - Len(start)]
    BY <1>3, <2>2, ConcatProperties
  <2> HIDE DEF header
  <2> QED
    BY <1>3, <2>1, <2>2, <2>3
<1> HIDE DEF header
<1>7. /\ frame \in Seq(Byte) /\ Len(frame) = 6 + Len(payload)
      /\ \A k \in 1..(6 + Len(payload)) :
           frame[k] = IF k <= 6 THEN header[k] ELSE payload[k - 6]
  <2>1. /\ header \o payload \in Seq(Byte)
        /\ Len(header \o payload) = Len(header) + Len(payload)
        /\ \A k \in 1..(Len(header) + Len(payload)) :
             (header \o payload)[k]
               = IF k <= Len(header) THEN header[k] ELSE payload[k - Len(header)]
    BY <1>6, ConcatProperties
  <2>2. frame = header \o payload
    OBVIOUS
  <2> HIDE DEF frame
  <2> QED
    BY <1>6, <2>1, <2>2
<1> HIDE DEF frame
<1>8. /\ e \in Seq(Byte) /\ Len(e) = Len(payload) + 8
      /\ \A k \in 1..(6 + Len(payload)) : e[k] = frame[k]
  <2>1. /\ frame \o sum \in Seq(Byte) /\ Len(frame \o sum) = Len(frame) + Len(sum)
        /\ \A k \in 1..(Len(frame) + Len(sum)) :
             (frame \o sum)[k] = IF k <= Len(frame) THEN frame[k] ELSE sum[k - Len(frame)]
    BY <1>5, <1>7, ConcatProperties
  <2> QED
    BY <1>1, <1>2, <1>5, <1>7, <2>1
<1>9. \A k \in 1..6 : e[k] = IF k <= 4 THEN start[k] ELSE u16(Len(payload))[k - 4]
  <2> TAKE k \in 1..6
  <2>1. k \in 1..(6 + Len(payload)) /\ k <= 6
    BY <1>1
  <2>2. e[k] = header[k]
    BY <1>7, <1>8, <2>1
  <2> QED
    BY <1>6, <2>2
<1>10. /\ e[1] = kPreamble /\ e[2] = kPreamble /\ e[3] = kPreamble /\ e[4] = id
       /\ e[5] = u16(Len(payload))[1] /\ e[6] = u16(Len(payload))[2]
  BY <1>3, <1>9
<1>11. read_u16(e, 5) = Len(payload)
  <2>1. read_u16(e, 5) = e[5] + 256 * e[6]
    BY DEF read_u16
  <2> QED
    BY <1>4, <1>10, <2>1
<1>12. \A k \in 1..Len(payload) : e[6 + k] = payload[k]
  <2> TAKE k \in 1..Len(payload)
  <2>1. PICK m : m = 6 + k
    OBVIOUS
  <2>2. m \in 1..(6 + Len(payload)) /\ ~(m <= 6) /\ m - 6 = k
    BY <1>1, <2>1
  <2> QED
    BY <1>7, <1>8, <2>1, <2>2
<1> QED
  BY <1>8, <1>10, <1>11, <1>12

\* The bytes of e stand in s, from i on.
Stands(e, s, i) ==
  i + Len(e) - 1 <= Len(s) /\ \A k \in 1..Len(e) : s[i + k - 1] = e[k]

\* Where the bytes of a frame stand in a stream there is a frame, with that
\* id and that payload.
LEMMA EncodedIsFrame ==
  ASSUME NEW id \in Byte, NEW payload \in Seq(Byte),
         Len(payload) <= uint16_max, Len(payload) <= max_payload_size,
         SelfChecking(id, payload),
         NEW s \in Seq(Byte), NEW i \in 1..Len(s),
         Stands(encode_frame(id, payload), s, i)
  PROVE  /\ FrameAt(s, i) /\ PayloadSize(From(s, i)) = Len(payload)
         /\ Payload(From(s, i)) = payload /\ s[i + 3] = id
<1>0. PICK e : /\ e = encode_frame(id, payload)
               /\ i + Len(e) - 1 <= Len(s)
               /\ \A k \in 1..Len(e) : s[i + k - 1] = e[k]
  BY Zenon DEF Stands
<1>1. /\ e \in Seq(Byte) /\ Len(e) = Len(payload) + 8
      /\ e[1] = kPreamble /\ e[2] = kPreamble /\ e[3] = kPreamble
      /\ e[4] = id /\ read_u16(e, 5) = Len(payload)
      /\ \A k \in 1..Len(payload) : e[6 + k] = payload[k]
  BY <1>0, EncodedBytes
<1>2. Len(payload) \in Nat /\ Len(s) \in Nat /\ Len(e) \in Nat
  BY LenProperties, <1>1
<1>3. PICK front : front = From(s, i)
  OBVIOUS
<1>4. /\ front \in Seq(Byte) /\ Len(front) = Len(s) - i + 1
      /\ \A k \in 1..(Len(s) - i + 1) : front[k] = s[i + k - 1]
  <2>1. i \in 1..(Len(s) + 1)
    BY <1>2
  <2> QED
    BY <1>3, <2>1, FromFacts
<1>5. Begins(e, front)
  <2>1. Len(e) <= Len(front) /\ 1..Len(e) \subseteq 1..(Len(s) - i + 1)
    BY <1>0, <1>2, <1>4
  <2> QED
    BY <1>0, <1>1, <1>4, <2>1 DEF Begins
<1>6. /\ PayloadSize(e) = Len(payload) /\ FrameSize(e) = Len(e)
      /\ Len(e) >= kFrameOverhead
  <2>1. PayloadSize(e) = Len(payload)
    BY <1>1 DEF PayloadSize
  <2> QED
    BY <1>1, <1>2, <2>1 DEF FrameSize, kFrameOverhead
<1>7. /\ PayloadSize(front) = Len(payload) /\ FrameSize(front) = Len(e)
      /\ front[4] = id
  BY <1>1, <1>5, <1>6, SameSize
<1>8. (ChecksumIsRight(e) <=> ChecksumIsRight(front)) /\ Payload(e) = Payload(front)
  BY <1>2, <1>5, <1>6, SameFrame
<1>9. ChecksumIsRight(e)
  <2>1. SubSeq(e, 1, FrameSize(e)) = e
    BY <1>1, <1>6, SubSeqFull
  <2>2. checksum(e) = 0
    BY <1>0, Zenon DEF SelfChecking
  <2> QED
    BY <2>1, <2>2 DEF ChecksumIsRight
<1>10. Payload(e) = payload
  <2>1. PICK last : last = 6 + Len(payload)
    OBVIOUS
  <2>2. Payload(e) = SubSeq(e, 7, last)
    BY <1>6, <2>1 DEF Payload, kHeaderSize
  <2>3. last \in Nat /\ last <= Len(e) /\ last - 7 + 1 = Len(payload)
    BY <1>1, <1>2, <2>1
  <2>4. \A k \in 7..last : e[k] \in Byte
    <3> TAKE k \in 7..last
    <3>1. k \in 1..Len(e)
      BY <1>2, <2>3
    <3> QED
      BY <1>1, <3>1, ElementOfSeq
  <2>5. /\ SubSeq(e, 7, last) \in Seq(Byte)
        /\ Len(SubSeq(e, 7, last)) = IF 7 <= last THEN last - 7 + 1 ELSE 0
        /\ \A k \in 1..(last - 7 + 1) : SubSeq(e, 7, last)[k] = e[7 + k - 1]
    BY <2>3, <2>4, SubSeqProperties
  <2>6. Len(SubSeq(e, 7, last)) = Len(payload)
    BY <1>2, <2>1, <2>3, <2>5
  <2>7. \A k \in 1..Len(payload) : SubSeq(e, 7, last)[k] = payload[k]
    <3> TAKE k \in 1..Len(payload)
    <3>1. k \in 1..(last - 7 + 1) /\ 7 + k - 1 = 6 + k
      BY <1>2, <2>3
    <3> QED
      BY <1>1, <2>5, <3>1
  <2> QED
    BY <2>2, <2>5, <2>6, <2>7, SeqEqual
<1>11. PreambleAt(front, 1)
  <2>1. PreambleAt(e, 1)
    <3>1. 1 + 2 <= Len(e) /\ 1..(1 + 2) = {1, 2, 3}
      BY <1>1, <1>2
    <3> QED
      BY <1>1, <3>1 DEF PreambleAt
  <2>2. 1 \in Nat \ {0} /\ 1 + 2 <= Len(e)
    BY <1>1, <1>2
  <2> QED
    BY <1>5, <2>1, <2>2, SamePreamble
<1>12. FrameAt(s, i)
  <2>1. /\ Len(front) >= kFrameOverhead /\ Len(front) >= FrameSize(front)
        /\ PayloadSize(front) <= max_payload_size
    BY <1>0, <1>1, <1>2, <1>4, <1>7 DEF kFrameOverhead
  <2> QED
    BY <1>3, <1>8, <1>9, <1>11, <2>1, Zenon DEF FrameAt
<1>13. s[i + 3] = id
  <2>1. 4 \in 1..(Len(s) - i + 1) /\ i + 4 - 1 = i + 3
    BY <1>0, <1>1, <1>2
  <2> QED
    BY <1>4, <1>7, <2>1
<1> QED
  BY <1>3, <1>7, <1>8, <1>10, <1>12, <1>13

\* A frame that encode_frame() made, wherever it stands behind whatever came
\* before, is handled with its id and payload: unless an earlier frame with
\* the right checksum reaches into it, and after at most one largest frame.
EncodedGetsThrough(id, payload) ==
  ~parsing =>
    \A i \in 1..received :
      /\ Stands(encode_frame(id, payload), Upto(received), i)
      /\ \A k \in 1..(i - 1) :
           FrameAt(Upto(received), k) =>
             k + FrameSize(From(Upto(received), k)) <= i
      /\ i - 2 + kFrameOverhead + max_payload_size <= received
      => \E n \in 1..Len(handled) :
           handled[n].id = id /\ handled[n].payload = payload

\* It is one of the frames that get through.
LEMMA EncodedGotThrough ==
  ASSUME IInv, HandledInv, NEW id \in Byte, NEW payload \in Seq(Byte),
         Len(payload) >= 2, Len(payload) <= uint16_max,
         Len(payload) <= max_payload_size, SelfChecking(id, payload)
  PROVE  EncodedGetsThrough(id, payload)
<1> SUFFICES ASSUME ~parsing, NEW i \in 1..received,
                    Stands(encode_frame(id, payload), Upto(received), i),
                    \A k \in 1..(i - 1) :
                      FrameAt(Upto(received), k) =>
                        k + FrameSize(From(Upto(received), k)) <= i,
                    i - 2 + kFrameOverhead + max_payload_size <= received
             PROVE  \E n \in 1..Len(handled) :
                      handled[n].id = id /\ handled[n].payload = payload
  BY DEF EncodedGetsThrough
<1>1. wire \in Seq(Byte) /\ Len(wire) \in Nat /\ received \in 0..Len(wire)
  BY LenProperties DEF IInv, TypeOK
<1>2. PICK s : s = Upto(received)
  OBVIOUS
<1>3. s \in Seq(Byte) /\ Len(s) = received
  <2>1. \A k \in 1..received : wire[k] \in Byte
    BY <1>1, ElementOfSeq
  <2> QED
    BY <1>1, <1>2, <2>1, SubSeqProperties DEF Upto
<1>5. i \in 1..Len(s) /\ Stands(encode_frame(id, payload), s, i)
  BY <1>2, <1>3
<1>6. /\ FrameAt(s, i) /\ PayloadSize(From(s, i)) >= 2
      /\ Payload(From(s, i)) = payload /\ s[i + 3] = id
  <2>1. /\ FrameAt(s, i) /\ PayloadSize(From(s, i)) = Len(payload)
        /\ Payload(From(s, i)) = payload /\ s[i + 3] = id
    BY <1>3, <1>5, EncodedIsFrame
  <2> QED
    BY <2>1
<1>7. Tells(Scan(s)[1], s, i)
  <2>1. \A k \in 1..(i - 1) : FrameAt(s, k) => k + FrameSize(From(s, k)) <= i
    BY <1>2
  <2>2. i - 2 + kFrameOverhead + max_payload_size <= Len(s)
    BY <1>3
  <2> QED
    BY <1>3, <1>5, <1>6, <2>1, <2>2, ScanComesTo
<1>8. handled = Scan(s)[1]
  BY <1>2, HandledIsScanned DEF FragmentationIsInvisible, Frames, Upto
<1> QED
  BY <1>6, <1>7, <1>8 DEF Tells

-----------------------------------------------------------------------------
\* The inductive invariant.
THEOREM Invariant == Spec => []IInv
<1>1. Init => IInv
  BY InitHolds
<1>2. IInv /\ [Next]_vars => IInv'
  BY TypeStep, IdleStep, BoundedStep DEF IInv
<1> QED
  BY <1>1, <1>2, PTL DEF Spec

\* The bytes in the buffer are the last ones of this connection's stream,
\* whatever the stream is and wherever recv() cuts it.
THEOREM TypeCorrect == Spec => []TypeOK
<1>1. IInv => TypeOK
  BY DEF IInv
<1> QED
  BY <1>1, Invariant, PTL

\* The buffer stays shorter than the largest frame, whatever length a
\* corrupted header announces.
THEOREM BufferBounded == Spec => []BufferIsBounded
<1>1. IInv => BufferIsBounded
  BY DEF IInv
<1> QED
  BY <1>1, Invariant, PTL

\* The loop of parse_frames() comes to an end: a turn that goes on erases.
THEOREM TurnsErase == Spec => EachTurnErases
<1>1. IInv /\ [Next]_vars
        => [turn' > turn => Len(receive_buffer_') < Len(receive_buffer_)]_vars
  BY ErasesStep
<1> QED
  BY <1>1, Invariant, PTL DEF Spec, EachTurnErases

\* However recv() cuts the stream, what has been handled is what a scan of
\* the stream finds: HandledInv is inductive next to IInv.
THEOREM HandledIsRight == Spec => []HandledInv
<1>1. Init => HandledInv
  <2>1. <<>> \in Seq(Reply)
    BY EmptySeq
  <2> QED
    BY <2>1 DEF Init, HandledInv
<1>2. IInv /\ HandledInv /\ [Next]_vars => HandledInv'
  BY HandledStep
<1> QED
  BY <1>1, <1>2, Invariant, PTL DEF Spec

\* The frames handled are those of the bytes received, in order, each once,
\* whatever the pieces in which recv() returned them.
THEOREM FragmentationInvisible == Spec => []FragmentationIsInvisible
<1>1. IInv /\ HandledInv => FragmentationIsInvisible
  BY HandledIsScanned
<1> QED
  BY <1>1, Invariant, HandledIsRight, PTL

\* Noise, and a corrupted frame, hold up the frames behind them for at most
\* one largest frame, and swallow none that does not begin within a frame.
THEOREM FramesGotThrough == Spec => []FramesGetThrough
<1>1. IInv /\ HandledInv => FramesGetThrough
  BY FrameGotThrough
<1> QED
  BY <1>1, Invariant, HandledIsRight, PTL

\* Nothing is handled that is not a frame with the right checksum within the
\* bytes received, in the middle of the loop neither.
THEOREM NothingElseHandled == Spec => []OnlyFrames
<1>1. IInv /\ HandledInv => OnlyFrames
  BY HandledAreFrames
<1> QED
  BY <1>1, Invariant, HandledIsRight, PTL

\* encode_frame() and parse_frames() agree: what the one makes, the other
\* finds, for every id and payload for which the checksum checks itself.
THEOREM EncodedFramesGetThrough ==
  ASSUME NEW id \in Byte, NEW payload \in Seq(Byte),
         Len(payload) >= 2, Len(payload) <= uint16_max,
         Len(payload) <= max_payload_size, SelfChecking(id, payload)
  PROVE  Spec => []EncodedGetsThrough(id, payload)
<1>1. IInv /\ HandledInv => EncodedGetsThrough(id, payload)
  BY EncodedGotThrough
<1> QED
  BY <1>1, Invariant, HandledIsRight, PTL

\* crc16() is the checksum of the frames.
ChecksumIsCrc16 == \A data \in Seq(Byte) : checksum(data) = crc16(data)

\* Then every frame that can be encoded checks itself.
LEMMA Crc16IsSelfChecking ==
  ASSUME ChecksumIsCrc16, NEW id \in Byte, NEW payload \in Seq(Byte),
         Len(payload) <= uint16_max
  PROVE  SelfChecking(id, payload)
<1> DEFINE start == <<kPreamble, kPreamble, kPreamble, id>>
           size == u16(Len(payload))
           frame == start \o size \o payload
<1>1. Len(payload) \in 0..uint16_max /\ ~(Len(payload) > uint16_max)
  <2>1. Len(payload) \in Nat
    BY LenProperties
  <2>2. uint16_max \in Nat
    BY SMT DEF uint16_max
  <2> QED
    BY <2>1, <2>2
<1>2. frame \in Seq(Byte)
  <2>1. start \in Seq(Byte)
    BY DEF kPreamble, Byte
  <2>2. size \in Seq(Byte)
    BY <1>1, U16RoundTrip
  <2> HIDE DEF start, size
  <2>3. start \o size \in Seq(Byte)
    BY <2>1, <2>2, ConcatProperties
  <2> QED
    BY <2>3, ConcatProperties
<1> HIDE DEF frame
<1>3. PICK crc : crc = crc16(frame)
  OBVIOUS
<1>4. crc \in Word /\ crc16(frame \o <<crc % 256, crc \div 256>>) = 0
  <2>1. frame \in Seq(0..255)
    BY <1>2 DEF Byte
  <2> QED
    BY <1>3, <2>1, ChecksumChecksItself
<1>5. checksum(frame) = crc
  BY <1>2, <1>3 DEF ChecksumIsCrc16
<1>6. crc \in 0..uint16_max
  <2>1. uint16_max = word_max
    BY SMT DEF uint16_max, word_max
  <2> QED
    BY <1>4, <2>1 DEF Word
<1>7. PICK e : e = frame \o u16(checksum(frame))
  OBVIOUS
<1>8. e = encode_frame(id, payload)
  BY <1>1, <1>7, Zenon DEF encode_frame, frame
<1>9. checksum(e) = 0
  <2>1. e \in Seq(Byte)
    <3>1. u16(crc) \in Seq(Byte)
      BY <1>6, U16RoundTrip
    <3> QED
      BY <1>2, <1>5, <1>7, <3>1, ConcatProperties
  <2>2. crc16(e) = 0
    BY <1>4, <1>5, <1>7, Zenon DEF u16
  <2> QED
    BY <2>1, <2>2 DEF ChecksumIsCrc16
<1> QED
  BY <1>5, <1>6, <1>8, <1>9, Zenon DEF SelfChecking, frame

\* With the crc16() of the code nothing needs to be assumed of the checksum:
\* whatever encode_frame() makes, parse_frames() finds.
THEOREM Crc16FramesGetThrough ==
  ASSUME ChecksumIsCrc16, NEW id \in Byte, NEW payload \in Seq(Byte),
         Len(payload) >= 2, Len(payload) <= uint16_max,
         Len(payload) <= max_payload_size
  PROVE  Spec => []EncodedGetsThrough(id, payload)
BY Crc16IsSelfChecking, EncodedFramesGetThrough
=============================================================================
