------------------------------ MODULE FrameParser ------------------------------
(***************************************************************************)
(* How the transport finds the frames in the bytes it receives             *)
(* (receive_available() and parse_frames() in                              *)
(* wsg50_driver/src/transport.cpp).                                        *)
(*                                                                         *)
(* A connection is a stream of bytes that recv() returns in pieces of any  *)
(* size.  Each piece is appended to receive_buffer_, and parse_frames()    *)
(* takes out of it what it can: one action is one turn of its loop.  The   *)
(* stream may hold anything; CONSTANT Wire says what.                      *)
(***************************************************************************)
EXTENDS Naturals, Sequences

CONSTANTS
  Wire,              \* the streams of bytes a connection may carry
  checksum(_),       \* the checksum of a sequence of bytes
  max_payload_size   \* of TransportOptions

Byte == 0..255

ASSUME ParserAssumption ==
  Wire \subseteq Seq(Byte) /\ max_payload_size \in Nat

VARIABLES
  socket_,         \* is there a connection
  wire, received,  \* its stream, and how many bytes of it recv() returned
  receive_buffer_,
  parsing,         \* inside the loop of parse_frames()
  turn,            \* the turns this loop has made (history)
  handled          \* what handle_frame() got on this connection (history)

vars == <<socket_, wire, received, receive_buffer_, parsing, turn, handled>>

Init ==
  /\ socket_ = FALSE /\ wire = <<>> /\ received = 0
  /\ receive_buffer_ = <<>> /\ parsing = FALSE /\ turn = 0
  /\ handled = <<>>

-----------------------------------------------------------------------------
(* Frames.                                                                 *)

kPreamble == 170
kHeaderSize == 6
kFrameOverhead == 8

read_u16(s, i) == s[i] + 256 * s[i + 1]

uint16_max == 65535

u16(n) == <<n % 256, n \div 256>>

\* A payload that has no 16 bit size cannot be encoded.
encode_frame(id, payload) ==
  LET frame == <<kPreamble, kPreamble, kPreamble, id>>
                 \o u16(Len(payload)) \o payload
  IN  IF Len(payload) > uint16_max THEN <<>> ELSE frame \o u16(checksum(frame))

From(s, i) == SubSeq(s, i, Len(s))

PreambleAt(s, i) ==
  /\ i + 2 <= Len(s)
  /\ \A k \in i..(i + 2) : s[k] = kPreamble

Preambles(s) == {i \in 1..Len(s) : PreambleAt(s, i)}

FirstPreamble(s) ==
  CHOOSE i \in Preambles(s) : \A k \in Preambles(s) : i <= k

\* The sizes a frame at the front of s claims to have.
PayloadSize(s) == read_u16(s, 5)
FrameSize(s) == kFrameOverhead + PayloadSize(s)

Payload(s) == SubSeq(s, kHeaderSize + 1, kHeaderSize + PayloadSize(s))

\* handle_frame(): what has no status is dropped.
HandleFrame(id, payload) ==
  IF Len(payload) < 2 THEN <<>>
  ELSE <<[id |-> id, status |-> read_u16(payload, 1), payload |-> payload]>>

-----------------------------------------------------------------------------
(* Connections, and recv().                                                *)

\* Mutant: what is left of the last connection stays in the buffer.
ConnectsUncleared ==
  /\ ~socket_ /\ socket_' = TRUE
  /\ wire' \in Wire
  /\ UNCHANGED <<received, receive_buffer_, parsing, turn, handled>>

Connects ==
  /\ ~socket_ /\ socket_' = TRUE
  /\ wire' \in Wire
  /\ receive_buffer_' = <<>>
  /\ UNCHANGED <<received, parsing, turn, handled>>

\* The parser is not interrupted: disconnect() is called by the same thread.
\* The stream ends, the buffer stays as it is.
Disconnects ==
  /\ socket_ /\ ~parsing
  /\ socket_' = FALSE
  /\ wire' = <<>> /\ received' = 0 /\ handled' = <<>>
  /\ UNCHANGED <<receive_buffer_, parsing, turn>>

Receive ==
  /\ socket_ /\ ~parsing
  /\ \E upto \in (received + 1)..Len(wire) :
       /\ receive_buffer_' =
            receive_buffer_ \o SubSeq(wire, received + 1, upto)
       /\ received' = upto
  /\ parsing' = TRUE
  /\ UNCHANGED <<socket_, wire, turn, handled>>

-----------------------------------------------------------------------------
(* The loop of parse_frames().  Candidate is the buffer after the bytes    *)
(* before the first preamble have been erased.                             *)

Leave(rest) ==
  /\ receive_buffer_' = rest /\ parsing' = FALSE /\ turn' = 0
  /\ UNCHANGED <<socket_, wire, received, handled>>

GoOn(rest) ==
  /\ receive_buffer_' = rest /\ turn' = turn + 1
  /\ UNCHANGED <<socket_, wire, received, parsing>>

TooShort ==
  /\ parsing /\ Len(receive_buffer_) < kFrameOverhead
  /\ Leave(receive_buffer_)

\* How many preamble bytes at the end may begin the next preamble.
Keep(s) ==
  IF s[Len(s)] # kPreamble THEN 0
  ELSE IF s[Len(s) - 1] # kPreamble THEN 1 ELSE 2

\* Mutant: what might begin a preamble is erased.
KeepNothing ==
  /\ parsing /\ Len(receive_buffer_) >= kFrameOverhead
  /\ Preambles(receive_buffer_) = {}
  /\ Leave(<<>>)

NoPreamble ==
  /\ parsing /\ Len(receive_buffer_) >= kFrameOverhead
  /\ Preambles(receive_buffer_) = {}
  /\ Leave(From(receive_buffer_,
                Len(receive_buffer_) - Keep(receive_buffer_) + 1))

HasPreamble ==
  /\ parsing /\ Len(receive_buffer_) >= kFrameOverhead
  /\ Preambles(receive_buffer_) # {}

Candidate == From(receive_buffer_, FirstPreamble(receive_buffer_))

\* Mutant: no limit to the payload.
AnyLength == HasPreamble /\ Len(Candidate) >= kFrameOverhead

\* The whole header and a payload size that is not too large.
ProperHeader ==
  /\ HasPreamble /\ Len(Candidate) >= kFrameOverhead
  /\ PayloadSize(Candidate) <= max_payload_size

HeaderIncomplete ==
  /\ HasPreamble /\ Len(Candidate) < kFrameOverhead
  /\ Leave(Candidate)

\* Mutant: a size that is too large is not erased.
TooLongStays ==
  /\ HasPreamble /\ Len(Candidate) >= kFrameOverhead
  /\ PayloadSize(Candidate) > max_payload_size
  /\ GoOn(Candidate) /\ UNCHANGED handled

TooLong ==
  /\ HasPreamble /\ Len(Candidate) >= kFrameOverhead
  /\ PayloadSize(Candidate) > max_payload_size
  /\ GoOn(Tail(Candidate)) /\ UNCHANGED handled

FrameIncomplete ==
  /\ ProperHeader /\ Len(Candidate) < FrameSize(Candidate)
  /\ Leave(Candidate)

\* Mutant: a checksum is not looked at.
AnyChecksum(s) == TRUE

ChecksumIsRight(s) == checksum(SubSeq(s, 1, FrameSize(s))) = 0

\* Mutant: all of the frame is erased, not its first byte.
WrongChecksumErasesFrame ==
  /\ ProperHeader /\ Len(Candidate) >= FrameSize(Candidate)
  /\ ~ChecksumIsRight(Candidate)
  /\ GoOn(From(Candidate, FrameSize(Candidate) + 1)) /\ UNCHANGED handled

WrongChecksum ==
  /\ ProperHeader /\ Len(Candidate) >= FrameSize(Candidate)
  /\ ~ChecksumIsRight(Candidate)
  /\ GoOn(Tail(Candidate)) /\ UNCHANGED handled

Frame ==
  /\ ProperHeader /\ Len(Candidate) >= FrameSize(Candidate)
  /\ ChecksumIsRight(Candidate)
  /\ GoOn(From(Candidate, FrameSize(Candidate) + 1))
  /\ handled' = handled \o HandleFrame(Candidate[4], Payload(Candidate))

-----------------------------------------------------------------------------
Parse ==
  \/ TooShort \/ NoPreamble \/ HeaderIncomplete \/ TooLong
  \/ FrameIncomplete \/ WrongChecksum \/ Frame

Next == Parse \/ Receive \/ Connects \/ Disconnects

Spec == Init /\ [][Next]_vars
-----------------------------------------------------------------------------
\* The type invariant.  What is in the buffer is what was received last; it
\* is never mixed with the bytes of another connection.
TypeOK ==
  /\ socket_ \in BOOLEAN /\ parsing \in BOOLEAN /\ turn \in Nat
  /\ wire \in Seq(Byte) /\ received \in 0..Len(wire)
  /\ receive_buffer_ \in Seq(Byte)
  /\ socket_ =>
       /\ Len(receive_buffer_) <= received
       /\ receive_buffer_ =
            SubSeq(wire, received - Len(receive_buffer_) + 1, received)

\* A frame with the right checksum begins at i.
FrameAt(s, i) ==
  LET front == From(s, i) IN
    /\ Len(front) >= kFrameOverhead /\ PreambleAt(front, 1)
    /\ PayloadSize(front) <= max_payload_size
    /\ Len(front) >= FrameSize(front)
    /\ ChecksumIsRight(front)

\* What begins at i may still become a frame when more bytes come.
Unfinished(s, i) ==
  LET front == From(s, i) IN
    /\ PreambleAt(front, 1)
    /\ \/ Len(front) < kFrameOverhead
       \/ PayloadSize(front) <= max_payload_size /\ Len(front) < FrameSize(front)

\* The frames of a sequence of bytes from each of them on, read in one go.
Scan(s) ==
  LET f[i \in 1..(Len(s) + 1)] ==
        IF i = Len(s) + 1 \/ Unfinished(s, i) THEN <<>>
        ELSE IF FrameAt(s, i)
          THEN LET front == From(s, i) IN
                 HandleFrame(front[4], Payload(front))
                   \o f[i + FrameSize(front)]
          ELSE f[i + 1]
  IN  f

Frames(s) == Scan(s)[1]

\* Fragmentation is invisible: however recv() cuts the stream, and whatever
\* is in it, the frames handled are those of the bytes received.
FragmentationIsInvisible ==
  ~parsing => handled = Frames(SubSeq(wire, 1, received))

\* The buffer does not grow without bound, whatever the stream holds: a
\* length that was corrupted cannot make the parser wait for more than the
\* largest frame.
BufferIsBounded ==
  ~parsing => Len(receive_buffer_) < kFrameOverhead + max_payload_size

\* A corrupted frame, or noise that looks like a header, holds up the frames
\* after it for at most one largest frame, and swallows none of them.
FramesGetThrough ==
  ~parsing =>
    LET s == SubSeq(wire, 1, received)
        EndAt(i) == i + FrameSize(From(s, i))
    IN  \A i \in 1..received :
          /\ FrameAt(s, i) /\ PayloadSize(From(s, i)) >= 2
          /\ \A k \in 1..(i - 1) : FrameAt(s, k) => EndAt(k) <= i
          /\ i - 2 + kFrameOverhead + max_payload_size <= received
          => \E n \in 1..Len(handled) :
               /\ handled[n].id = s[i + 3]
               /\ handled[n].payload = Payload(From(s, i))

\* Each turn of the loop that does not leave it erases something, so the
\* worker thread gets back to its deadlines and its queues.
EachTurnErases ==
  [][turn' > turn => Len(receive_buffer_') < Len(receive_buffer_)]_vars
=============================================================================
