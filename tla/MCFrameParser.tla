---------------------------- MODULE MCFrameParser ----------------------------
(***************************************************************************)
(* Streams for FrameParser: up to MaxSegments segments, each a frame that  *)
(* was sent or something that may stand between frames.  The checksum is   *)
(* the real one.                                                           *)
(***************************************************************************)
EXTENDS FrameParser, Crc16

CONSTANTS MaxSegments

Seqs == INSTANCE SequencesExt

\* Frames the gripper sends: the answer to a command, a payload that looks
\* like a preamble, an id that looks like one, and a frame without status.
Sent == {<<33, <<0, 0>> >>, <<64, <<170, 170, 170>> >>, <<170, <<26, 0>> >>,
         <<65, <<1>> >>}

Encoded == {encode_frame(f[1], f[2]) : f \in Sent}

\* A bit of a payload is flipped, or the length is wrong, and stray bytes: of
\* a preamble, of a header, and of a header that announces too much.
Corrupted ==
  {[encode_frame(33, <<0, 0>>) EXCEPT ![7] = 1],
   [encode_frame(64, <<170, 170, 170>>) EXCEPT ![5] = 2]}

Noise == {<<7>>, <<170>>, <<170, 170, 170, 33, 3, 0>>,
          <<170, 170, 170, 33, 255, 255>>}

Segment == Encoded \cup Corrupted \cup Noise

Streams ==
  UNION {{Seqs!FlattenSeq(s) : s \in [1..n -> Segment]} :
           n \in 1..MaxSegments}

\* The test vectors of test_transport.cpp:251-258, and that what was encoded
\* has the checksum 0 (l.247).
ASSUME
  /\ crc16(<<170, 170, 170>>) = 20725                         \* 0x50f5
  /\ crc16(<<170, 170, 170, 64, 3, 0, 0, 0, 0>>) = 28917      \* 0x70f5
  /\ \A frame \in Encoded : crc16(frame) = 0

\* The checksum tells every change of one bit of these frames.
ASSUME
  \A frame \in Encoded : \A i \in 1..Len(frame) : \A bit \in 0..7 :
    LET flipped == IF (frame[i] \div 2^bit) % 2 = 0 THEN frame[i] + 2^bit
                                                   ELSE frame[i] - 2^bit
    IN  crc16([frame EXCEPT ![i] = flipped]) # 0

\* Nothing is handled that was not sent, whatever was corrupted: not even a
\* frame put together from the bytes of two others.
OnlySentFrames ==
  \A n \in 1..Len(handled) : <<handled[n].id, handled[n].payload>> \in Sent
=============================================================================
