CONSTANTS
  MaxSegments = 3
  Wire <- Streams
  checksum <- crc16
  max_payload_size = 3
SPECIFICATION Spec
INVARIANTS
  TypeOK
  FragmentationIsInvisible
  BufferIsBounded
  FramesGetThrough
  OnlySentFrames
PROPERTIES
  EachTurnErases
