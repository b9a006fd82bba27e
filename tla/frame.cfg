\* Any bytes, or frames of write_frame, in pieces, cut anywhere.
SPECIFICATION LiveSpec
CONSTANTS
  Base = 3
  Byte <- Bytes
  PREFIX_BYTES = 2
  MaxLength <- Longest
  to_be_bytes <- BigEndian
  from_be_bytes <- BigEndianValue
  Maximum = 3
  MaxStream = 7
CHECK_DEADLOCK FALSE
INVARIANTS
  TypeOK
  BytesDecide
  FramesArriveInOrder
PROPERTIES
  EndIsReached
