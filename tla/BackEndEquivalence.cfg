\* i1 has 1 bit, i8 2, i16 4, i32 (a word of 4 bytes) 8, the host word (i64) 16;
\* 27 and 198 have four different bytes each.
CONSTANTS
  ByteBits = 2
  Types = {"i1", "i8", "i16"}
  CornerType = "i64"
  Corners = {0, 1, 2, 3, 15, 16, 255, 32766, 32767, 32768, 32769, 65534, 65535}
  MemorySize = 4
  Widths = {1, 2, 4}
  Alignments = {1, 2}
  GuestAddresses = {0, 1, 3, 4}
  StoredValues = {27, 198}
  LoadTypes = {"i32"}
SPECIFICATION BackEndsSpec
INVARIANTS BackEndsAgree DivisionIdentity GuestByteOrder
PROPERTIES OnlyNamedBytesChange
CHECK_DEADLOCK FALSE
