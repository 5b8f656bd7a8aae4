\* i32 is 8 bits: addresses and registers 0..255, immediates -8..7.
CONSTANTS
  ByteBits = 2
  Registers = {0, 1, 2, 31}
  PackagedCallDepth = 3
  HostMemory = 8
  Identifiers = {"main", "f", "g"}
  Fixtures <- MCFixtures
  Files <- MCFiles
  Runtimes <- MCRuntimes
SPECIFICATION IngestSpec
INVARIANTS DisciplinedParity ConversionsAreAdmitted FramesReturnToLinks OneTextKeepsAll
CHECK_DEADLOCK FALSE
