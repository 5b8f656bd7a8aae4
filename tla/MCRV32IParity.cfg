\* i32 is 8 bits: addresses and registers 0..255, immediates -8..7.
CONSTANTS
  ByteBits = 2
  Registers = {0, 1, 2, 10, 11, 12}
  ImmediateBits = 4
  BranchBits = 6
  JumpBits = 8
  PackagedCallDepth = 2
  OracleDepth = 2
  BridgedOperations = 60
  SafeId <- MCSafeId
  StackTop = 12
  Contract <- MCContract
  Hardcoded <- MCContract
  Sentinel = 252
  MaxSteps = 24
  Files <- MCFiles
  Documents <- MCDocuments
  Parsed <- Written
  HostSymbols <- Hosts
  HostContract = "0.1.1"
  HostReplies <- MCReplies
  RunArgs <- MCRunArgs
  MaxExecutors = 1
  MaxRuns = 1
SPECIFICATION ParitySpec
INVARIANTS  OracleAgrees BridgedAreAdmitted
CHECK_DEADLOCK FALSE
