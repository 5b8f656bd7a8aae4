\* A loop back to the entry block of a function with a parameter.
CONSTANTS
  ByteBits = 2
  Documents <- MCDocuments
  Parsed <- ProgramIn
  HostSymbols = {"in"}
  HostContract = "1"
  HostReplies <- MCHostReplies
  RunArgs <- MCRunArgs
  MaxExecutors = 2
  MaxRuns = 2
SPECIFICATION Spec
INVARIANTS ParametersAvailableInEntryBlock
CHECK_DEADLOCK FALSE
